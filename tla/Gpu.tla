-------------------------------- MODULE Gpu --------------------------------
(***************************************************************************)
(* The GPU renderer of the three package: the facade                       *)
(* (three_cli_renderer.ml), the engine under it (engine.ml), the ownership *)
(* of native objects (wgpu.ml) and the stubs they reach (wgpu_stubs.c).    *)
(*                                                                         *)
(* All of it runs on the caller's thread and every call blocks, so an      *)
(* operation of the facade is one action; what makes it hard is that any   *)
(* native call in the middle may fail.  An action therefore takes a fault: *)
(* the call that fails, or NoFault.                                        *)
(*                                                                         *)
(* gpu holds the native side (the handles that are live, the buffers that  *)
(* are mapped or whose mapping is still pending, whether a call ever took  *)
(* a dead handle) and the engine.  A handle is a kind, the part of the     *)
(* engine it is made for and a number; the smallest free number is used    *)
(* again, as addresses are.  One mesh is drawn, so the engine's mesh list  *)
(* is one entry or NoMesh, and one wrap and filter mode, so the sampler    *)
(* cache has at most one entry.  The surface is square.                    *)
(***************************************************************************)
EXTENDS Naturals, Sequences, FiniteSets, SequencesExt

CONSTANTS Sizes,           \* output sizes the terminal takes
          MaxFaults,       \* bound: native calls that fail
          MaxViews,        \* bound: texture views alive at once
          NoEngine, NoMesh, NoSampler    \* no engine, mesh entry, supersampler

\* A native object is of a kind, and made for a part of the engine.
Kinds == {"instance", "adapter", "device", "queue", "texture", "view", "buffer", "shader",
          "layout", "pipeline_layout", "render_pipeline", "compute_pipeline", "group",
          "sampler", "encoder", "command_buffer"}
Roles == {"engine", "target", "readback", "sampling", "params", "cells", "records", "white",
          "map", "vertex", "index", "uniform", "mesh", "frame"}
Handles == Kinds \X Roles \X Nat

Modes == {"none", "cpu", "gpu"}
Algorithms == {"standard", "pre_squeezed"}
NoMap == "no_map"
Maps == {NoMap, "map"}

\* The records behind Engine.t, a mesh entry and a supersampler.
Readbacks == [buffer : Handles, mapped : BOOLEAN]
Supersamplers == [handles : SUBSET Handles, view : Handles, cells : Nat, algorithm : Algorithms,
                  readback : Readbacks]
MeshEntries == [buffers : SUBSET Handles, group : Handles \cup {<<>>}, released : BOOLEAN,
                texture : Seq(Handles), geometry : 1 .. 2, map : Maps]
Engines == [core : SUBSET Handles, texture : Handles, view : Handles, readback : Readbacks,
            size : Nat, super_sample : Modes, algorithm : Algorithms,
            supersampler : Supersamplers \cup {NoSampler},
            mesh : MeshEntries \cup {NoMesh},
            white : Seq(Handles), samplers : SUBSET Handles]

ASSUME GpuConstants ==
    /\ Sizes \subseteq Nat \ {0} /\ Sizes # {}
    /\ MaxFaults \in Nat /\ MaxViews \in Nat
    /\ NoEngine \notin Engines /\ NoMesh \notin MeshEntries /\ NoSampler \notin Supersamplers

VARIABLES gpu,             \* [live, mapped, pending, misuse, engine]
          facade,          \* [output, super_sample, sample_algorithm, destroyed]
          last_draw,       \* what the last draw_scene left in the buffer
          faults           \* native calls that failed so far

gpuVars == <<gpu, facade, last_draw, faults>>

NoFault == [call |-> "none", at |-> 0]

\* The stubs that create an object, each by the kind of the handle it returns
\* and what the engine wants it for.
\* All of them but device_get_queue may report a failure.
instance_create == <<"instance", "engine">>
instance_request_adapter == <<"adapter", "engine">>
adapter_request_device == <<"device", "engine">>
device_get_queue == <<"queue", "engine">>
device_create_texture(role) == <<"texture", role>>
texture_create_view(role) == <<"view", role>>
device_create_buffer(role) == <<"buffer", role>>
device_create_shader_module(role) == <<"shader", role>>
device_create_material_bind_group_layout == <<"layout", "engine">>
device_create_supersampling_bind_group_layout == <<"layout", "sampling">>
device_create_pipeline_layout(role) == <<"pipeline_layout", role>>
device_create_textured_render_pipeline == <<"render_pipeline", "engine">>
device_create_compute_pipeline == <<"compute_pipeline", "sampling">>
device_create_compute_bind_group == <<"group", "sampling">>
device_create_material_bind_group == <<"group", "mesh">>
device_create_sampler(role) == <<"sampler", role>>
device_create_command_encoder == <<"encoder", "frame">>
command_encoder_finish == <<"command_buffer", "frame">>

-----------------------------------------------------------------------------
(* Native objects.  What an operation leaves is [g, ok, val]: the native side, *)
(* whether it succeeded, and what it returns.                                  *)

Result(g, ok, val) == [g |-> g, ok |-> ok, val |-> val]
Return(g, val) == Result(g, TRUE, val)
Done(g) == Return(g, <<>>)
Failed(g) == Result(g, FALSE, <<>>)

\* let* of the code: go on with what a successful operation left.
Then(r, Next(_, _)) == IF r.ok THEN Next(r.g, r.val) ELSE r

FreshHandle(live, kind) ==
    LET Handle(n) == <<kind[1], kind[2], n>>
    IN  Handle(CHOOSE n \in 1 .. Cardinality(live) + 1 :
                   Handle(n) \notin live /\ \A m \in 1 .. n - 1 : Handle(m) \in live)

\* Objects of the given kinds, created one after the other.
Made(live, kinds) ==
    LET made[k \in 0 .. Len(kinds)] ==
            IF k = 0 THEN <<>>
            ELSE Append(made[k - 1], FreshHandle(live \cup Range(made[k - 1]), kinds[k]))
    IN  made[Len(kinds)]

Created(g, kinds) ==
    Return([g EXCEPT !.live = @ \cup Range(Made(@, kinds))], Made(g.live, kinds))

\* A release stub gives the handle back; a buffer's mapping goes with it.
Release(g, handles) ==
    [g EXCEPT !.live = @ \ handles,
              !.mapped = @ \ handles,
              !.pending = @ \ handles,
              !.misuse = @ \/ ~(handles \subseteq g.live)]

Use(g, handles) == [g EXCEPT !.misuse = @ \/ ~(handles \subseteq g.live)]

Fails(fault, call) == IF fault.call = call THEN fault.at ELSE 0

MutantKeepsFirst(made) == Range(Tail(made))

\* What a failed construction releases: everything it has made so far (the
\* close_... chains of ensure_supersampler, the releases list of create).
ReleasedOnFailure(made) == Range(made)

Unwound(r) ==
    Failed(IF r.val = <<>> THEN r.g ELSE Release(r.g, ReleasedOnFailure(r.val)))

\* A construction that cleans up after itself: at = 0, or the call that fails.
Build(g, kinds, at) ==
    IF at \in 1 .. Len(kinds) THEN Unwound(Created(g, SubSeq(kinds, 1, at - 1)))
    ELSE Created(g, kinds)

-----------------------------------------------------------------------------
(* The engine. *)

DeviceCalls == <<instance_create, instance_request_adapter, adapter_request_device,
                 device_get_queue>>
TextureCalls(role) == <<device_create_texture(role), texture_create_view(role)>>
ReadbackCalls == <<device_create_buffer("readback")>>
PipelineCalls ==
    <<device_create_shader_module("engine"), device_create_shader_module("engine"),
      device_create_shader_module("engine"), device_create_material_bind_group_layout,
      device_create_pipeline_layout("engine"), device_create_textured_render_pipeline,
      device_create_textured_render_pipeline, device_create_textured_render_pipeline>>
EngineCalls == DeviceCalls \o TextureCalls("target") \o ReadbackCalls \o PipelineCalls
SamplerCalls ==
    <<device_create_shader_module("sampling"), device_create_supersampling_bind_group_layout,
      device_create_pipeline_layout("sampling"), device_create_compute_pipeline,
      device_create_buffer("params"), device_create_buffer("cells"),
      device_create_buffer("records"), device_create_compute_bind_group>>
MeshCalls ==
    <<device_create_buffer("vertex"), device_create_buffer("index"),
      device_create_buffer("uniform")>>
FrameCalls == <<device_create_command_encoder, command_encoder_finish>>

NewReadback(buffer) == [buffer |-> buffer, mapped |-> FALSE]

NewEngine(made, size) ==
    [core |-> Range(SubSeq(made, 1, 4)) \cup Range(SubSeq(made, 8, 15)),
     texture |-> made[5], view |-> made[6], readback |-> NewReadback(made[7]),
     size |-> size, super_sample |-> "none", algorithm |-> "standard",
     supersampler |-> NoSampler, mesh |-> NoMesh, white |-> <<>>, samplers |-> {}]

create(g, size, fault) ==
    Then(Build(g, EngineCalls, Fails(fault, "create")),
         LAMBDA h, made : Done([h EXCEPT !.engine = NewEngine(made, size)]))

CellsOf(size) == (size + 1) \div 2

destroy_supersampler(g) ==
    IF g.engine.supersampler = NoSampler THEN g
    ELSE [Release(g, g.engine.supersampler.handles) EXCEPT !.engine.supersampler = NoSampler]

SupersamplerFits(e) ==
    /\ e.supersampler # NoSampler
    /\ e.supersampler.cells = CellsOf(e.size)
    /\ e.supersampler.algorithm = e.algorithm

NewSupersampler(e, made) ==
    [handles |-> Range(made), view |-> e.view, cells |-> CellsOf(e.size),
     algorithm |-> e.algorithm, readback |-> NewReadback(made[7])]

BuildSupersampler(g, fault) ==
    Then(Build(Use(g, {g.engine.view}), SamplerCalls, Fails(fault, "supersampler")),
         LAMBDA h, made : Done([h EXCEPT !.engine.supersampler = NewSupersampler(h.engine, made)]))

MutantNeverRebuilds(g, fault) ==
    IF g.engine.super_sample # "gpu" \/ g.engine.supersampler # NoSampler THEN Done(g)
    ELSE BuildSupersampler(g, fault)

ensure_supersampler(g, fault) ==
    IF g.engine.super_sample # "gpu" \/ SupersamplerFits(g.engine) THEN Done(g)
    ELSE BuildSupersampler(destroy_supersampler(g), fault)

engine_set_super_sample(g, mode, fault) ==
    IF mode = "gpu" THEN ensure_supersampler([g EXCEPT !.engine.super_sample = mode], fault)
    ELSE Done(destroy_supersampler([g EXCEPT !.engine.super_sample = mode]))

engine_set_algorithm(g, algorithm, fault) ==
    ensure_supersampler([g EXCEPT !.engine.algorithm = algorithm], fault)

\* A new readback r after the new target; the old ones of engine e go last, and
\* stay when the supersampler could not be rebuilt.
SwapTarget(r, e, target, size, fault) ==
    IF ~r.ok THEN Failed(Release(r.g, Range(target)))
    ELSE Then(ensure_supersampler([r.g EXCEPT !.engine.texture = target[1],
                                              !.engine.view = target[2],
                                              !.engine.readback = NewReadback(r.val[1]),
                                              !.engine.size = size], fault),
              LAMBDA h, none : Done(Release(h, {e.readback.buffer, e.view, e.texture})))

resize(g, size, fault) ==
    Then(Build(g, TextureCalls("target"), Fails(fault, "target")),
         LAMBDA h, target : SwapTarget(Build(h, ReadbackCalls, Fails(fault, "readback")),
                                       g.engine, target, size, fault))

-----------------------------------------------------------------------------
(* The mesh.  Operations on an entry return it. *)

\* destroy_data_texture releases the texture and not its view.
DataTexture(entry) == IF entry.texture = <<>> THEN {} ELSE {entry.texture[1]}
LiveGroup(entry) == IF entry.released THEN {} ELSE {entry.group}

destroy_mesh_entry(g, entry) ==
    IF entry = NoMesh THEN g
    ELSE Release(g, LiveGroup(entry) \cup DataTexture(entry) \cup entry.buffers)

\* A sampler that cannot be made leaves the texture behind.
ensure_default_white(g, fault) ==
    IF g.engine.white # <<>> THEN Done(g)
    ELSE Then(Build(g, TextureCalls("white"), Fails(fault, "white")),
              LAMBDA h, texture :
                  Then(Build(h, <<device_create_sampler("white")>>, Fails(fault, "white_sampler")),
                       LAMBDA k, sampler : Done([k EXCEPT !.engine.white = texture \o sampler])))

upload_sampler(g, fault) ==
    IF g.engine.samplers # {} THEN Done(g)
    ELSE Then(Build(g, <<device_create_sampler("map")>>, Fails(fault, "sampler")),
              LAMBDA h, made : Done([h EXCEPT !.engine.samplers = Range(made)]))

WithGroup(g, entry, bound, fault) ==
    Then(Build(Use(g, bound \cup entry.buffers), <<device_create_material_bind_group>>,
               Fails(fault, "group")),
         LAMBDA h, made : Return(h, [entry EXCEPT !.group = made[1], !.released = FALSE]))

WithWhiteGroup(g, entry, fault) ==
    Then(ensure_default_white(g, fault),
         LAMBDA h, none : WithGroup(h, entry, {h.engine.white[2], h.engine.white[3]}, fault))

NewEntry(made, geometry) ==
    [buffers |-> Range(made), group |-> <<>>, released |-> TRUE, texture |-> <<>>,
     geometry |-> geometry, map |-> NoMap]

\* The buffers are released when one of them fails, and left behind when the
\* default texture or the bind group fails.
create_mesh_entry(g, geometry, fault) ==
    Then(Build(g, MeshCalls, Fails(fault, "mesh")),
         LAMBDA h, made : WithWhiteGroup(h, NewEntry(made, geometry), fault))

Ungrouped(entry) == [entry EXCEPT !.released = TRUE, !.texture = <<>>]

\* The old group goes first; a failure leaves the entry Ungrouped, and the
\* texture of the new map behind.
rebuild_group(g, entry, want_map, fault) ==
    LET wanted == [Ungrouped(entry) EXCEPT !.map = want_map]
        free == Release(g, LiveGroup(entry) \cup DataTexture(entry))
    IN  IF want_map = NoMap THEN WithWhiteGroup(free, wanted, fault)
        ELSE Then(Build(free, TextureCalls("map"), Fails(fault, "texture")),
                  LAMBDA h, t :
                      Then(upload_sampler(h, fault),
                           LAMBDA k, none : WithGroup(k, [wanted EXCEPT !.texture = t],
                                                      {t[2]} \cup k.engine.samplers, fault)))

\* The entry of a node whose geometry is not the cached one: the cached entry
\* goes; the fresh one is kept only when all of it could be made.
fresh_entry(g, node, fault) ==
    Then(create_mesh_entry([destroy_mesh_entry(g, g.engine.mesh) EXCEPT !.engine.mesh = NoMesh],
                           node.geometry, fault),
         LAMBDA h, entry : IF node.map = NoMap THEN Return(h, entry)
                           ELSE rebuild_group(h, entry, node.map, fault))

StoreEntry(r, left) ==
    Result([r.g EXCEPT !.engine.mesh = IF r.ok THEN r.val ELSE left], r.ok, r.val)

entry_for(g, node, fault) ==
    IF g.engine.mesh = NoMesh \/ g.engine.mesh.geometry # node.geometry
    THEN StoreEntry(fresh_entry(g, node, fault), NoMesh)
    ELSE IF g.engine.mesh.map = node.map THEN Done(g)
    ELSE StoreEntry(rebuild_group(g, g.engine.mesh, node.map, fault), Ungrouped(g.engine.mesh))

-----------------------------------------------------------------------------
(* A frame. *)

\* An encoder and its command buffer are released whether or not the frame was
\* submitted.
Encode(g, used, at) ==
    Then(Build(Use(g, used), FrameCalls, at), LAMBDA h, made : Done(Release(h, Range(made))))

\* submit_draw_frame refuses a released group.
submit_draw_frame(g, fault) ==
    IF g.engine.mesh.released THEN Failed(g)
    ELSE Encode(g, {g.engine.view, g.engine.texture, g.engine.readback.buffer,
                    g.engine.mesh.group} \cup g.engine.mesh.buffers, Fails(fault, "encode"))

submit(g, node, fault) ==
    Then(entry_for(g, node, fault), LAMBDA h, none : submit_draw_frame(h, fault))

\* A copy into a buffer that is mapped, or about to be, is invalid: the GPU
\* drops the whole command buffer, and nobody is told.
EncodedFrameRuns(g) == g.engine.readback.buffer \notin g.mapped \cup g.pending

\* A poll of the device may settle the mappings an earlier call gave up on.
Polled(g, late) ==
    [g EXCEPT !.pending = IF late = "pending" THEN @ ELSE {},
              !.mapped = IF late = "mapped" THEN @ \cup g.pending ELSE @]

\* buffer_map_read_blocking and map_read: a buffer that is already mapped or
\* pending is refused; the call may fail (1) or give up after its timeout (2).
map_read(g, readback, fault, late) ==
    LET b == readback.buffer
        p == Use(Polled(g, late), {b})
    IN  IF readback.mapped THEN Failed(g)
        ELSE IF b \in g.mapped \cup g.pending \/ Fails(fault, "map") = 1 THEN Failed(p)
        ELSE IF Fails(fault, "map") = 2 THEN Failed([p EXCEPT !.pending = @ \cup {b}])
        ELSE Done([p EXCEPT !.mapped = @ \cup {b}])

MutantForgetsUnmap(m, readback, fault) ==
    Result(m.g, m.ok /\ Fails(fault, "map") # 3, readback)

\* copy_mapped and unmap of stage after map_read left m; they return the
\* readback.  A failed copy (3) leaves the buffer mapped.
read_mapped(m, readback, fault) ==
    IF ~m.ok THEN Result(m.g, FALSE, readback)
    ELSE IF Fails(fault, "map") = 3
    THEN Result(m.g, FALSE, [readback EXCEPT !.mapped = TRUE])
    ELSE Return([m.g EXCEPT !.mapped = @ \ {readback.buffer}], readback)

read_staged(g, readback, fault, late) ==
    read_mapped(map_read(g, readback, fault, late), readback, fault)

dispatch_compute_pass(g, fault) ==
    Encode(g, g.engine.supersampler.handles, Fails(fault, "compute"))

StoreReadback(r) == Result([r.g EXCEPT !.engine.readback = r.val], r.ok, r.val)
StoreRecords(r) == Result([r.g EXCEPT !.engine.supersampler.readback = r.val], r.ok, r.val)

stage(g, fault, late) ==
    IF g.engine.super_sample # "gpu"
    THEN StoreReadback(read_staged(g, g.engine.readback, fault, late))
    ELSE IF g.engine.supersampler = NoSampler THEN Failed(g)
    ELSE Then(dispatch_compute_pass(g, fault),
              LAMBDA h, none :
                  StoreRecords(read_staged(h, h.engine.supersampler.readback, fault, late)))

EngineHandles(e) ==
    {e.readback.buffer, e.view, e.texture} \cup e.core \cup e.samplers
    \cup (IF e.white = <<>> THEN {} ELSE {e.white[1], e.white[3]})

engine_destroy(g) ==
    [Release(destroy_mesh_entry(destroy_supersampler(g), g.engine.mesh), EngineHandles(g.engine))
        EXCEPT !.engine = NoEngine]

-----------------------------------------------------------------------------
(* The facade.  Actions. *)

FaultsOf(call, calls) == {[call |-> call, at |-> n] : n \in 1 .. calls}
SamplerFaults == FaultsOf("supersampler", Len(SamplerCalls))
ResizeFaults == FaultsOf("target", 2) \cup FaultsOf("readback", 1) \cup SamplerFaults
InitFaults ==
    {f \in FaultsOf("create", Len(EngineCalls)) : EngineCalls[f.at] # device_get_queue}
    \cup SamplerFaults
DrawFaults ==
    UNION {FaultsOf("mesh", 3), FaultsOf("white", 2), FaultsOf("white_sampler", 1),
           FaultsOf("texture", 2), FaultsOf("sampler", 1), FaultsOf("group", 1),
           FaultsOf("encode", 2), FaultsOf("compute", 2), FaultsOf("map", 3)}

\* At most one call of an operation fails, and then so does the operation.
Perform(fault, r) ==
    /\ fault # NoFault => faults < MaxFaults /\ ~r.ok
    /\ faults' = IF fault = NoFault THEN faults ELSE faults + 1
    /\ gpu' = r.g

\* Operations of the facade leave an engine that was not created alone.
IfCreated(r) == IF gpu.engine = NoEngine THEN Done(gpu) ELSE r

Scale(mode) == IF mode = "none" THEN 1 ELSE 2
render_dimensions(f) == f.output * Scale(f.super_sample)

OrDestroy(r) == IF r.ok THEN r ELSE Failed(engine_destroy(r.g))

init(fault) ==
    /\ ~facade.destroyed /\ gpu.engine = NoEngine
    /\ Perform(fault,
           Then(create(gpu, render_dimensions(facade), fault),
                LAMBDA g, none :
                    OrDestroy(Then(engine_set_super_sample(g, facade.super_sample, fault),
                                   LAMBDA h, nothing :
                                       engine_set_algorithm(h, facade.sample_algorithm, fault)))))
    /\ UNCHANGED <<facade, last_draw>>

\* Is what stage left large enough for the conversion the facade asks for.
ConversionFits(e) ==
    CASE facade.super_sample = "gpu" ->
             e.supersampler # NoSampler /\ e.supersampler.cells >= facade.output
      [] OTHER -> e.size >= render_dimensions(facade)

\* Does the picture show the frame that was just submitted.
PictureIsFrame(submitted, e) ==
    /\ EncodedFrameRuns(submitted)
    /\ e.super_sample = facade.super_sample
    /\ e.size = render_dimensions(facade)
    /\ e.super_sample = "gpu" => e.supersampler.view = e.view

\* u is what submit left, s what stage left.
Draw(u, s, fault) ==
    /\ Perform(fault, s)
    /\ last_draw' = IF ~s.ok \/ ~ConversionFits(s.g.engine) THEN "failed"
                    ELSE IF PictureIsFrame(u.g, s.g.engine) THEN "current" ELSE "stale"

StageAndDraw(u, fault, late) ==
    Draw(u, Then(u, LAMBDA g, none : stage(g, fault, late)), fault)

draw_scene(node, fault, late) ==
    /\ ~facade.destroyed /\ gpu.engine # NoEngine
    /\ fault # NoFault => faults < MaxFaults
    /\ gpu.pending = {} => late = "pending"
    /\ Cardinality({h \in gpu.live : h[1] = "view"}) < MaxViews
    /\ StageAndDraw(submit(gpu, node, fault), fault, late)
    /\ UNCHANGED facade

\* The output size is taken over before the engine is resized, whether or not
\* that succeeds.
set_size(size, fault) ==
    LET f == [facade EXCEPT !.output = size]
    IN  /\ facade.output # size
        /\ Perform(fault, IfCreated(resize(gpu, render_dimensions(f), fault)))
        /\ facade' = f
        /\ UNCHANGED last_draw

NextMode(mode) == CASE mode = "none" -> "cpu" [] mode = "cpu" -> "gpu" [] mode = "gpu" -> "none"

\* A forced set_size in the new mode's dimensions, then the engine's own mode.
toggle_super_sampling(fault) ==
    LET f == [facade EXCEPT !.super_sample = NextMode(@)]
    IN  /\ Perform(fault,
               IfCreated(Then(resize(gpu, render_dimensions(f), fault),
                              LAMBDA g, none :
                                  engine_set_super_sample(g, f.super_sample, fault))))
        /\ facade' = f
        /\ UNCHANGED last_draw

set_super_sample_algorithm(algorithm, fault) ==
    /\ Perform(fault, IfCreated(engine_set_algorithm(gpu, algorithm, fault)))
    /\ facade' = [facade EXCEPT !.sample_algorithm = algorithm]
    /\ UNCHANGED last_draw

destroy ==
    /\ ~facade.destroyed
    /\ facade' = [facade EXCEPT !.destroyed = TRUE]
    /\ gpu' = IF gpu.engine = NoEngine THEN gpu ELSE engine_destroy(gpu)
    /\ UNCHANGED <<last_draw, faults>>

-----------------------------------------------------------------------------
GpuInit ==
    /\ gpu = [live |-> {}, mapped |-> {}, pending |-> {}, misuse |-> FALSE, engine |-> NoEngine]
    /\ facade \in [output : Sizes, super_sample : Modes,
                   sample_algorithm : {"standard"}, destroyed : {FALSE}]
    /\ last_draw = "none"
    /\ faults = 0

Nodes == [geometry : 1 .. 2, map : Maps]

GpuNext ==
    \/ \E fault \in InitFaults \cup {NoFault} : init(fault)
    \/ \E fault \in DrawFaults \cup {NoFault}, node \in Nodes,
          late \in {"pending", "mapped", "dropped"} : draw_scene(node, fault, late)
    \/ \E fault \in ResizeFaults \cup {NoFault} :
          toggle_super_sampling(fault) \/ \E size \in Sizes : set_size(size, fault)
    \/ \E fault \in SamplerFaults \cup {NoFault}, a \in Algorithms :
          set_super_sample_algorithm(a, fault)
    \/ destroy

GpuSpec == GpuInit /\ [][GpuNext]_gpuVars

-----------------------------------------------------------------------------
(* Properties. *)

\* The handles a mesh entry, and an engine, will still use or release.
MeshOwned(m) == IF m = NoMesh THEN {} ELSE m.buffers \cup LiveGroup(m) \cup Range(m.texture)

SamplerOwned(s) == IF s = NoSampler THEN {} ELSE s.handles

OwnedBy(e) ==
    IF e = NoEngine THEN {}
    ELSE e.core \cup {e.texture, e.view, e.readback.buffer} \cup SamplerOwned(e.supersampler)
         \cup Range(e.white) \cup e.samplers \cup MeshOwned(e.mesh)

Owned == OwnedBy(gpu.engine)

\* Whatever failed before, no native call ever takes an object that has been
\* released, and nothing the engine still holds has been released behind it.
HandlesLive == ~gpu.misuse /\ Owned \subseteq gpu.live

\* A failed construction gives back what it made: what stays live without an
\* owner is never a device, a shader, a layout, a pipeline, a bind group or a
\* sampler; and as long as no call fails, it is only the views of mesh textures.
NothingLost ==
    \A h \in gpu.live \ Owned :
        h[1] \in IF faults = 0 THEN {"view"} ELSE {"texture", "view", "buffer"}

\* Whatever failed before, the engine and the device agree on what is alive:
\* the engine uses and keeps nothing that was released, and loses nothing that
\* is alive but the buffers, textures and views named in NothingLost.
HandlesOwned == HandlesLive /\ NothingLost

ReadbacksInUse ==
    IF gpu.engine = NoEngine THEN {}
    ELSE {gpu.engine.readback}
         \cup (IF gpu.engine.supersampler = NoSampler THEN {}
               ELSE {gpu.engine.supersampler.readback})

\* A readback is marked mapped only while its buffer is, and between draws no
\* buffer stays mapped unless a call failed.
MapStateAgrees ==
    /\ \A r \in ReadbacksInUse : r.mapped => r.buffer \in gpu.mapped
    /\ faults = 0 => gpu.mapped = {} /\ gpu.pending = {}

\* As long as no native call fails, every draw that reports success shows the
\* frame it submitted, in the size and the mode the renderer was set to, across
\* resizes, toggles and changes of the algorithm.
DrawnIsCurrent == faults = 0 => last_draw \in {"none", "current"}
=============================================================================
