---------------------------- MODULE RenderFrame ----------------------------
(***************************************************************************)
(* One frame of a renderer: Renderer.render and Renderable.render_root     *)
(* over the native renderer of raw_stubs.c.  A frame settles the layout,   *)
(* collects the drawing commands of the tree or reuses those of an earlier *)
(* frame, executes them against the native buffer and the native hit grid, *)
(* renders natively and flushes the output.                                *)
(*                                                                         *)
(* Callbacks of the application run in between: after a layout pass, while *)
(* the commands are collected (on_update), while an item is drawn, and,    *)
(* from other fibers, while the output is flushed.  They change the tree,  *)
(* fail, raise, or close the renderer.  The tree has two levels.           *)
(***************************************************************************)
EXTENDS Naturals, Sequences, SequencesExt

CONSTANTS Top,             \* the root's children, in drawing order
          Inner,           \* their children: a sequence for each of them
          Updating,        \* the items with updates_each_frame
          LayoutPasses,    \* settle_layout: 5
          MaxEdits,        \* bound: changes of the tree or of the capture
          NoItem

Outer == Range(Top)
Items == Outer \cup UNION {Range(Inner[i]) : i \in Outer}

ASSUME FrameConstants ==
    /\ Top \in Seq(Outer) /\ Inner \in [Outer -> Seq(Items)]
    /\ Updating \subseteq Items
    /\ LayoutPasses \in Nat \ {0} /\ MaxEdits \in Nat
    /\ NoItem \notin Items

VARIABLES edits,               \* changes of the tree, counted for the bound
          hidden, destroyed,   \* the items that are invisible, destroyed
          clipped, faded,      \* the items with overflow hidden, with opacity < 1
          wanted, geometry,    \* the size the styles ask for, the size laid out
          dirty,               \* Yoga: the root is dirty
          moved,               \* layout_generation # applied_layout_generation
          revised,             \* render_list_revision # applied_render_list_revision
          list, reusable,      \* render_list, render_list_reusable
          pc, pass, at,        \* the phase of the frame, its layout pass, its command
          open,                \* the renderer is not closed
          render_requested, force,   \* render_requested, force_full_repaint
          output_failed,
          captured,            \* the item that captured the pointer
          clip, fade,          \* native buffer: scissor and opacity stacks
          hitClip,             \* native hit grid: scissor stack
          nextHits,            \* native hit grid of the next frame
          status,              \* what the native render returned
          shown                \* the commands of the last frame that was rendered

treeVars == <<hidden, destroyed, clipped, faded, wanted>>
layoutVars == <<geometry, dirty, moved>>
listVars == <<list, reusable>>
nativeVars == <<clip, fade, hitClip, nextHits>>
rendererVars == <<open, force, output_failed, captured, shown>>
frameVars == <<pc, pass, at, status>>
renderVars == <<treeVars, layoutVars, revised, listVars, nativeVars, rendererVars,
                render_requested, frameVars, edits>>

Sizes == {0, 1}

-----------------------------------------------------------------------------
(* The drawing commands. *)

Render(i) == [op |-> "render", item |-> i]
Push_opacity(i) == [op |-> "push_opacity", item |-> i]
Pop_opacity == [op |-> "pop_opacity"]
Push_scissor(i, size) == [op |-> "push_scissor", rect |-> <<i, size>>]
Pop_scissor == [op |-> "pop_scissor"]

If(condition, commands) == IF condition THEN commands ELSE <<>>

CommandsOf(i, size, inner) ==
    If(i \in faded, <<Push_opacity(i)>>) \o <<Render(i)>>
        \o If(i \in clipped, <<Push_scissor(i, size)>>) \o inner
        \o If(i \in clipped, <<Pop_scissor>>) \o If(i \in faded, <<Pop_opacity>>)

\* The commands of the items of a sequence; an invisible or destroyed item
\* has none, and neither have its children.
CollectAll(items, size, dead, inner(_)) ==
    FlattenSeq([k \in DOMAIN items |->
                  If(items[k] \notin hidden \cup dead,
                     CommandsOf(items[k], size, inner(items[k])))])

collect_commands(size, dead) ==
    LET Nothing(i) == <<>>
        Children(i) == CollectAll(Inner[i], size, dead, Nothing)
    IN  CollectAll(Top, size, dead, Children)

\* What the tree, as it is now, should look like on the screen.
Wanted == collect_commands(wanted, destroyed)

Rendered(commands) == {commands[k].item : k \in {j \in DOMAIN commands : commands[j].op = "render"}}

PopOf(stack) == IF stack = <<>> THEN stack ELSE Front(stack)

\* The scissors, and the opacities, that are open after a command.
ClipAfter(stack, c) ==
    CASE c.op = "push_scissor" -> Append(stack, c.rect)
      [] c.op = "pop_scissor" -> PopOf(stack)
      [] OTHER -> stack
FadeAfter(stack, c) ==
    CASE c.op = "push_opacity" -> Append(stack, c.item)
      [] c.op = "pop_opacity" -> PopOf(stack)
      [] OTHER -> stack

\* Those open where command k is executed.
ClipAt(k) ==
    LET after[n \in 0 .. Len(list)] == IF n = 0 THEN <<>> ELSE ClipAfter(after[n - 1], list[n])
    IN  after[k - 1]
FadeAt(k) ==
    LET after[n \in 0 .. Len(list)] == IF n = 0 THEN <<>> ELSE FadeAfter(after[n - 1], list[n])
    IN  after[k - 1]

-----------------------------------------------------------------------------
(* The native renderer.  The stubs of the buffer refuse a closed renderer,  *)
(* those of the hit grid are unchecked; the native grid ignores the calls.  *)

buffer_push_scissor_rect(rect) == clip' = Append(clip, rect)
buffer_pop_scissor_rect == clip' = PopOf(clip)
buffer_clear_scissor_rects == clip' = <<>>
buffer_push_opacity(i) == fade' = Append(fade, i)
buffer_pop_opacity == fade' = PopOf(fade)
buffer_clear_opacity == fade' = <<>>

hit_grid_push_scissor_rect(rect) == hitClip' = Append(hitClip, rect)
hit_grid_pop_scissor_rect == hitClip' = PopOf(hitClip)
hit_grid_clear_scissor_rects == hitClip' = <<>>
add_to_hit_grid(i) == nextHits' = IF open THEN nextHits \cup {<<i, hitClip>>} ELSE nextHits
clear_next_hit_grid == nextHits' = {}

\* The native render makes the next grid the current one and starts an empty
\* one, or does nothing.
renderer_render(result) ==
    nextHits' = IF result = "rendered" THEN {} ELSE nextHits

renderer_destroy ==
    clip' = <<>> /\ fade' = <<>> /\ hitClip' = <<>> /\ nextHits' = {}

-----------------------------------------------------------------------------
(* The tree's setters, called between frames and from the callbacks. *)

\* While the commands are collected only on_update runs.
CallbackRuns ==
    \/ pc \in {"idle", "layout", "settle", "callback", "flush"}
    \/ pc = "collected" /\ Updating \cap Rendered(list) # {}

bump_render_list_revision == revised' = TRUE
request_render == render_requested' = TRUE

Toggle(S, i) == IF i \in S THEN S \ {i} ELSE S \cup {i}

Setter ==
    /\ open /\ CallbackRuns
    /\ UNCHANGED <<geometry, moved, listVars, nativeVars, rendererVars, frameVars>>

TreeSetter(i) == Setter /\ i \notin destroyed /\ edits < MaxEdits /\ edits' = edits + 1

set_visible(i) ==
    /\ TreeSetter(i)
    /\ hidden' = Toggle(hidden, i)
    /\ dirty' = TRUE
    /\ bump_render_list_revision /\ request_render
    /\ UNCHANGED <<destroyed, clipped, faded, wanted>>

MutantOpacityKeepsList(i) ==
    /\ TreeSetter(i)
    /\ faded' = Toggle(faded, i)
    /\ request_render
    /\ UNCHANGED <<hidden, destroyed, clipped, wanted, dirty, revised>>

set_opacity(i) ==
    /\ TreeSetter(i)
    /\ faded' = Toggle(faded, i)
    /\ bump_render_list_revision /\ request_render
    /\ UNCHANGED <<hidden, destroyed, clipped, wanted, dirty>>

set_overflow(i) ==
    /\ TreeSetter(i)
    /\ clipped' = Toggle(clipped, i)
    /\ dirty' = TRUE
    /\ bump_render_list_revision /\ request_render
    /\ UNCHANGED <<hidden, destroyed, faded, wanted>>

\* set_width, set_padding and the other styles that only Yoga reads.
style_operation ==
    /\ Setter
    /\ wanted' = 1 - wanted
    /\ dirty' = TRUE
    /\ request_render
    /\ UNCHANGED <<hidden, destroyed, clipped, faded, revised, edits>>

\* The children are destroyed first; a destroyed item has left its parent.
destroy_recursively(i) ==
    /\ TreeSetter(i)
    /\ destroyed' = destroyed \cup {i} \cup (IF i \in Outer THEN Range(Inner[i]) ELSE {})
    /\ dirty' = TRUE
    /\ bump_render_list_revision /\ request_render
    /\ UNCHANGED <<hidden, clipped, faded, wanted>>

set_captured_num(i) ==
    /\ open /\ pc = "idle" /\ edits < MaxEdits
    /\ edits' = edits + 1
    /\ captured' = i
    /\ UNCHANGED <<treeVars, layoutVars, revised, listVars, nativeVars, open, force,
                   output_failed, shown, render_requested, frameVars>>

-----------------------------------------------------------------------------
(* A frame. *)

\* What is local to the frame is forgotten.
FrameEnds == pc' = "idle" /\ pass' = 0 /\ at' = 1 /\ status' = "none"

abort_hit_grid == clear_next_hit_grid /\ hit_grid_clear_scissor_rects

MutantKeepsScissors ==
    abort_hit_grid /\ buffer_clear_opacity /\ UNCHANGED clip /\ force' = TRUE

reset_failed_frame ==
    abort_hit_grid /\ buffer_clear_scissor_rects /\ buffer_clear_opacity /\ force' = TRUE

\* The frame ends with an error: an Error result, or an exception that
\* Fun.protect sees.
failed_frame ==
    /\ reset_failed_frame
    /\ request_render
    /\ FrameEnds
    /\ UNCHANGED <<edits, treeVars, layoutVars, revised, listVars, open, captured, shown>>

\* render: refused when the renderer is closed or its output failed.
render ==
    /\ pc = "idle" /\ open /\ ~output_failed
    /\ render_requested' = FALSE
    /\ pc' = "layout"
    /\ UNCHANGED <<edits, treeVars, layoutVars, revised, listVars, nativeVars, rendererVars,
                   pass, at, status>>

\* One pass of settle_layout; afterwards the post-layout callbacks run.
calculate_root_layout ==
    /\ pc = "layout" /\ open
    /\ IF dirty THEN geometry' = wanted /\ moved' = TRUE /\ dirty' = FALSE
       ELSE UNCHANGED layoutVars
    /\ pc' = "settle"
    /\ UNCHANGED <<edits, treeVars, revised, listVars, nativeVars, rendererVars,
                   render_requested, pass, at, status>>

MutantSettlesForever ==
    /\ pc = "settle" /\ open
    /\ pc' = IF dirty THEN "layout" ELSE "collect"
    /\ UNCHANGED pass
    /\ UNCHANGED <<edits, treeVars, layoutVars, revised, listVars, nativeVars, rendererVars,
                   render_requested, at, status>>

settle_layout ==
    /\ pc = "settle" /\ open
    /\ IF pass < LayoutPasses - 1 /\ dirty
       THEN pc' = "layout" /\ pass' = pass + 1
       ELSE pc' = "collect" /\ pass' = 0
    /\ UNCHANGED <<edits, treeVars, layoutVars, revised, listVars, nativeVars, rendererVars,
                   render_requested, at, status>>

can_reuse == reusable /\ ~moved /\ ~revised

\* The commands are collected.  The items in gone destroy themselves in their
\* on_update; what else the on_update callbacks change is not in the list.
collect(gone) ==
    /\ pc = "collect" /\ ~can_reuse
    /\ gone \subseteq Updating \cap Rendered(collect_commands(geometry, destroyed))
    /\ \A i \in gone : i \in Outer => Inner[i] = <<>>
    /\ destroyed' = destroyed \cup gone
    /\ list' = collect_commands(geometry, destroyed')
    /\ dirty' = (dirty \/ gone # {})
    /\ revised' = (revised \/ gone # {})
    /\ render_requested' = (render_requested \/ gone # {})
    /\ pc' = "collected"
    /\ UNCHANGED <<edits, hidden, clipped, faded, wanted, geometry, moved, reusable,
                   nativeVars, rendererVars, pass, at, status>>

can_reuse_renderable(i) == i \notin Updating

\* What is applied is the revision after the collection, and the generation
\* of before it.
apply_render_list ==
    /\ pc = "collected"
    /\ moved' = FALSE /\ revised' = FALSE
    /\ reusable' = (\A i \in Rendered(list) : can_reuse_renderable(i))
    /\ hit_grid_clear_scissor_rects
    /\ pc' = "draw" /\ at' = 1
    /\ UNCHANGED <<edits, treeVars, geometry, dirty, list, clip, fade, nextHits,
                   rendererVars, render_requested, pass, status>>

reuse_render_list ==
    /\ pc = "collect" /\ can_reuse
    /\ hit_grid_clear_scissor_rects
    /\ pc' = "draw" /\ at' = 1
    /\ UNCHANGED <<edits, treeVars, layoutVars, revised, listVars, clip, fade, nextHits,
                   rendererVars, render_requested, pass, status>>

execute_render_command ==
    /\ pc = "draw" /\ at <= Len(list)
    /\ LET command == list[at]
       IN  \/ /\ command.op = "push_opacity" /\ open
              /\ buffer_push_opacity(command.item)
              /\ at' = at + 1 /\ UNCHANGED <<clip, hitClip, pc>>
           \/ /\ command.op = "pop_opacity" /\ open
              /\ buffer_pop_opacity
              /\ at' = at + 1 /\ UNCHANGED <<clip, hitClip, pc>>
           \/ /\ command.op = "push_scissor" /\ open
              /\ buffer_push_scissor_rect(command.rect) /\ hit_grid_push_scissor_rect(command.rect)
              /\ at' = at + 1 /\ UNCHANGED <<fade, pc>>
           \/ /\ command.op = "pop_scissor" /\ open
              /\ buffer_pop_scissor_rect /\ hit_grid_pop_scissor_rect
              /\ at' = at + 1 /\ UNCHANGED <<fade, pc>>
           \/ /\ command.op = "render" /\ command.item \in destroyed
              /\ at' = at + 1 /\ UNCHANGED <<clip, fade, hitClip, pc>>
           \/ /\ command.op = "render" /\ command.item \notin destroyed
              /\ pc' = "callback" /\ UNCHANGED <<clip, fade, hitClip, at>>
    /\ UNCHANGED <<edits, treeVars, layoutVars, revised, listVars, nextHits, rendererVars,
                   render_requested, pass, status>>

\* The render callbacks of an item have returned: it enters the hit grid, even
\* when they destroyed it, unless it captured the pointer.
add_hit_grid ==
    LET i == list[at].item
    IN  /\ pc = "callback"
        /\ IF i = captured THEN UNCHANGED nextHits ELSE add_to_hit_grid(i)
        /\ pc' = "draw" /\ at' = at + 1
        /\ UNCHANGED <<edits, treeVars, layoutVars, revised, listVars, clip, fade, hitClip,
                       rendererVars, render_requested, pass, status>>

apply_post_processes ==
    /\ pc = "draw" /\ at > Len(list)
    /\ pc' = "native"
    /\ UNCHANGED <<edits, treeVars, layoutVars, revised, listVars, nativeVars, rendererVars,
                   render_requested, pass, at, status>>

native_render(result) ==
    /\ pc = "native" /\ open
    /\ renderer_render(result)
    /\ status' = result
    /\ pc' = "flush"
    /\ UNCHANGED <<edits, treeVars, layoutVars, revised, listVars, clip, fade, hitClip,
                   rendererVars, render_requested, pass, at>>

MutantSkipKeepsGrid ==
    /\ request_render
    /\ UNCHANGED <<nativeVars, force, shown>>

\* The native renderer was busy: the frame is tried again.
frame_skipped ==
    /\ abort_hit_grid /\ request_render
    /\ UNCHANGED <<clip, fade, force, shown>>

frame_failed ==
    /\ abort_hit_grid /\ request_render
    /\ force' = TRUE
    /\ UNCHANGED <<clip, fade, shown>>

frame_rendered ==
    /\ force' = FALSE
    /\ shown' = list
    /\ UNCHANGED <<nativeVars, render_requested>>

\* flush_output succeeded.
finish_frame ==
    /\ pc = "flush"
    /\ \/ status = "rendered" /\ frame_rendered
       \/ status = "skipped" /\ frame_skipped
       \/ status = "failed" /\ frame_failed
    /\ FrameEnds
    /\ UNCHANGED <<edits, treeVars, layoutVars, revised, listVars, open, output_failed,
                   captured>>

\* The sink or the feed failed: the renderer draws no frame from now on.
flush_output_fails ==
    /\ pc = "flush"
    /\ output_failed' = TRUE
    /\ failed_frame

\* A callback or a native call fails, or a call on the closed renderer does.
frame_fails ==
    /\ \/ pc \in {"layout", "settle", "collected", "callback", "native"}
       \/ pc = "draw" /\ at > Len(list)
       \/ pc = "draw" /\ at <= Len(list) /\ ~open /\ list[at].op # "render"
    /\ failed_frame
    /\ UNCHANGED output_failed

FrameStep ==
    \/ calculate_root_layout \/ settle_layout
    \/ \E gone \in SUBSET Updating : collect(gone)
    \/ apply_render_list \/ reuse_render_list
    \/ execute_render_command \/ add_hit_grid \/ apply_post_processes
    \/ \E result \in {"rendered", "skipped", "failed"} : native_render(result)
    \/ finish_frame \/ flush_output_fails
    \/ frame_fails

-----------------------------------------------------------------------------
(* Resizing between frames, and closing, also from a callback. *)

resize ==
    /\ pc = "idle" /\ open
    /\ wanted' = 1 - wanted
    /\ dirty' = TRUE
    /\ hit_grid_clear_scissor_rects
    /\ captured' = NoItem
    /\ request_render
    /\ UNCHANGED <<edits, hidden, destroyed, clipped, faded, geometry, moved, revised,
                   listVars, clip, fade, nextHits, open, force, output_failed, shown,
                   frameVars>>

close ==
    /\ open /\ CallbackRuns
    /\ open' = FALSE
    /\ destroyed' = Items
    /\ dirty' = TRUE
    /\ captured' = NoItem
    /\ bump_render_list_revision /\ request_render
    /\ renderer_destroy
    /\ UNCHANGED <<edits, hidden, clipped, faded, wanted, geometry, moved, listVars, force,
                   output_failed, shown, frameVars>>

-----------------------------------------------------------------------------
RenderInit ==
    /\ edits = 0
    /\ hidden = {} /\ destroyed = {} /\ clipped = {} /\ faded = {}
    /\ wanted = 0 /\ geometry = 0
    /\ dirty = TRUE /\ moved = FALSE /\ revised = TRUE
    /\ list = <<>> /\ reusable = FALSE /\ shown = <<>>
    /\ pc = "idle" /\ pass = 0 /\ at = 1 /\ status = "none"
    /\ open = TRUE /\ render_requested = TRUE /\ force = FALSE /\ output_failed = FALSE
    /\ captured = NoItem
    /\ clip = <<>> /\ fade = <<>> /\ hitClip = <<>> /\ nextHits = {}

RenderNext ==
    \/ \E i \in Outer : set_visible(i) \/ set_opacity(i) \/ set_overflow(i)
    \/ \E i \in Items : destroy_recursively(i)
    \/ style_operation
    \/ \E i \in Items \cup {NoItem} : set_captured_num(i)
    \/ render \/ FrameStep
    \/ resize \/ close

\* A frame that has begun runs on: it is one call, and its callbacks return.
RenderSpec == RenderInit /\ [][RenderNext]_renderVars /\ WF_renderVars(FrameStep)

-----------------------------------------------------------------------------
(* Properties. *)

\* Every variable has its type.
RenderTypeOK ==
    /\ edits \in 0 .. MaxEdits
    /\ hidden \subseteq Items /\ destroyed \subseteq Items /\ clipped \subseteq Items /\ faded \subseteq Items
    /\ wanted \in Sizes /\ geometry \in Sizes
    /\ {dirty, moved, revised, reusable, open, render_requested, force, output_failed} \subseteq BOOLEAN
    /\ pc \in {"idle", "layout", "settle", "collect", "collected", "draw", "callback",
            "native", "flush"}
    /\ pass \in 0 .. LayoutPasses - 1 /\ at \in 1 .. Len(list) + 1
    /\ captured \in Items \cup {NoItem}
    /\ status \in {"none", "rendered", "skipped", "failed"}

\* The types, and: every command is executed under exactly the scissors and
\* opacities that its ancestors pushed, in the buffer and in the hit grid alike,
\* and a finished frame leaves none behind, whichever earlier frames failed,
\* raised or were skipped half way.
ClipsMatch ==
    RenderTypeOK /\ (open =>
      /\ pc \in {"draw", "callback"} => clip = ClipAt(at) /\ hitClip = clip /\ fade = FadeAt(at)
      /\ pc \notin {"draw", "callback"} => clip = <<>> /\ hitClip = <<>> /\ fade = <<>>)

\* The hit grid under construction holds the items this frame has drawn, each
\* under the clip of its place in the list, and nothing an abandoned frame left.
GridIsThisFrame ==
    LET Entry(k) == <<list[k].item, ClipAt(k)>>
        Drawn == {k \in 1 .. at - 1 : list[k].op = "render"}
    IN  open =>
          /\ pc \in {"draw", "callback", "native"} =>
               /\ nextHits \subseteq {Entry(k) : k \in Drawn}
               /\ \A k \in Drawn : list[k].item \notin destroyed \cup {captured} => Entry(k) \in nextHits
          /\ pc \notin {"draw", "callback", "native", "flush"} => nextHits = {}

\* No change of the tree is lost: what is on the screen is what the tree asks
\* for, or another frame has been requested, whenever the change was made: in
\* a callback of the frame, while its commands were collected, or during its flush.
NoLostUpdate ==
    pc = "idle" /\ open => render_requested \/ shown = Wanted

\* A frame that has begun returns, however often its callbacks change the layout.
FrameReturns == pc # "idle" ~> pc = "idle"
=============================================================================
