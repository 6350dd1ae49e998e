# A verification project for opentui-ocaml

OpenTUI for OCaml is a terminal user interface library: a retained tree of
renderables is laid out and drawn by a native library, and an OCaml core drives
it from the terminal's input to the frame on the screen, on Eio. C stubs bind
the core to the native library, and a second set of stubs binds a 3D renderer to
WebGPU. This directory holds TLA+ modules for the concurrent and stateful parts
of the core and of the bindings, the TLC configurations that check them on small
instances, and TLAPS proofs of their main safety properties for every value of
the constants.

Paths below are relative to `packages/opentui-core/src/` unless they start with
`docs/`, `examples/` (`packages/opentui-core/examples/`), `raw/`
(`packages/opentui-raw/`), `wgpu/` (`packages/opentui-wgpu/src/`) or `three/`
(`packages/opentui-three/src/`).

## The system

One application owns one Eio domain. Every fiber of it - input reader, input
timeout, resize watcher, dispatcher, scheduler, delivery fibers of background
jobs - runs there, so code is atomic between suspension points; only background
work runs on other domains, and only `Background.cancel` may be called from one.

    tty -> Input_flow -> Input_coordinator(Stdin_parser) -> Event_queue -> Dispatch
                                                              ^ resizes      |
                                                                             v
    terminal <- Output_flow <- Renderer <- Renderer_scheduler <- Render_context <- renderables
                   ^              |                                 ^            ^
            Terminal_session      |                    Background -> Code        Image <- path fibers
                                  v
    C stubs:  span feeds | hit grid and buffer stacks | Yoga nodes, native renderables,
              text buffers | images | event sink | wgpu (three)

The C stubs run to completion on the calling domain. They are hard for other
reasons: the OCaml collector and the native library share memory and handles,
any native call or allocation in the middle of an operation may fail, and tokens
survive the objects they name.

| Component | State | Operations | What is hard | What makes it correct |
|---|---|---|---|---|
| event queue (`lib/event_queue.ml`) | ring, head, tail, length | push, read, clear | wrap-around, in-place coalescing, fullness | the ring is intact; one resize and one motion pending |
| input pipeline (`platform/eio_runtime/input_flow.ml`, `lib/input_coordinator.ml`) | read buffer, parser prefix and events, one refused event, deadline | read_once, fire_timeout, update_protocol_context, reset | a full queue at any point of a call; a timeout against bytes already read | no byte lost, doubled or reordered; a prefix is always timed; no sequence is split |
| wakeup and dispatch (`wakeup.ml`, `dispatch.ml`) | revision | notify, wait, run | a push between the empty read and the wait | no missed event |
| frame scheduler (`renderer_scheduler.ml`) with the request and live state of `render_context.ml` and the frame and destruction of `renderer.ml` | request flag, live count, wakeup slot, deadline, phases of `run` | request_render, request_live, drop_live, create, run, close, rate setters, frame outcomes, destroy | lost wakeups, deadlines of another mode, callbacks in a frame that close, destroy or re-attach | wakeup wired to the open scheduler; paced attempts; requests kept; work served; run returns |
| background executor (`background.ml`) | atomic job state, two promises, two fibers per job | submit, cancel, close of a switch | cancellation from another domain against delivery; work that never ends | one winner; a cancelled job releases; a finished one is delivered |
| Code highlighting (`renderables/code.ml`) | generation, running and pending request, settlement, visible text | eight setters that refresh, completion, destroy | callbacks that call the setters again; results of old generations; a submitter that closes | one job; obsolete results inert; the text shown fits the state reported; every promise resolves |
| terminal output (`output_flow.ml`, `lib/terminal_modes.ml`) | tracked modes, healthy or poisoned, mutex | apply of six transitions, write, write_frame | partial writes, fibers queued for the mutex | tracked modes are the terminal's; nothing after a failure |
| terminal session (`platform/eio_unix_runtime/terminal_session.ml`) | lifecycle, two restored flags, queries | enter, setup_output, schedule_query, acknowledge, restore | two restoration steps that fail and are retried | a restored terminal is cooked and reset |
| one frame (`renderer.ml`, `renderable.ml`, `render_context.ml`, `raw/raw_stubs.c`) | layout and list revisions, drawing commands, native scissor and opacity stacks, hit grid | render, setters, resize, close | callbacks that change, destroy, fail or close in every phase; reused command lists; skipped frames | stacks follow the commands; the grid is this frame's; no change is lost; a frame returns |
| span feeds (`raw/span_feed_stubs.c`, `raw/span_feed.ml`) | tables of feeds, spans and reservations, native streams | create, write, commit, reserve, drain, release, close | a result that cannot be allocated; late ends; reused slots; order of closing renderer and feed | each span and reservation is owned once; no orphan; tokens name what they were issued for |
| layout nodes and native measurement (`raw/yoga_stubs.c`, `raw/native_renderable.ml`, `raw/text_buffer_stubs.c`) | node table with parents, native tree, dirty nodes, measure flags and callbacks, views, buffers | create, free, insert, remove, move, style, calculate, attach, measure, close | freed subtrees with live tokens; cycles; any order of closing | one forest in both trees; stale tokens refused; a measured node reaches live objects only |
| text memory (`raw/text_buffer.ml`, `raw/text_buffer_stubs.c`) | native registry of borrowed blocks, OCaml fields that keep them | append, set_text, styled text, load_file, clear, reset, close | steps that fail in the middle; a registry that fills up | no block of the text is collected |
| images (`image.ml`, `renderables/image.ml`, `raw/image_stubs.c`) | native references, source, lease, generation | create, retain, transform, close, set_source, deliver, destroy | loads that finish late, are cancelled, or call back into set_source | the latest source is shown; no image leaks or is closed twice |
| native events (`raw/raw_stubs.c`, `raw/event_sink.ml`) | ring, overflow flag, sink handle | callback, poll, create, destroy | a full ring; a new sink over an old ring | in order, once, and losses are reported |
| GPU renderer (`wgpu/`, `three/`) | native objects, mappings, supersampler, mesh entry | init, draw_scene, set_size, toggles, destroy | any of some thirty native calls fails; a mapping that completes late | no use after release, bounded leaks, the picture is the frame |
| pointer dispatch, hover, capture, selection (`renderer.ml`) | hover, capture, drag, selection | dispatch_pointer | targets destroyed by their own handlers | no stale target |
| split footer and scrollback (`renderer.ml`, `lib/render_geometry.ml`) | commit queue, tail column, geometry | write_to_scrollback, transitions | batching against frames and mode changes | commits once and in order |
| animation (`animation/`) | timelines, items, live lease | play, pause, update | loops, nested timelines, callbacks | each callback once per pass; the lease follows activity |
| audio stream (`audio_stream.ml`) | stream state, native voice | open, write, drain, close | worker and close | settled once |
| plugins and slots (`plugin_host.ml`, `slot_mount.ml`, ...) | registrations, mounted views | register, mount, fail, dispose | failures inside callbacks | failure isolation, full teardown |
| key handler, event kernel, clocks, queue, theme, palette | subscriber lists, timers, waiters | emit, subscribe, set, cancel | changes during emission; late answers | exactly once |
| everything else | see `PROJECT.json` | | pure text, pixels | |

`PROJECT.json` lists every part with its status, and the hazards at their lines.

## Modules

| Module | Extends / instances | Models |
|---|---|---|
| `CoalescingQueue` | | abstract: a bounded queue with coalescing |
| `EventQueue` | INSTANCE `CoalescingQueue` as `Promised` | `lib/event_queue.ml` |
| `InputPipeline` | INSTANCE `EventQueue` | input flow, coordinator, parser interface, wakeup, dispatch |
| `Scheduler` | | scheduler, render context, frame and destruction |
| `Background` | | background executor |
| `Highlighting` | INSTANCE `Background` | Code renderable |
| `OutputFlow` | | terminal modes and output adapter |
| `TerminalSession` | EXTENDS `OutputFlow` | terminal session and writer fibers |
| `RenderFrame` | | a frame from the tree to the native renderer |
| `HandleTable` | | tokens, generations and slots of the C tables |
| `SpanFeed` | EXTENDS `HandleTable` | span feeds, spans, reservations, and renderers writing to a feed |
| `YogaNodes` | EXTENDS `HandleTable` | layout nodes in the C table and in Yoga |
| `NativeRenderables` | EXTENDS `YogaNodes` | native measurement: renderables, views, buffers |
| `TextBuffers` | | text memory |
| `ImageLoading` | | native images and the Image renderable |
| `EventSink` | | native event ring |
| `Gpu` | | wgpu stubs, engine and facade of the 3D renderer |
| `InductionLemmas` | | induction and recursion over the naturals, in a form proofs can cite |
| `ResourceProofs` | EXTENDS `EventQueue`, `EventSink`, `TextBuffers`, `ImageLoading` | theorems about the two event rings, text memory and images |
| `FrameProofs` | EXTENDS `Scheduler`, `RenderFrame` | theorems about when frames start and what they do |
| `RuntimeProofs` | EXTENDS `Background`, `InputPipeline`, `SpanFeed` | theorems about executor, input and span feeds |
| `LayoutProofs` | EXTENDS `NativeRenderables` | theorems about layout nodes and measurement |
| `HighlightingProofs`, `TerminalSessionProofs`, `GpuProofs` | the module of that name | its theorems |
| `MC...` | the module | instances for TLC |

Definitions whose name starts with `Mutant` are wrong variants of the
definition that follows them. No specification uses them: replacing the
definition by its variant must break the property named beside it in
`PROJECT.json`, which shows that the property depends on that piece of code.

### EventQueue

`slots`, `head`, `tail`, `length` are the fields of the record; an event is a
model value and its class (resize, motion, lossless) a set. `PushOk` and
`PushFull` are the two outcomes of `push`: replacement of the first pending
event of the class, else `enqueue`. Each operation is one step, since none
suspends. `Pending` reads the ring from head as a sequence; under that mapping
the ring implements `CoalescingQueue` (`KeepsPromise`).

### InputPipeline

A call into the input flow runs without suspension except in `single_read`, so
`call` and `drain` locate a call in progress and every other action requires
that none is (`~Busy`): the steps inside a call are the iterations of its loops.
`read_once` pushes what an earlier call left in the buffer, drains, suspends in
the read, and pushes what it got; `fire_timeout` pushes leftovers, drains, and
flushes an elapsed prefix unless the protocol context defers it. A drain that
meets a full queue ends its call at once (`DrainFull`), and what happens to the
deadline then depends on which drain it was (`DeadlineAfterFull`).

Bytes are positions in the input and their kinds are chosen initially. The
parser is reduced to what the coordinator observes: a byte either is an event or
opens a sequence that the next byte completes. Real sequences are longer, and a
motion report is a sequence too; neither the coordinator nor the queue looks
into them, so one pending byte shows every way to cut a sequence. The reader and
timeout loops are those of `examples/lib/app.ml`, the only users in the
repository. `Parse` folds `ParseByte` over a chunk as a recursive function, so
that an induction can follow it.

### Scheduler

`phase[s]` is the suspension point the runner of scheduler `s` is at: `idle` in
`wait_idle`, `wait` in the race of `wait_until_deadline`, `sleep` in its
remainder (which no longer listens to signals), `render` inside a frame, `loop`
between them. The signal's revision is the boolean `signalled`: it moved since
the runner read it. A frame is a phase of its own because its callbacks run
arbitrary operations and its sink may block; it ends rendered, retried (skipped
or failed: the request is put back), with an output failure, or by an exception.
Destruction has two steps, as callbacks and the final flush run between the flag
and the closing of the context.

Time is kept relative to the present: `age` since the attempt, `left` until the
deadline, one `Tick` at a time. Ages fold back by `Period`, a common multiple of
the intervals, so the state space is finite and no computed deadline changes.
Floating-point rounding (the `next_after` branch of `advance_deadline`) has no
counterpart in ticks. Rates are frame intervals; invalid rates change nothing
and are left out, as are calls on a closed scheduler or context.

### Background

`job` is the atomic state, `work` where the computation and the helper fiber
are, `fiber` where the delivery fiber is. `Fiber.first` may return with the
result even if the job is cancelled meanwhile, so `FirstReturns` and
`BeginDelivery` are separate and `Cancel` (another domain) fits between them.
The two switches are one flag `open`: either ends both fibers. The pool of Eio is
external: it starts a queued closure when a worker is free and ends it with a
value or an exception.

### Highlighting

`code` holds the fields of `Code.t`; operators on it are the functions of
`code.ml`. `frames` is the stack of owner-domain callbacks in progress: while
the innermost one has user code in it, every setter and `destroy` may be called
again. `shown` is what the text buffer holds, tagged with the generation it
belongs to, `lineSources` the generation whose line mapping is installed. The
text buffer may refuse any text, which takes the error paths. Parsers are
owner-only or worker-safe; a client without a submitter behaves as owner-only.

### OutputFlow and TerminalSession

Output is a sequence of items, each a DEC private mode set or reset, or data.
`terminal` is the set of modes the terminal has really on, `modes` what the
adapter tracks. A write sends one item per step holding the mutex and may fail
at each, with the item delivered or not. The session's operations are
sequences of such calls by its owner, interleaved with a writer fiber; `enter`
and the restoration's `tcsetattr` may fail.

### RenderFrame

`pc` is the phase of the frame: layout pass, its callbacks (`settle`), collection
of the commands, drawing, an item's render callbacks (`callback`), the native
render, the flush. Between two phases, where the code calls back or suspends,
every setter, a failure, an exception or `close` may happen. A command list is
the sequence of pushes, pops and renders that `collect_commands` makes; `moved`
and `revised` say whether the two counters differ from the applied ones. The
native buffer and hit grid are their stacks and the set of entries. What the
stacks should hold at a command (`ClipAt`, `FadeAt`) is what the pushes and pops
before it in the list leave, started from empty stacks. The tree's shape is fixed, of two
levels, and given by `Top` and `Inner`; items are hidden, clipped, faded, resized and
destroyed. The console and the split-screen path of `render` are left out: both
are calls in the same place as the post-processes and the native render.

### HandleTable and SpanFeed

A token is `<<index, generation>>`; `Resolves` is the check every lookup makes.
In `SpanFeed` one C function is one step, with a Boolean for whether the
allocation of its result raises: a drained span or a reservation that nobody
received stays in the pending fields of the slot until the next call on the feed
returns it (`CleanUp`). `streams` is the native side: published and drained
spans, the chunks outstanding, the reservation. Renderers write to the stream
they were created over, whatever happens to its feed.

### YogaNodes and NativeRenderables

`slots` is the table with the C layer's own parent links and flags, `children`
Yoga's lists. `free_recursive` frees through the native tree and then walks the
table. OCaml objects are the pairs of `nodes`, kept for good, so that every
token ever issued is tried after its node is gone. Style setters are one action:
they mark a path dirty. `NativeRenderables` adds the OCaml claims of
`native_renderable.ml`; an operation whose native call fails undoes its claims
and is no step. What a walk with a work list visits, along parent links or along
Yoga's lists, is `Reached`: the least set that holds the root and is closed
under the links. The order of the visits does not matter to any caller.

### TextBuffers and ImageLoading

Blocks are numbered as they are allocated; `Rooted` is what the OCaml record
keeps reachable. Each setter takes Booleans for the native calls that may fail,
and what a setter without a result did is a choice. In `ImageLoading` a path
fiber is reading, delivering (its callbacks may call `set_source` and `destroy`)
or ended; the lease is released before the callbacks run, as in the code.

### EventSink

Ring, head, count and overflow flag as in `raw_stubs.c`. What the current owner
was told (`delivered`, `reported`) and what was lost is history.

### Gpu

Every operation of the engine is an operator from the native state to the next
one, with the fault to inject as an argument; `Then` is the code's `let*`, and an
action of the facade composes them. A handle is a kind, the part of the engine it
was made for and a number; numbers are reused, so a stale handle can name a new
object. `late` says what a poll does to a mapping that an earlier call gave up on.

## Runs

| Run | Instance | Shows |
|---|---|---|
| `event_queue` | 3 slots, 2 events per class; a sink of 3 slots, 7 events, 3 sinks | coalescing, refinement of `CoalescingQueue`; every native event accounted for |
| `scheduler_attach` | 2 schedulers, intervals 1 and 2, live count 1, 1 change | wiring and wakeups across attach, close, destroy; symmetric in the schedulers, safety only |
| `scheduler_pacing` | 1 scheduler, intervals 2 and 3 (period 6), live count 2, 2 changes | pacing, kept requests, liveness |
| `input` | 3 bytes of every kind, buffer 3, chunks 2, queue 1, timeout 1, 1 resize | order, loss, timeouts, wakeups; every byte read is handled |
| `background` | 3 jobs, 2 workers | cancellation and delivery |
| `highlighting` | 3 generations, callbacks nested twice, 1 worker | visibility, obsolete results, single job; promises resolve |
| `session` | owner and writer; frames, mouse modes and the cursor | modes agree, poisoning, restoration; calls return |
| `span_feed` | 2 feeds, 2 spans, 1 reservation slot, 3 streams, generations up to 2 | ownership across allocation failures, closes and reuse; renderers write to open streams |
| `layout` | 3 nodes, 2 renderables, 1 view, 1 buffer | one forest, stale tokens refused, live measure targets |
| `text_and_images` | 3 entries, 5 blocks; 4 images, 3 sources | reachable text memory; latest source; owned images |
| `frame` | a panel with a label that updates each frame, 2 layout passes, 3 changes | clips, hit grid, no lost update; frames return |
| `gpu` | sizes 1 and 2, 1 failing call, 5 views alive | handles owned, mappings agree, pictures current |

### Bounds

Three slots are the least with which the ring wraps with both coalesced classes
and a lossless event; two schedulers suffice for a late close against a newer
attachment; two coprime intervals give rebasing both towards an earlier and a
later deadline; a buffer larger than a chunk and a queue smaller than a chunk's
events make every drain of a call meet a full queue; three jobs on two workers
make one queue; three generations allow one running, one pending and one nested
or superseded request at once. `MaxChanges`, `MaxLive`, `MaxResizes`,
`MaxGenerations` and `MaxDepth` are caps.

`MaxStreams` three over two feed slots makes a slot be used again; with
`MaxGeneration` 2 the generations of spans and reservations wrap. `MaxNodes`
three allows a chain, siblings, a cycle attempt and a node in a released slot.
A slot allocated more often than there are generations (65,535) takes an old
token for a new one: `NodeConstants` excludes it, since no check of the code
can see it. `RegistrySize` three stands for the 255 entries of a byte index:
one entry of `set_text`, one of another kind, and exhaustion. `MaxSources`
three gives a current, a superseded and a nested source; `MaxImages` four one
more image than sources. `LayoutPasses` is 5 in the code; two have a first and a
last pass. `MaxEdits` bounds the changes of the tree, and not those of styles
and sizes. `MaxFaults` one puts a failure at every call of every operation, and
any sequence of successful operations before and after it; `MaxViews` bounds the
views that are never released. `SinkCapacity` three and `MaxEvents` seven fill
the ring, drain it in part and fill it again over three sinks.

`event_queue` and `text_and_images` each check two modules that share nothing:
the next-state relation lets one move while the other is in its initial state,
so the run explores each exactly, and no property is about both. `layout` is
symmetric in its renderables.

`background`, `highlighting` and the runs with caps on what is ever created
(`event_queue`, `span_feed`, `layout`, `text_and_images`, `frame` and `gpu`,
whose renderer may also be closed for good) may stop, so they do not check for
deadlock; the scheduler, input and session runs do.

### Fairness

Eio's run queue is first in, first out, so a fiber that stays runnable runs:
weak fairness of runner steps, delivery fibers and calls in progress. Strong
fairness is assumed in two places. In `InputPipeline` the domain is taken by
other calls between two chances of a fiber, and the queue still reaches it. In
`OutputFlow` Eio's mutex hands over to its waiters in order. The clock
advances, a frame's callbacks return, the sink accepts or fails a write,
`Renderer.close` ends, and capability detection ends (it has a timer). A worker
need not finish in `Background`; `Highlighting` assumes that it does, since
otherwise a highlight may be pending for ever. In `RenderFrame` a frame is one
call whose callbacks return and whose flush ends: weak fairness of its steps. The
setters that callbacks call get no fairness and no bound for style changes, so
`FrameReturns` depends on the limit of layout passes alone.

## Observations

The properties claim what the code guarantees. These behaviours are in the
models, or were met in the code beside them, and a maintainer should know of
them.

Where the code differs from a document or an interface comment:

1. `wait_idle` keeps the timing origin of the last attempt
   (`platform/eio_runtime/renderer_scheduler.ml:185`);
   `docs/major-features/in-progress/scheduler/feature.md:157-159` says it is
   cleared.
2. `abort_inflight` (`renderables/code.ml:315`) of an outer refresh resolves the
   promise of a newer generation that a nested call submitted and that still runs.
3. A refresh behind a job of a submitter that closed reports `Pending` for good
   (`renderables/code.ml:449`, against `code.mli:6-8`). `OneAdmittedJob` and
   `HighlightingDone` therefore speak of an open submitter.
4. A failed `restore` before `enter` sets `termios_restored`, so later restores
   skip `tcsetattr` (`terminal_session.ml:106`, against `terminal_session.mli:4-5`).
5. Output set up between a failed restore and its retry is not reset
   (`terminal_session.ml:114`). `RestoredIsCooked` speaks of the line discipline.

In the bindings:

6. `destroy_data_texture` does not release the texture's view, and a mesh entry
   whose default texture or bind group fails leaves its buffers behind; a sampler
   that fails leaves the white or map texture. `HandlesOwned` allows exactly
   these kinds.
7. `set_size` takes over the output size before the engine is resized; when that
   fails, calling it again with the same size does nothing (`three/three_cli_renderer.ml:264`).
8. A mapping that times out may complete in a later poll, which writes to the
   stack frame of the call that gave up (`wgpu/wgpu_stubs.c:239`); until the
   buffer is replaced, frames are dropped. `DrawnIsCurrent` is therefore claimed
   while no call has failed.
9. Each `append`, `load_file` and styled text takes one of the registry's 255
   entries until `reset`; after a failed `set_text` the OCaml mirror of the text
   and the native text may differ.
10. An image whose load is ended by its switch keeps the new source and the old
    image, in state Ready (`renderables/image.ml:261`).
11. A coalesced motion overtakes the keys queued after the motion it replaces,
    and a scheduler closed inside its own frame leaves room for a second frame
    loop on the same renderer until that frame ends.
12. The diagnostics list of `wgpu/wgpu_stubs.c:110` is built from values that are
    not all registered as roots while it allocates; a collection's effect on the
    heap is outside the models.

## Proofs

Proved with TLAPS for every value of the constants; the assumptions are the
named `ASSUME`s of the modules, which TLC evaluates in every run.

* `ResourceProofs`, the terminal's queue (capacity at least 1, disjoint event
  classes).
  `QueueTypeCorrect`, `QueueRingIntact` and `QueueCoalescedOnce`. The inductive
  invariant `RingInv` is `QueueTypeOK /\ RingIntact`. `RingIntact` speaks of the
  k-th slot after head; the predicate `Occupied` describes the same slots as a
  window between head and tail, without a quantifier over k, and lemma
  `OccupiedIsWindow` shows the two to agree, so the solver sees only linear
  arithmetic. `QueueKeepsPromise` is the refinement: `EnqueueAppends`,
  `ReadTakesHead` and `ReplaceExchanges` say what each ring operation does to
  the sequence `Pending`, and `PromiseStep` puts them together.
* `ResourceProofs`, the native ring (capacity at least 1, any number of sinks and
  events). `SinkAccountsForEvents`: what an owner polls arrives once, in order
  and from its own sink, and a poll that answers nothing leaves no loss
  unreported. `SinkInv` adds that an empty handle has no history and that
  without the overflow flag every loss has been reported (`SinkCounters`);
  `RemainderWraps` removes the remainder from the ring's index arithmetic.
* `FrameProofs`, the scheduler (any schedulers, any intervals with a common multiple).
  `SchedulerInv` is the conjunction of `TypeOK`, `LinkInv` and `TimingInv`.
  `LinkInv` strengthens the wakeup properties by which runners can be parked and
  what the wakeup slot holds; `TimingInv` by the fact that a frame in flight has
  an attempt and that deadlines lie in the slot after it. From it follow
  `SchedulerTypeCorrect`, `SchedulerWakeupWired`, `SchedulerNoLostWakeup`,
  `SchedulerNoStaleWait`, `SchedulerDeadlineInSlot`, `SchedulerPacedAttempts`, and
  the action property `SchedulerRequestKept`.
  `AdvanceInSlot` is the arithmetic of `advance_deadline` for all intervals and
  elapsed times.
* `RuntimeProofs`, the executor (finitely many jobs, at least one worker).
  `BackgroundInv` adds to the type invariant what each position of a delivery
  fiber says of the job's state. `BackgroundTypeCorrect` includes that the pool
  is never oversubscribed, by the cardinality lemmas `RunningFinite` and
  `NoMoreRunning`; `BackgroundCancelExcludesDelivery` and
  `BackgroundSettledForGood` follow.
* `ResourceProofs`, text (a registry of at least one entry, any number of blocks).
  `TextTypeCorrect`, `TextKeepsMemoryRooted` and `TextStorageAgrees`. That the
  text is rooted is not inductive: `set_text` drops the block of the entry it
  overwrites, which is safe because no other entry names that block
  (`BlocksOnce`) and because the remembered entry holds the remembered block
  (`StorageAgrees`, `StorageHasEntry`). `FreshIsFree` shows that the registry's
  least free entry exists, by the well-foundedness of the naturals.
* `ResourceProofs`, images (any number of native images, sources and
  fibers). `ImagesAreOwned` and `ImageShowsLatest`. `ImageInv` needs besides
  them that a fiber reading for the source in force holds the lease
  (`ReaderHoldsLease`) and that the state a cancelled read goes back to fits the
  image on display (`PreviousFits`): that is what makes a load that ends late
  harmless.
* `TerminalSessionProofs` (any set of fibers, any requests of theirs).
  `TrackedModesAgree`, `RestoredSessionIsCooked` and the action property
  `PoisonedStaysSilent`. `OutputInv` says of the fiber that holds the mutex that
  the rest of its transition takes the terminal to the modes the adapter will
  then track (`RestCompletes`), whatever was written so far; that no transition
  switches a mode both ways (`Consistent`) makes the order of its items
  irrelevant. `OwnerInv` is the session: what a restore has already done.
* `RuntimeProofs`, the span feeds (tables, streams and generation limits of any size).
  `FeedsOwnTheirSpans` and `RenderersKeepTheirStreams`. `FeedInv` has a part for
  the feeds, one for the spans and one for the reservations, each an operator
  of the tables, so that it can be stated of the tables after
  `cleanup_feed_pending`, which no variable holds: every operation is that
  clean-up (`CleanUpKeeps`) followed by one change. Beyond what the run checks
  it says what a `pending` field means: the slot an interrupted delivery left
  behind is live, belongs to that feed and is in no client's hands.
* `RuntimeProofs`, the input (any sizes of queue, buffers and chunks).
  `InputMissesNoEvent` and the action property `InputSplitsNoSequence`.
  `InputInv` says in which drains a deadline may be stale (`Armed`), that a
  flush comes after everything that was read (`PushedBeforeFlush`), and which
  call each drain belongs to (`CallControl`). `InputKeepsEvents` is about the
  bytes: none is lost, doubled or reordered under any backpressure. Its invariant
  `KeptInv` follows the code's stages instead of the line of events as a whole:
  the events handed over `H`, those the coordinator still holds `W`, the bytes of
  the prefix and of the read buffer. `Ordered` says that the stages are in order,
  with all bytes of one before all bytes of the next, also those of motions; this
  is more than the property asks for and is what makes a coalesced motion newer
  than the one it replaces. `Placed` says that every byte read is in a stage,
  discarded, or a motion with a newer one handed over. The lemmas `EmitKeeps`,
  `CoalesceKeeps`, `ResizeKeeps`, `RegroupKeeps`, `ResetKeeps` and `ReadKeeps`
  speak of such stages only, whichever action they stand for; `ParseKeeps` is the
  induction over a chunk; `EnqueueEnds`, `ReplaceExchanges` and `ReadLeads` say
  what the ring's operations do to the sequence of its events.
* `HighlightingProofs` (any number of refreshes, any nesting of callbacks, at
  least one worker). `HighlightingAdmitsOneJob`, `HighlightingShowsItsText`, the
  action property `HighlightingIgnoresObsolete`, and the refinement
  `HighlightingImplementsBackground`: a Code meets its executor only through
  submit, cancel and delivery, so the executor's theorems are about
  its jobs too. That the shown text is right is not inductive: a completion
  first settles its own generation and then starts the queued one, which would
  put Pending over a settled text were the two the same. `QueuedOnce` excludes
  that (a queued generation has no job and no callback), `Ages` says that
  nothing the Code remembers is younger than its generation, and
  `RetainsSettled` that streaming retains only settled text.
* `LayoutProofs` (any capacity of the table, any finite sets of renderables and
  views; no more nodes created than a slot has generations, so that no token is
  issued twice). `LayoutTreesAgree`, `LayoutRefusesStaleTokens` and
  `LayoutMeasuresOpenTargets`, from `LayoutInv`: the table (`TablePart`), the
  forest (`ForestPart`), the claims of renderables on nodes (`ClaimPart`), the
  counts of users as cardinalities (`UserPart`) and the callbacks
  (`CallbackPart`). That no node is its own ancestor is stated as `Grounded`:
  every non-empty set of live slots has one whose parent lies outside it. This
  survives a link, since the cycle check has found the parent outside the
  child's subtree, and the release of a subtree, since a subset of the live slots
  is still one. `SubtreesAgree` is the lemma `free_recursive` needs: its walk over
  the table and Yoga's own over the lists find the same nodes, so what is
  released is what was freed.
* `FrameProofs`, one frame (any two-level tree, any number of layout passes and
  of changes). `RenderClipsMatch`, `RenderGridIsThisFrame` and
  `RenderLosesNoUpdate`, from `RenderInv`. The stacks are right in the middle of
  a frame only because every list the frame can execute is balanced and nested
  (`BothBalanced`), the reused ones too; that a collected list is, for every
  tree, takes an induction over each of the two levels that `CollectAll` walks. `StackPart` says
  what the stacks hold in each phase, `GridPart` which entries the grid under
  construction has, and `UpdatePart` that a layout or a list out of date is
  marked so, or another frame is requested: the property of an idle renderer has
  to be carried through every phase in which a callback may change the tree.
* `GpuProofs` (any sizes, any number of failing calls and of leaked views).
  `GpuHandlesOwned`, `GpuMapStateAgrees` and `GpuDrawnIsCurrent`, from `GpuInv`.
  An operation of the engine is a chain of constructions that unwinds when one
  fails, and in the middle of it objects live that no field names.
  `Tracked(g, held, lost)` is the account: every live object is the engine's, is
  held by the operation in progress, or is of a kind the code is known to lose.
  The lemma of an operation says how it changes `held`, and the lemmas compose
  as `Then` composes the operations. The role in a handle is what shows that no
  two fields of the engine name one object.
* `InductionLemmas`: induction over the naturals and the existence and typing of
  a recursively defined function. The library states these for an operator,
  which the provers cannot instantiate; here they speak of sets and functions.
  They rest on the well-foundedness of inclusion on finite sets.

Each of these invariants was checked with TLC on the module's run before it was
proved. Two attempts found a fault of the text: two guards of the `CASE` in
`OutputFlow.MouseOutput` overlapped, which TLC resolves by order and the logic
does not, so the definition now names each transition of the mouse once; and
`UNION S \cup T`, which TLC and the prover parse differently, is written with
parentheses.

A leaf that takes a prover more than a second or two says which one and how long
it may run (`SMTT(40)`, `ZenonT(60)`), so that the proofs do not depend on how
fast or how busy the machine is.

Every invariant and every action property of the runs is stated by a theorem.
Only model-checked are the liveness properties, since fairness and `ENABLED` are
beyond the prover: `WorkServed`, `EventuallyHandled`, `RunReturns`,
`CancelReleases`, `FinishedIsDelivered`, `HighlightingDone`, `CallsReturn` and
`FrameReturns`.

## Plan

Done: the modules above with their runs, and the proofs of all their safety
properties. Left, in this order:

1. Abstract specifications, after `CoalescingQueue`: at-most-once delivery
   implemented by `Background`; an input stream with lossy motion implemented by
   `InputPipeline`, for which `KeptInv` has the mapping; a lossy mailbox
   implemented by `EventSink`.
2. The byte grammar of `lib/stdin_parser.ml` as a state machine over byte
   classes; pointer dispatch over the tree; scrollback commits; the animation
   engine's live lease.

## Not modelled

Drawing primitives and the other pass-through stubs of `raw/raw_stubs.c`
(cursor, title, clipboard, mouse, debug overlay), the capability record, pixel
operations on images beyond making a new one, highlights and styles of text
buffers, the debug triangle and the diagnostics ring of `wgpu/wgpu_stubs.c`: they
copy arguments or keep no state that another operation reads. Post effects,
text, markdown and diff transformation, key and escape tables are pure functions
on strings or pixels. `raw/native/opentui_abi.h` declares the native interface
and has no behaviour. The native library, Yoga, WebGPU and Eio are external:
modelled only as the code uses them. `PROJECT.json` gives the reason for each
component.
