------------------------------ MODULE Scheduler ------------------------------
(* The frame scheduler of platform/eio_runtime/renderer_scheduler.ml and the *)
(* part of render_context.ml and renderer.ml it is wired to: the coalesced   *)
(* render request, the live count, the single scheduler wakeup, the frame    *)
(* operation and the teardown of the renderer.                               *)
(*                                                                           *)
(* Everything runs on one Eio domain: a fiber is atomic between the points   *)
(* where it suspends, so the runner of a scheduler has one phase per         *)
(* suspension point, and every other fiber or callback (the application, a   *)
(* timer, a frame callback) may act while the runner is at one of them.  A   *)
(* frame is such a point too: callbacks run inside it and its sink may block *)
(* on the terminal.                                                          *)
(*                                                                           *)
(* Time is a count of ticks and is kept relative to now: age is the time     *)
(* since the last attempt, left the time until the next deadline.  Every     *)
(* interval divides Period, so an age can be folded back by Period once it   *)
(* exceeds it without changing any deadline computed from it.                *)
EXTENDS Naturals

CONSTANTS
    Schedulers,     \* scheduler values created for the one renderer
    Intervals,      \* frame intervals, in ticks
    Period,         \* a common multiple of the intervals
    MaxLive,        \* bound on the live count
    MaxChanges,     \* bound on live transitions and rate changes
    None

ASSUME IntervalsAssumption ==
    /\ Intervals \subseteq Nat \ {0}
    /\ Intervals # {}
    /\ Period \in Nat \ {0}
    /\ \A i \in Intervals : i <= Period /\ Period % i = 0

ASSUME BoundsAssumption == MaxLive \in Nat /\ MaxChanges \in Nat

ASSUME NoneAssumption == None \notin Schedulers /\ None \notin Nat

VARIABLES
    requested,          \* context.render_requested
    live,               \* context.live_request_count
    wakeup,             \* the scheduler whose wakeup the context holds
    destroying,         \* renderer.destruction_started
    contextClosed,      \* context.closed
    outputFailed,       \* renderer.output_failed
    phase,              \* where the runner of each scheduler is
    closed,             \* scheduler.closed
    signalled,          \* the signal moved since the runner last read it
    target,             \* target_interval: live frames
    ondemand,           \* max_interval: requested frames
    age,                \* now - last_attempt, or None
    left,               \* next_deadline - now, or 0 once it has passed
    deadlineInterval,   \* deadline_interval, or None
    observed,           \* what wait_until_deadline captured when it began
    changes             \* live transitions and rate changes so far

demand == <<requested, live>>
link == <<wakeup, closed, signalled>>
teardown == <<destroying, contextClosed, outputFailed>>
rates == <<target, ondemand>>
timing == <<age, left, deadlineInterval>>
vars == <<demand, link, teardown, rates, timing, phase, observed, changes>>

Running == {"loop", "idle", "wait", "sleep", "render"}
Phases == Running \cup {"absent", "ready", "done"}

Init ==
    /\ requested = FALSE /\ live = 0 /\ wakeup = None
    /\ destroying = FALSE /\ contextClosed = FALSE /\ outputFailed = FALSE
    /\ phase = [s \in Schedulers |-> "absent"]
    /\ closed = [s \in Schedulers |-> FALSE]
    /\ signalled = [s \in Schedulers |-> FALSE]
    /\ target \in [Schedulers -> Intervals]
    /\ ondemand \in [Schedulers -> Intervals]
    /\ age = [s \in Schedulers |-> None]
    /\ left = [s \in Schedulers |-> 0]
    /\ deadlineInterval = [s \in Schedulers |-> None]
    /\ observed = [s \in Schedulers |-> None]
    /\ changes = 0

-----------------------------------------------------------------------------
(* The render context.                                                       *)

(* notify on the signals of S: the revision moves, the condition is          *)
(* broadcast.  Through the context, S is {wakeup}; {None} reaches nobody.    *)
Notify(S) == signalled' = [t \in Schedulers |-> signalled[t] \/ t \in S]

(* Whom request_render_state, request_live and drop_live notify.             *)
WokenByRequest == IF requested THEN {} ELSE {wakeup}

MutantLiveWakesNobody == {}

WokenByLive == IF live = 0 \/ ~requested THEN {wakeup} ELSE {}

MutantDropWakesNobody == {}

WokenByDrop == IF live = 1 THEN {wakeup} ELSE {}

RequestRender ==
    /\ ~contextClosed
    /\ requested' = TRUE
    /\ Notify(WokenByRequest)
    /\ UNCHANGED <<live, wakeup, closed, teardown, rates, timing, phase,
                   observed, changes>>

RequestLive ==
    /\ ~contextClosed
    /\ live < MaxLive
    /\ live = 0 => changes < MaxChanges
    /\ changes' = IF live = 0 THEN changes + 1 ELSE changes
    /\ live' = live + 1
    /\ requested' = TRUE
    /\ Notify(WokenByLive)
    /\ UNCHANGED <<wakeup, closed, teardown, rates, timing, phase, observed>>

Decremented(n) == IF n > 0 THEN n - 1 ELSE 0

DropLive ==
    /\ ~contextClosed
    /\ live' = Decremented(live)
    /\ Notify(WokenByDrop)
    /\ UNCHANGED <<requested, wakeup, closed, teardown, rates, timing, phase,
                   observed, changes>>

-----------------------------------------------------------------------------
(* Attaching, configuring and closing a scheduler.                           *)

(* create: refused on a closed renderer and while a wakeup is installed.     *)
Create(s) ==
    /\ phase[s] = "absent"
    /\ ~contextClosed
    /\ wakeup = None
    /\ wakeup' = s
    /\ phase' = [phase EXCEPT ![s] = "ready"]
    /\ UNCHANGED <<demand, closed, signalled, teardown, rates, timing,
                   observed, changes>>

MutantCloseAnyWakeup(s, woken) ==
    /\ closed' = [closed EXCEPT ![s] = TRUE]
    /\ wakeup' = None
    /\ Notify(woken \cup {s})

MutantCloseQuiet(s, woken) ==
    /\ closed' = [closed EXCEPT ![s] = TRUE]
    /\ wakeup' = IF wakeup = s THEN None ELSE wakeup
    /\ Notify(woken)

(* close_unchecked, after the step has notified woken.  On a scheduler that  *)
(* is already closed it changes nothing a runner can see.                    *)
CloseUnchecked(s, woken) ==
    /\ closed' = [closed EXCEPT ![s] = TRUE]
    /\ wakeup' = IF wakeup = s THEN None ELSE wakeup
    /\ Notify(woken \cup {s})

(* close, or the release of the switch. *)
Close(s) ==
    /\ phase[s] # "absent"
    /\ ~closed[s]
    /\ CloseUnchecked(s, {})
    /\ UNCHANGED <<demand, teardown, rates, timing, phase, observed, changes>>

(* set_target_frames_per_second and set_max_frames_per_second.               *)
SetRate(s) ==
    /\ phase[s] # "absent"
    /\ ~closed[s]
    /\ changes < MaxChanges
    /\ changes' = changes + 1
    /\ Notify({s})
    /\ UNCHANGED <<demand, wakeup, closed, teardown, timing, phase, observed>>

SetTargetFramesPerSecond(s, i) ==
    /\ SetRate(s)
    /\ target' = [target EXCEPT ![s] = i]
    /\ UNCHANGED ondemand

SetMaxFramesPerSecond(s, i) ==
    /\ SetRate(s)
    /\ ondemand' = [ondemand EXCEPT ![s] = i]
    /\ UNCHANGED target

-----------------------------------------------------------------------------
(* Deadlines.                                                                *)

(* interval_for_state *)
IntervalFor(s) == IF live > 0 THEN target[s] ELSE ondemand[s]

(* advance_deadline of (attempt + interval) when the attempt was a ticks ago:*)
(* the slot after the attempt if it is still ahead, else the first slot of   *)
(* the attempt's grid that is.                                               *)
AdvanceDeadline(i, a) == IF a < i THEN i - a ELSE i - (a % i)

MutantNeverRebase(s) == deadlineInterval[s] = None

NeedsRebase(s) == deadlineInterval[s] # IntervalFor(s)

MutantAlwaysRebase(s) == AdvanceDeadline(IntervalFor(s), age[s])

(* next_deadline, relative to now. *)
NextDeadline(s) ==
    IF NeedsRebase(s) THEN AdvanceDeadline(IntervalFor(s), age[s]) ELSE left[s]

(* A frame may be attempted: none was yet, or its deadline has passed.       *)
Due(s) == IF age[s] = None THEN TRUE ELSE NextDeadline(s) = 0

(* renderer_state: a frame is pending or somebody keeps the renderer live.   *)
HasWork == requested \/ live > 0

-----------------------------------------------------------------------------
(* The runner: run, run_loop and what they wait on.                          *)

Goto(s, p) == phase' = [phase EXCEPT ![s] = p]

(* run returns or raises: its finaliser closes the scheduler.                *)
Leave(s, woken) ==
    /\ Goto(s, "done")
    /\ CloseUnchecked(s, woken)

Run(s) ==
    /\ phase[s] = "ready"
    /\ Goto(s, IF closed[s] THEN "done" ELSE "loop")
    /\ UNCHANGED <<demand, link, teardown, rates, timing, observed, changes>>

LoopExit(s) ==
    /\ phase[s] = "loop"
    /\ closed[s] \/ contextClosed
    /\ Leave(s, {})
    /\ UNCHANGED <<demand, teardown, rates, timing, observed, changes>>

AtLoop(s) == phase[s] = "loop" /\ ~closed[s] /\ ~contextClosed

(* The runner reads the revision before it waits. *)
ReadSignal(s) == signalled' = [signalled EXCEPT ![s] = FALSE]

(* wait_idle: the predicate is false when the wait begins.                   *)
LoopIdle(s) ==
    /\ AtLoop(s)
    /\ ~HasWork
    /\ Goto(s, "idle")
    /\ ReadSignal(s)
    /\ UNCHANGED <<demand, wakeup, closed, teardown, rates, timing, observed,
                   changes>>

(* wait_idle evaluates its predicate again only when the condition is        *)
(* broadcast.                                                                *)
IdleWake(s) ==
    /\ phase[s] = "idle"
    /\ signalled[s]
    /\ ReadSignal(s)
    /\ Goto(s, IF closed[s] \/ contextClosed \/ HasWork THEN "loop" ELSE "idle")
    /\ UNCHANGED <<demand, wakeup, closed, teardown, rates, timing, observed,
                   changes>>

Cadence(s) ==
    [live |-> live > 0, target |-> target[s], ondemand |-> ondemand[s]]

(* The deadline is ahead: next_deadline stores a rebased one, and            *)
(* wait_until_deadline captures the revision, the mode and both rates.       *)
LoopWait(s) ==
    /\ AtLoop(s)
    /\ HasWork
    /\ ~Due(s)
    /\ Goto(s, "wait")
    /\ left' = [left EXCEPT ![s] = NextDeadline(s)]
    /\ deadlineInterval' = [deadlineInterval EXCEPT ![s] = IntervalFor(s)]
    /\ observed' = [observed EXCEPT ![s] = Cadence(s)]
    /\ ReadSignal(s)
    /\ UNCHANGED <<demand, wakeup, closed, teardown, rates, age, changes>>

WaitDeadline(s) ==
    /\ phase[s] = "wait"
    /\ left[s] = 0
    /\ Goto(s, "loop")
    /\ observed' = [observed EXCEPT ![s] = None]
    /\ UNCHANGED <<demand, link, teardown, rates, timing, changes>>

(* A signal ends the race with the clock.  Only a new cadence (or a closed   *)
(* context) is worth a new look at the loop; otherwise the runner sleeps out *)
(* the deadline and no longer listens.                                       *)
WaitSignal(s) ==
    /\ phase[s] = "wait"
    /\ signalled[s] \/ closed[s]
    /\ Goto(s, IF contextClosed \/ observed[s] # Cadence(s)
               THEN "loop" ELSE "sleep")
    /\ observed' = [observed EXCEPT ![s] = None]
    /\ UNCHANGED <<demand, link, teardown, rates, timing, changes>>

SleepDone(s) ==
    /\ phase[s] = "sleep"
    /\ left[s] = 0
    /\ Goto(s, "loop")
    /\ UNCHANGED <<demand, link, teardown, rates, timing, observed, changes>>

(* schedule_next_deadline after an attempt made a ticks ago.                 *)
ScheduleNext(s, a) ==
    /\ left' = [left EXCEPT ![s] = AdvanceDeadline(IntervalFor(s), a)]
    /\ deadlineInterval' = [deadlineInterval EXCEPT ![s] = IntervalFor(s)]

AtAttempt(s) == AtLoop(s) /\ HasWork /\ Due(s)

Attempted(s) == age' = [age EXCEPT ![s] = 0]

(* render_one starts a frame: Renderer.render consumes the request.          *)
RenderStart(s) ==
    /\ AtAttempt(s)
    /\ ~destroying /\ ~outputFailed
    /\ Goto(s, "render")
    /\ Attempted(s)
    /\ requested' = FALSE
    /\ UNCHANGED <<live, link, teardown, rates, left, deadlineInterval,
                   observed, changes>>

(* Renderer.render answers Closed while the renderer is being destroyed: the *)
(* attempt counts and the next one is paced.                                 *)
RenderRefused(s) ==
    /\ AtAttempt(s)
    /\ destroying
    /\ Attempted(s)
    /\ ScheduleNext(s, 0)
    /\ UNCHANGED <<demand, link, teardown, rates, phase, observed, changes>>

(* Renderer.render answers an output failure: terminal for the scheduler.    *)
RenderPoisoned(s) ==
    /\ AtAttempt(s)
    /\ ~destroying /\ outputFailed
    /\ Attempted(s)
    /\ Leave(s, {})
    /\ UNCHANGED <<demand, teardown, rates, left, deadlineInterval, observed,
                   changes>>

(* What render_one does with a frame that ended without an output failure:   *)
(* on a closed context run_loop returns the error, otherwise the next        *)
(* deadline is set from the attempt that just ran.                           *)
AfterFrame(s, woken) ==
    IF contextClosed
    THEN /\ Leave(s, woken)
         /\ UNCHANGED <<left, deadlineInterval>>
    ELSE /\ Goto(s, "loop")
         /\ ScheduleNext(s, age[s])
         /\ Notify(woken)
         /\ UNCHANGED <<closed, wakeup>>

MutantClearAfterFrame(s) ==
    /\ phase[s] = "render"
    /\ requested' = FALSE
    /\ AfterFrame(s, {})
    /\ UNCHANGED <<live, teardown, rates, age, observed, changes>>

(* The frame was presented. *)
FrameRendered(s) ==
    /\ phase[s] = "render"
    /\ AfterFrame(s, {})
    /\ UNCHANGED <<demand, teardown, rates, age, observed, changes>>

(* The frame was skipped or failed in the native layer, or a pass of it      *)
(* answered an error: Renderer.render puts the request back.                 *)
FrameRetried(s) ==
    /\ phase[s] = "render"
    /\ requested' = TRUE
    /\ AfterFrame(s, WokenByRequest)
    /\ UNCHANGED <<live, teardown, rates, age, observed, changes>>

(* flush_output failed: the renderer's output is failed for good, the        *)
(* request is put back, and run returns the error.                           *)
FrameOutputFailed(s) ==
    /\ phase[s] = "render"
    /\ outputFailed' = TRUE
    /\ requested' = TRUE
    /\ Leave(s, WokenByRequest)
    /\ UNCHANGED <<live, destroying, contextClosed, rates, timing, observed,
                   changes>>

(* A frame callback raised, or the runner's fiber was cancelled in a frame:  *)
(* the finaliser of Renderer.render puts the request back, the one of run    *)
(* closes the scheduler.                                                     *)
FrameRaised(s) ==
    /\ phase[s] = "render"
    /\ requested' = TRUE
    /\ Leave(s, WokenByRequest)
    /\ UNCHANGED <<live, teardown, rates, timing, observed, changes>>

(* The switch is cancelled while the runner is suspended.                    *)
Cancelled(s) ==
    /\ phase[s] \in {"idle", "wait", "sleep"}
    /\ Leave(s, {})
    /\ observed' = [observed EXCEPT ![s] = None]
    /\ UNCHANGED <<demand, teardown, rates, timing, changes>>

-----------------------------------------------------------------------------
(* The renderer's teardown and the clock.                                    *)

(* Renderer.close begins: no new frame starts, but the context stays open    *)
(* while teardown callbacks run and pending scrollback is written out.       *)
BeginDestroy ==
    /\ ~destroying
    /\ destroying' = TRUE
    /\ UNCHANGED <<demand, link, contextClosed, outputFailed, rates, timing,
                   phase, observed, changes>>

(* Renderer.close emits destroy, which closes the attached schedulers, and   *)
(* closes the context.                                                       *)
FinishDestroy ==
    /\ destroying /\ ~contextClosed
    /\ contextClosed' = TRUE
    /\ closed' = [s \in Schedulers |-> closed[s] \/ phase[s] # "absent"]
    /\ Notify({s \in Schedulers : phase[s] # "absent" /\ ~closed[s]})
    /\ wakeup' = None
    /\ requested' = FALSE
    /\ live' = 0
    /\ UNCHANGED <<destroying, outputFailed, rates, timing, phase, observed,
                   changes>>

(* flush_output fails outside a frame: a resize or a mode transition wrote.  *)
OutputFails ==
    /\ ~contextClosed
    /\ outputFailed' = TRUE
    /\ UNCHANGED <<demand, link, destroying, contextClosed, rates, timing,
                   phase, observed, changes>>

(* An age folds back by Period once it reaches 2 * Period. *)
Older(a) == IF a + 1 = 2 * Period THEN Period ELSE a + 1

Tick ==
    /\ age' = [s \in Schedulers |->
                 IF age[s] = None THEN None ELSE Older(age[s])]
    /\ left' = [s \in Schedulers |-> IF left[s] = 0 THEN 0 ELSE left[s] - 1]
    /\ UNCHANGED <<demand, link, teardown, rates, deadlineInterval, phase,
                   observed, changes>>

-----------------------------------------------------------------------------
RunnerStep(s) ==
    \/ LoopExit(s) \/ LoopIdle(s) \/ LoopWait(s)
    \/ IdleWake(s) \/ WaitDeadline(s) \/ WaitSignal(s) \/ SleepDone(s)
    \/ RenderStart(s) \/ RenderRefused(s) \/ RenderPoisoned(s)

FrameEnd(s) ==
    \/ FrameRendered(s) \/ FrameRetried(s)
    \/ FrameOutputFailed(s) \/ FrameRaised(s)

Next ==
    \/ RequestRender \/ RequestLive \/ DropLive
    \/ BeginDestroy \/ FinishDestroy \/ OutputFails \/ Tick
    \/ \E s \in Schedulers :
         \/ Create(s) \/ Run(s) \/ Close(s) \/ Cancelled(s)
         \/ RunnerStep(s) \/ FrameEnd(s)
         \/ \E i \in Intervals : \/ SetTargetFramesPerSecond(s, i)
                                 \/ SetMaxFramesPerSecond(s, i)

Spec == Init /\ [][Next]_vars

(* Eio resumes a runnable fiber, the monotonic clock advances, a frame's     *)
(* callbacks and sink return, and Renderer.close runs to its end.            *)
Fairness ==
    /\ WF_vars(Tick)
    /\ WF_vars(FinishDestroy)
    /\ \A s \in Schedulers : WF_vars(RunnerStep(s)) /\ WF_vars(FrameEnd(s))

FairSpec == Spec /\ Fairness

-----------------------------------------------------------------------------
(* Properties.                                                               *)

(* Type invariant. *)
TypeOK ==
    /\ requested \in BOOLEAN /\ live \in 0 .. MaxLive
    /\ wakeup \in Schedulers \cup {None}
    /\ destroying \in BOOLEAN /\ contextClosed \in BOOLEAN
    /\ outputFailed \in BOOLEAN
    /\ phase \in [Schedulers -> Phases]
    /\ closed \in [Schedulers -> BOOLEAN]
    /\ signalled \in [Schedulers -> BOOLEAN]
    /\ target \in [Schedulers -> Intervals]
    /\ ondemand \in [Schedulers -> Intervals]
    /\ age \in [Schedulers -> 0 .. (2 * Period - 1) \cup {None}]
    /\ left \in [Schedulers -> 0 .. Period]
    /\ deadlineInterval \in [Schedulers -> Intervals \cup {None}]
    /\ observed \in [Schedulers ->
                       [live : BOOLEAN, target : Intervals,
                        ondemand : Intervals] \cup {None}]
    /\ changes \in 0 .. MaxChanges

Open(s) == phase[s] # "absent" /\ ~closed[s]

(* A scheduler is open exactly while the context holds its wakeup: closing   *)
(* one scheduler, late or twice, never unhooks the one attached after it,    *)
(* and no wakeup outlives its scheduler or the context.                      *)
WakeupWired ==
    /\ \A s \in Schedulers : Open(s) <=> wakeup = s
    /\ contextClosed => wakeup = None

(* No lost wakeup: a runner parked in wait_idle while there is a frame to    *)
(* draw, or while it should stop, has a broadcast on its way.                *)
NoLostWakeup ==
    \A s \in Schedulers :
        phase[s] = "idle" /\ (HasWork \/ closed[s]) => signalled[s]

(* The same for wait_until_deadline: a runner waiting on a deadline that was *)
(* computed for another cadence, or that should stop, has been signalled.    *)
NoStaleWait ==
    \A s \in Schedulers :
        phase[s] = "wait" /\ (observed[s] # Cadence(s) \/ closed[s]) => signalled[s]

(* left and deadlineInterval belong to the last attempt unless a frame is in *)
(* flight or run has ended in one.                                           *)
Paced(s) == phase[s] \notin {"render", "done"}

(* A stored deadline is at least one interval after the last attempt and at  *)
(* most one interval ahead: overrun frames neither burst nor drift away.     *)
DeadlineInSlot ==
    \A s \in Schedulers :
        Paced(s) /\ deadlineInterval[s] # None =>
            /\ age[s] # None
            /\ deadlineInterval[s] <= age[s] + left[s]
            /\ left[s] <= deadlineInterval[s]

(* Frames are paced: whatever happened since the last attempt - failures,    *)
(* invalidations, live transitions, rate changes - the next one is not made  *)
(* before the interval of the mode in force has passed.                      *)
PacedAttempts ==
    \A s \in Schedulers :
        AtAttempt(s) => age[s] = None \/ IntervalFor(s) <= age[s]

(* A pending request is consumed only by the start of a frame or by the      *)
(* teardown of the renderer: one made while a frame is running, or one whose *)
(* frame fails, is never dropped.                                            *)
RequestKept ==
    [][requested /\ ~requested' =>
         \/ contextClosed'
         \/ \E s \in Schedulers : phase[s] = "loop" /\ phase'[s] = "render"
      ]_vars

(* Work is served: while a scheduler runs, a pending request or a live owner *)
(* leads to a frame, unless the work or the scheduler goes away.             *)
WorkServed ==
    \A s \in Schedulers :
        phase[s] \in Running /\ HasWork
            ~> phase[s] = "render" \/ ~HasWork \/ closed[s]

(* run returns once its scheduler is closed, by close, by the destruction of *)
(* the renderer or by the release of the switch.                             *)
RunReturns ==
    \A s \in Schedulers :
        phase[s] \in Running /\ closed[s] ~> phase[s] = "done"

=============================================================================
