---------------------------- MODULE FrameProofs -----------------------------
(***************************************************************************)
(* Proofs about frames: when the scheduler starts one, for any number of   *)
(* schedulers, any frame intervals and any bounds, and what the renderer   *)
(* does in one, for any two-level tree of items.                           *)
(***************************************************************************)
EXTENDS Scheduler, RenderFrame, SequenceTheorems, InductionLemmas

-----------------------------------------------------------------------------
(* The frame scheduler. *)

(* The definitions of the groups of variables. *)
USE DEF demand, link, teardown, rates, timing

(* advance_deadline answers a time ahead of now, in the slot that follows it.*)
LEMMA AdvanceInSlot ==
    ASSUME NEW i \in Nat \ {0}, NEW a \in Nat
    PROVE  /\ AdvanceDeadline(i, a) \in 1 .. i
           /\ i <= a + AdvanceDeadline(i, a)
<1>1. a % i \in 0 .. (i - 1)
  OBVIOUS
<1> QED BY <1>1 DEF AdvanceDeadline

(* The interval in force is one of the configured ones. *)
LEMMA IntervalTyped ==
    ASSUME TypeOK, NEW s \in Schedulers
    PROVE  /\ IntervalFor(s) \in Intervals
           /\ IntervalFor(s) \in Nat \ {0}
           /\ IntervalFor(s) <= Period
BY IntervalsAssumption DEF TypeOK, IntervalFor

(* A deadline rebased to the interval in force lies within Period. *)
LEMMA DeadlineTyped ==
    ASSUME TypeOK, NEW s \in Schedulers, NEW a \in Nat
    PROVE  AdvanceDeadline(IntervalFor(s), a) \in 0 .. Period
<1>1. AdvanceDeadline(IntervalFor(s), a) \in 1 .. IntervalFor(s)
  BY IntervalTyped, AdvanceInSlot
<1> QED BY <1>1, IntervalTyped, IntervalsAssumption

(* The initial state is type correct. *)
LEMMA TypeInit == Init => TypeOK
<1> SUFFICES ASSUME Init PROVE TypeOK
  OBVIOUS
<1>1. phase \in [Schedulers -> Phases]
  BY DEF Init, Phases
<1>2. live \in 0 .. MaxLive /\ changes \in 0 .. MaxChanges
  BY BoundsAssumption DEF Init
<1>3. left \in [Schedulers -> 0 .. Period]
  BY IntervalsAssumption DEF Init
<1> QED BY <1>1, <1>2, <1>3 DEF Init, TypeOK

(* TypeOK alone is not inductive: the deadline set after a frame is computed *)
(* from the frame's attempt, so a frame in flight must have one.             *)
FrameHasAttempt ==
    \A s \in Schedulers : phase[s] = "render" => age[s] # None

(* Every action keeps the variables in their types. *)
LEMMA TypeStep == TypeOK /\ FrameHasAttempt /\ [Next]_vars => TypeOK'
<1> SUFFICES ASSUME TypeOK, FrameHasAttempt, [Next]_vars PROVE TypeOK'
  OBVIOUS
<1> USE IntervalsAssumption, BoundsAssumption, NoneAssumption
<1>1. CASE RequestRender
  BY <1>1 DEF RequestRender, TypeOK, Notify
<1>2. CASE RequestLive
  BY <1>2 DEF RequestLive, TypeOK, Notify
<1>3. CASE DropLive
  BY <1>3 DEF DropLive, Decremented, TypeOK, Notify
<1>4. CASE BeginDestroy
  BY <1>4 DEF BeginDestroy, TypeOK
<1>5. CASE FinishDestroy
  <2>1. closed' \in [Schedulers -> BOOLEAN]
    BY <1>5 DEF FinishDestroy
  <2>2. signalled' \in [Schedulers -> BOOLEAN]
    BY <1>5 DEF FinishDestroy, Notify
  <2>3. live' \in 0 .. MaxLive
    BY <1>5 DEF FinishDestroy
  <2> QED BY <1>5, <2>1, <2>2, <2>3 DEF FinishDestroy, TypeOK
<1>6. CASE OutputFails
  BY <1>6 DEF OutputFails, TypeOK
<1>7. CASE Tick
  <2>1. age' \in [Schedulers -> 0 .. (2 * Period - 1) \cup {None}]
    <3>1. \A a \in 0 .. (2 * Period - 1) : Older(a) \in 0 .. (2 * Period - 1)
      BY DEF Older
    <3> QED BY <1>7, <3>1 DEF Tick, TypeOK
  <2>2. left' \in [Schedulers -> 0 .. Period]
    BY <1>7 DEF Tick, TypeOK
  <2> QED BY <1>7, <2>1, <2>2 DEF Tick, TypeOK
<1>8. ASSUME NEW s \in Schedulers,
             \/ Create(s) \/ Run(s) \/ Close(s) \/ Cancelled(s)
             \/ \E i \in Intervals : \/ SetTargetFramesPerSecond(s, i)
                                     \/ SetMaxFramesPerSecond(s, i)
      PROVE  TypeOK'
  <2>1. CASE Create(s)
    BY <2>1 DEF Create, TypeOK, Phases
  <2>2. CASE Run(s)
    BY <2>2 DEF Run, Goto, TypeOK, Phases, Running
  <2>3. CASE Close(s)
    BY <2>3 DEF Close, CloseUnchecked, Notify, TypeOK
  <2>4. CASE Cancelled(s)
    BY <2>4 DEF Cancelled, Leave, Goto, CloseUnchecked, Notify, TypeOK, Phases
  <2>5. ASSUME NEW i \in Intervals, SetTargetFramesPerSecond(s, i)
        PROVE  TypeOK'
    BY <2>5 DEF SetTargetFramesPerSecond, SetRate, Notify, TypeOK
  <2>6. ASSUME NEW i \in Intervals, SetMaxFramesPerSecond(s, i)
        PROVE  TypeOK'
    BY <2>6 DEF SetMaxFramesPerSecond, SetRate, Notify, TypeOK
  <2> QED BY <1>8, <2>1, <2>2, <2>3, <2>4, <2>5, <2>6
<1>9. ASSUME NEW s \in Schedulers, RunnerStep(s) PROVE TypeOK'
  <2>1. CASE LoopExit(s)
    BY <2>1 DEF LoopExit, Leave, Goto, CloseUnchecked, Notify, TypeOK, Phases
  <2>2. CASE LoopIdle(s)
    BY <2>2 DEF LoopIdle, Goto, ReadSignal, TypeOK, Phases, Running
  <2>3. CASE LoopWait(s)
    <3>1. NextDeadline(s) \in 0 .. Period
      <4>1. CASE NeedsRebase(s)
        <5>1. age[s] \in Nat
          BY <2>3 DEF LoopWait, Due, TypeOK
        <5> QED BY <4>1, <5>1, DeadlineTyped DEF NextDeadline
      <4>2. CASE ~NeedsRebase(s)
        BY <4>2 DEF NextDeadline, TypeOK
      <4> QED BY <4>1, <4>2
    <3>2. Cadence(s) \in [live : BOOLEAN, target : Intervals,
                          ondemand : Intervals]
      BY DEF Cadence, TypeOK
    <3> QED BY <2>3, <3>1, <3>2, IntervalTyped
            DEF LoopWait, Goto, ReadSignal, TypeOK, Phases, Running
  <2>4. CASE IdleWake(s)
    BY <2>4 DEF IdleWake, Goto, ReadSignal, TypeOK, Phases, Running
  <2>5. CASE WaitDeadline(s)
    BY <2>5 DEF WaitDeadline, Goto, TypeOK, Phases, Running
  <2>6. CASE WaitSignal(s)
    BY <2>6 DEF WaitSignal, Goto, TypeOK, Phases, Running
  <2>7. CASE SleepDone(s)
    BY <2>7 DEF SleepDone, Goto, TypeOK, Phases, Running
  <2>8. CASE RenderStart(s)
    <3>1. age' \in [Schedulers -> 0 .. (2 * Period - 1) \cup {None}]
      BY <2>8 DEF RenderStart, Attempted, TypeOK
    <3> QED BY <2>8, <3>1 DEF RenderStart, Goto, TypeOK, Phases, Running
  <2>9. CASE RenderRefused(s)
    <3>1. AdvanceDeadline(IntervalFor(s), 0) \in 0 .. Period
      BY DeadlineTyped
    <3>2. age' \in [Schedulers -> 0 .. (2 * Period - 1) \cup {None}]
      BY <2>9 DEF RenderRefused, Attempted, TypeOK
    <3> QED BY <2>9, <3>1, <3>2, IntervalTyped
            DEF RenderRefused, ScheduleNext, TypeOK
  <2>10. CASE RenderPoisoned(s)
    <3>1. age' \in [Schedulers -> 0 .. (2 * Period - 1) \cup {None}]
      BY <2>10 DEF RenderPoisoned, Attempted, TypeOK
    <3> QED BY <2>10, <3>1 DEF RenderPoisoned, Leave, Goto, CloseUnchecked,
                 Notify, TypeOK, Phases
  <2> QED BY <1>9, <2>1, <2>2, <2>3, <2>4, <2>5, <2>6, <2>7, <2>8, <2>9,
             <2>10 DEF RunnerStep
<1>10. ASSUME NEW s \in Schedulers, FrameEnd(s) PROVE TypeOK'
  <2>1. ASSUME NEW woken, AfterFrame(s, woken), phase[s] = "render"
        PROVE  /\ phase' \in [Schedulers -> Phases]
               /\ closed' \in [Schedulers -> BOOLEAN]
               /\ signalled' \in [Schedulers -> BOOLEAN]
               /\ wakeup' \in Schedulers \cup {None}
               /\ left' \in [Schedulers -> 0 .. Period]
               /\ deadlineInterval' \in [Schedulers -> Intervals \cup {None}]
    <3>1. CASE contextClosed
      <4>1. Leave(s, woken) /\ UNCHANGED <<left, deadlineInterval>>
        BY <2>1, <3>1 DEF AfterFrame
      <4> QED BY <4>1 DEF Leave, Goto, CloseUnchecked, Notify, TypeOK, Phases
    <3>2. CASE ~contextClosed
      <4>1. age[s] \in Nat
        BY <2>1 DEF FrameHasAttempt, TypeOK
      <4>2. AdvanceDeadline(IntervalFor(s), age[s]) \in 0 .. Period
        BY <4>1, DeadlineTyped
      <4>3. /\ Goto(s, "loop") /\ ScheduleNext(s, age[s])
            /\ Notify(woken) /\ UNCHANGED <<closed, wakeup>>
        BY <2>1, <3>2 DEF AfterFrame
      <4>4. phase' \in [Schedulers -> Phases]
        BY <4>3 DEF Goto, TypeOK, Phases, Running
      <4>5. signalled' \in [Schedulers -> BOOLEAN]
        BY <4>3 DEF Notify, TypeOK
      <4>6. left' \in [Schedulers -> 0 .. Period]
        BY <4>2, <4>3 DEF ScheduleNext, TypeOK
      <4>7. deadlineInterval' \in [Schedulers -> Intervals \cup {None}]
        BY <4>3, IntervalTyped DEF ScheduleNext, TypeOK
      <4> QED BY <4>3, <4>4, <4>5, <4>6, <4>7 DEF TypeOK
    <3> QED BY <3>1, <3>2 DEF TypeOK
  <2>2. CASE FrameRendered(s)
    BY <2>1, <2>2 DEF FrameRendered, TypeOK
  <2>3. CASE FrameRetried(s)
    BY <2>1, <2>3 DEF FrameRetried, TypeOK
  <2>4. CASE FrameOutputFailed(s)
    BY <2>4 DEF FrameOutputFailed, Leave, Goto, CloseUnchecked, Notify,
                TypeOK, Phases
  <2>5. CASE FrameRaised(s)
    BY <2>5 DEF FrameRaised, Leave, Goto, CloseUnchecked, Notify, TypeOK,
                Phases
  <2> QED BY <1>10, <2>2, <2>3, <2>4, <2>5 DEF FrameEnd
<1>11. CASE UNCHANGED vars
  BY <1>11 DEF vars, TypeOK
<1> QED BY <1>1, <1>2, <1>3, <1>4, <1>5, <1>6, <1>7, <1>8, <1>9, <1>10,
           <1>11
        DEF Next

-----------------------------------------------------------------------------
(* A scheduler that was never created was never closed.                      *)
AbsentIsOpen == \A s \in Schedulers : phase[s] = "absent" => ~closed[s]

(* The link between the context and the schedulers.  None of its parts is    *)
(* inductive alone: an idle or waiting runner is signalled because it is the *)
(* one whose wakeup the context holds, and it is that one because closing a  *)
(* scheduler removes its own wakeup and signals its own runner.              *)
LinkInv == AbsentIsOpen /\ WakeupWired /\ NoLostWakeup /\ NoStaleWait

(* Every action keeps the wakeup wired and no wakeup is lost. *)
LEMMA LinkStep ==
    TypeOK /\ LinkInv /\ [Next]_vars => LinkInv'
<1> SUFFICES ASSUME TypeOK, LinkInv, [Next]_vars PROVE LinkInv'
  OBVIOUS
<1>1. CASE RequestRender
  BY <1>1, NoneAssumption DEF RequestRender, WokenByRequest, Notify,
         TypeOK, LinkInv, AbsentIsOpen, WakeupWired, Open, NoLostWakeup,
         HasWork, NoStaleWait, Cadence
<1>2. CASE RequestLive
  <2>1. AbsentIsOpen' /\ WakeupWired'
    BY <1>2 DEF RequestLive, LinkInv, AbsentIsOpen, WakeupWired, Open
  <2>2. NoLostWakeup'
    BY <1>2 DEF RequestLive, WokenByLive, Notify, TypeOK, LinkInv, WakeupWired,
              Open, NoLostWakeup, HasWork
  <2>3. NoStaleWait'
    <3>1. CASE live = 0
      BY <1>2, <3>1 DEF RequestLive, WokenByLive, Notify, TypeOK, LinkInv,
                      WakeupWired, Open, NoStaleWait
    <3>2. CASE live # 0
      <4>1. live > 0 /\ live' > 0
        BY <1>2, <3>2, BoundsAssumption DEF RequestLive, TypeOK
      <4>2. \A t \in Schedulers : Cadence(t)' = Cadence(t)
        BY <1>2, <4>1 DEF RequestLive, Cadence
      <4> QED BY <1>2, <4>2 DEF RequestLive, Notify, TypeOK, LinkInv, NoStaleWait
    <3> QED BY <3>1, <3>2
  <2> QED BY <2>1, <2>2, <2>3 DEF LinkInv
<1>3. CASE DropLive
  <2>1. AbsentIsOpen' /\ WakeupWired'
    BY <1>3 DEF DropLive, LinkInv, AbsentIsOpen, WakeupWired, Open
  <2>2. NoLostWakeup'
    <3>1. HasWork' => HasWork
      BY <1>3, BoundsAssumption DEF DropLive, Decremented, HasWork, TypeOK
    <3> QED BY <1>3, <3>1 DEF DropLive, Notify, TypeOK, LinkInv, NoLostWakeup
  <2>3. NoStaleWait'
    <3>1. CASE live = 1
      BY <1>3, <3>1 DEF DropLive, WokenByDrop, Notify, TypeOK, LinkInv,
                      WakeupWired, Open, NoStaleWait
    <3>2. CASE live # 1
      <4>1. (live' > 0) = (live > 0)
        BY <1>3, <3>2, BoundsAssumption DEF DropLive, Decremented, TypeOK
      <4>2. \A t \in Schedulers : Cadence(t)' = Cadence(t)
        BY <1>3, <4>1 DEF DropLive, Cadence
      <4> QED BY <1>3, <4>2 DEF DropLive, Notify, TypeOK, LinkInv, NoStaleWait
    <3> QED BY <3>1, <3>2
  <2> QED BY <2>1, <2>2, <2>3 DEF LinkInv
<1>4. CASE BeginDestroy
  BY <1>4, NoneAssumption DEF BeginDestroy, TypeOK, LinkInv,
         AbsentIsOpen, WakeupWired, Open, NoLostWakeup, HasWork,
         NoStaleWait, Cadence
<1>5. CASE FinishDestroy
  BY <1>5, NoneAssumption DEF FinishDestroy, Notify, TypeOK, LinkInv,
         AbsentIsOpen, WakeupWired, Open, NoLostWakeup, HasWork,
         NoStaleWait, Cadence
<1>6. CASE OutputFails
  BY <1>6, NoneAssumption DEF OutputFails, TypeOK, LinkInv,
         AbsentIsOpen, WakeupWired, Open, NoLostWakeup, HasWork,
         NoStaleWait, Cadence
<1>7. CASE Tick
  BY <1>7, NoneAssumption DEF Tick, TypeOK, LinkInv, AbsentIsOpen,
         WakeupWired, Open, NoLostWakeup, HasWork, NoStaleWait, Cadence
<1>8. ASSUME NEW s \in Schedulers, Create(s) PROVE LinkInv'
  BY <1>8, NoneAssumption DEF Create, TypeOK, LinkInv, AbsentIsOpen,
         WakeupWired, Open, NoLostWakeup, HasWork, NoStaleWait, Cadence
<1>9. ASSUME NEW s \in Schedulers, Run(s) PROVE LinkInv'
  BY <1>9, NoneAssumption DEF Run, Goto, TypeOK, LinkInv, AbsentIsOpen,
         WakeupWired, Open, NoLostWakeup, HasWork, NoStaleWait, Cadence
<1>10. ASSUME NEW s \in Schedulers, Close(s) PROVE LinkInv'
  BY <1>10, NoneAssumption DEF Close, CloseUnchecked, Notify, TypeOK,
         LinkInv, AbsentIsOpen, WakeupWired, Open, NoLostWakeup,
         HasWork, NoStaleWait, Cadence
<1>11. ASSUME NEW s \in Schedulers, Cancelled(s) PROVE LinkInv'
  BY <1>11, NoneAssumption DEF Cancelled, Leave, Goto, CloseUnchecked,
         Notify, TypeOK, LinkInv, AbsentIsOpen, WakeupWired, Open,
         NoLostWakeup, HasWork, NoStaleWait, Cadence
<1>12. ASSUME NEW s \in Schedulers, LoopExit(s) PROVE LinkInv'
  BY <1>12, NoneAssumption DEF LoopExit, Leave, Goto, CloseUnchecked,
         Notify, TypeOK, LinkInv, AbsentIsOpen, WakeupWired, Open,
         NoLostWakeup, HasWork, NoStaleWait, Cadence
<1>13. ASSUME NEW s \in Schedulers, LoopIdle(s) PROVE LinkInv'
  BY <1>13, NoneAssumption DEF LoopIdle, AtLoop, Goto, ReadSignal,
         TypeOK, LinkInv, AbsentIsOpen, WakeupWired, Open, NoLostWakeup,
         HasWork, NoStaleWait, Cadence
<1>14. ASSUME NEW s \in Schedulers, LoopWait(s) PROVE LinkInv'
  BY <1>14, NoneAssumption DEF LoopWait, AtLoop, Goto, ReadSignal,
         TypeOK, LinkInv, AbsentIsOpen, WakeupWired, Open, NoLostWakeup,
         HasWork, NoStaleWait, Cadence
<1>15. ASSUME NEW s \in Schedulers, IdleWake(s) PROVE LinkInv'
  BY <1>15, NoneAssumption DEF IdleWake, Goto, ReadSignal, TypeOK,
         LinkInv, AbsentIsOpen, WakeupWired, Open, NoLostWakeup,
         HasWork, NoStaleWait, Cadence
<1>16. ASSUME NEW s \in Schedulers, WaitDeadline(s) PROVE LinkInv'
  BY <1>16, NoneAssumption DEF WaitDeadline, Goto, TypeOK, LinkInv,
         AbsentIsOpen, WakeupWired, Open, NoLostWakeup, HasWork,
         NoStaleWait, Cadence
<1>17. ASSUME NEW s \in Schedulers, WaitSignal(s) PROVE LinkInv'
  BY <1>17, NoneAssumption DEF WaitSignal, Goto, TypeOK, LinkInv,
         AbsentIsOpen, WakeupWired, Open, NoLostWakeup, HasWork,
         NoStaleWait, Cadence
<1>18. ASSUME NEW s \in Schedulers, SleepDone(s) PROVE LinkInv'
  BY <1>18, NoneAssumption DEF SleepDone, Goto, TypeOK, LinkInv,
         AbsentIsOpen, WakeupWired, Open, NoLostWakeup, HasWork,
         NoStaleWait, Cadence
<1>19. ASSUME NEW s \in Schedulers, RenderStart(s) PROVE LinkInv'
  BY <1>19, NoneAssumption DEF RenderStart, AtAttempt, AtLoop, Goto,
         TypeOK, LinkInv, AbsentIsOpen, WakeupWired, Open, NoLostWakeup,
         HasWork, NoStaleWait, Cadence
<1>20. ASSUME NEW s \in Schedulers, RenderRefused(s) PROVE LinkInv'
  BY <1>20, NoneAssumption DEF RenderRefused, TypeOK, LinkInv,
         AbsentIsOpen, WakeupWired, Open, NoLostWakeup, HasWork,
         NoStaleWait, Cadence
<1>21. ASSUME NEW s \in Schedulers, RenderPoisoned(s) PROVE LinkInv'
  BY <1>21, NoneAssumption DEF RenderPoisoned, AtAttempt, AtLoop, Leave,
         Goto, CloseUnchecked, Notify, TypeOK, LinkInv, AbsentIsOpen,
         WakeupWired, Open, NoLostWakeup, HasWork, NoStaleWait, Cadence
<1>22. ASSUME NEW s \in Schedulers, FrameRendered(s) PROVE LinkInv'
  BY <1>22, NoneAssumption DEF FrameRendered, AfterFrame, Leave, Goto,
         CloseUnchecked, Notify, TypeOK, LinkInv, AbsentIsOpen,
         WakeupWired, Open, NoLostWakeup, HasWork, NoStaleWait, Cadence
<1>23. ASSUME NEW s \in Schedulers, FrameRetried(s) PROVE LinkInv'
  BY <1>23, NoneAssumption DEF FrameRetried, AfterFrame, WokenByRequest,
         Leave, Goto, CloseUnchecked, Notify, TypeOK, LinkInv,
         AbsentIsOpen, WakeupWired, Open, NoLostWakeup, HasWork,
         NoStaleWait, Cadence
<1>24. ASSUME NEW s \in Schedulers, FrameOutputFailed(s) PROVE LinkInv'
  BY <1>24, NoneAssumption DEF FrameOutputFailed, WokenByRequest, Leave,
         Goto, CloseUnchecked, Notify, TypeOK, LinkInv, AbsentIsOpen,
         WakeupWired, Open, NoLostWakeup, HasWork, NoStaleWait, Cadence
<1>25. ASSUME NEW s \in Schedulers, FrameRaised(s) PROVE LinkInv'
  BY <1>25, NoneAssumption DEF FrameRaised, WokenByRequest, Leave, Goto,
         CloseUnchecked, Notify, TypeOK, LinkInv, AbsentIsOpen,
         WakeupWired, Open, NoLostWakeup, HasWork, NoStaleWait, Cadence
<1>26. ASSUME NEW s \in Schedulers, NEW i \in Intervals,
              SetTargetFramesPerSecond(s, i)
       PROVE  LinkInv'
  BY <1>26, NoneAssumption DEF SetTargetFramesPerSecond, SetRate,
         Notify, TypeOK, LinkInv, AbsentIsOpen, WakeupWired, Open,
         NoLostWakeup, HasWork, NoStaleWait, Cadence
<1>27. ASSUME NEW s \in Schedulers, NEW i \in Intervals,
              SetMaxFramesPerSecond(s, i)
       PROVE  LinkInv'
  BY <1>27, NoneAssumption DEF SetMaxFramesPerSecond, SetRate, Notify,
         TypeOK, LinkInv, AbsentIsOpen, WakeupWired, Open, NoLostWakeup,
         HasWork, NoStaleWait, Cadence
<1>28. CASE UNCHANGED vars
  BY <1>28 DEF vars, TypeOK, LinkInv, AbsentIsOpen, WakeupWired, Open, NoLostWakeup, HasWork, NoStaleWait, Cadence
<1> QED BY <1>1, <1>2, <1>3, <1>4, <1>5, <1>6, <1>7, <1>8, <1>9, <1>10,
           <1>11, <1>12, <1>13, <1>14, <1>15, <1>16, <1>17, <1>18, <1>19,
           <1>20, <1>21, <1>22, <1>23, <1>24, <1>25, <1>26, <1>27, <1>28
           DEF Next, RunnerStep, FrameEnd

-----------------------------------------------------------------------------
(* DeadlineInSlot for one scheduler. *)
InSlot(s) ==
    Paced(s) /\ deadlineInterval[s] # None =>
        /\ age[s] # None
        /\ deadlineInterval[s] <= age[s] + left[s]
        /\ left[s] <= deadlineInterval[s]

(* The timing of the attempts: a stored deadline is related to the last      *)
(* attempt, and a frame in flight has an attempt to relate its own to.       *)
TimingInv == FrameHasAttempt /\ DeadlineInSlot

(* A fresh deadline is in its slot. *)
LEMMA ScheduledInSlot ==
    ASSUME TypeOK, NEW s \in Schedulers, NEW a \in Nat,
           ScheduleNext(s, a), age'[s] = a
    PROVE  InSlot(s)'
<1> DEFINE i == IntervalFor(s)
<1>1. left'[s] = AdvanceDeadline(i, a) /\ deadlineInterval'[s] = i
  BY DEF ScheduleNext, TypeOK
<1>2. AdvanceDeadline(i, a) \in 1 .. i /\ i <= a + AdvanceDeadline(i, a)
  BY IntervalTyped, AdvanceInSlot
<1>3. i \in Nat
  BY IntervalTyped
<1> QED BY <1>1, <1>2, <1>3, NoneAssumption DEF InSlot

(* A step of one scheduler leaves the timing of the others alone. *)
LEMMA OthersInSlot ==
    ASSUME TypeOK, TypeOK', TimingInv, NEW s \in Schedulers,
           \A t \in Schedulers \ {s} :
             /\ phase'[t] = phase[t] /\ age'[t] = age[t]
             /\ left'[t] = left[t]
             /\ deadlineInterval'[t] = deadlineInterval[t],
           InSlot(s)', phase'[s] = "render" => age'[s] # None
    PROVE  TimingInv'
<1>1. \A t \in Schedulers \ {s} : InSlot(t)'
  BY DEF TimingInv, DeadlineInSlot, InSlot, Paced
<1>2. DeadlineInSlot'
  BY <1>1 DEF DeadlineInSlot, InSlot
<1>3. FrameHasAttempt'
  BY DEF FrameHasAttempt, TimingInv
<1> QED BY <1>2, <1>3 DEF TimingInv

(* The end of a frame schedules the next deadline within its slot. *)
LEMMA FrameEndsInSlot ==
    ASSUME TypeOK, TypeOK', TimingInv, NEW s \in Schedulers, NEW woken,
           AfterFrame(s, woken), age' = age, age[s] \in Nat
    PROVE  TimingInv'
<1>1. CASE contextClosed
  <2>1. Leave(s, woken) /\ UNCHANGED <<left, deadlineInterval>>
    BY <1>1 DEF AfterFrame
  <2>2. phase'[s] = "done"
    BY <2>1 DEF Leave, Goto, TypeOK
  <2>3. InSlot(s)'
    BY <2>2 DEF InSlot, Paced
  <2> QED BY <2>1, <2>2, <2>3, OthersInSlot DEF Leave, Goto, TypeOK
<1>2. CASE ~contextClosed
  <2>1. Goto(s, "loop") /\ ScheduleNext(s, age[s])
    BY <1>2 DEF AfterFrame
  <2>2. InSlot(s)'
    BY <2>1, ScheduledInSlot
  <2> QED BY <2>1, <2>2, OthersInSlot DEF Goto, ScheduleNext, TypeOK
<1> QED BY <1>1, <1>2

(* Every action keeps the deadlines in their slots and attempts paced. *)
LEMMA TimingStep ==
    TypeOK /\ TypeOK' /\ TimingInv /\ [Next]_vars => TimingInv'
<1> SUFFICES ASSUME TypeOK, TypeOK', TimingInv, [Next]_vars PROVE TimingInv'
  OBVIOUS
<1>1. CASE RequestRender
  BY <1>1, NoneAssumption DEF RequestRender, TypeOK, TimingInv,
         FrameHasAttempt, DeadlineInSlot, Paced
<1>2. CASE RequestLive
  BY <1>2, NoneAssumption DEF RequestLive, TypeOK, TimingInv,
         FrameHasAttempt, DeadlineInSlot, Paced
<1>3. CASE DropLive
  BY <1>3, NoneAssumption DEF DropLive, TypeOK, TimingInv,
         FrameHasAttempt, DeadlineInSlot, Paced
<1>4. CASE BeginDestroy
  BY <1>4, NoneAssumption DEF BeginDestroy, TypeOK, TimingInv,
         FrameHasAttempt, DeadlineInSlot, Paced
<1>5. CASE FinishDestroy
  BY <1>5, NoneAssumption DEF FinishDestroy, TypeOK, TimingInv,
         FrameHasAttempt, DeadlineInSlot, Paced
<1>6. CASE OutputFails
  BY <1>6, NoneAssumption DEF OutputFails, TypeOK, TimingInv,
         FrameHasAttempt, DeadlineInSlot, Paced
<1>7. CASE Tick
  <2>1. \A a \in 0 .. (2 * Period - 1) :
          Older(a) \in Nat /\ (Older(a) = a + 1 \/ Period <= Older(a))
    BY IntervalsAssumption DEF Older
  <2>2. ASSUME NEW s \in Schedulers PROVE InSlot(s)'
    <3> SUFFICES ASSUME Paced(s), deadlineInterval[s] # None
                 PROVE  /\ age'[s] # None
                        /\ deadlineInterval[s] <= age'[s] + left'[s]
                        /\ left'[s] <= deadlineInterval[s]
      BY <1>7 DEF InSlot, Tick, Paced
    <3>1. /\ age[s] \in 0 .. (2 * Period - 1)
          /\ left[s] \in Nat
          /\ deadlineInterval[s] \in Nat /\ deadlineInterval[s] <= Period
          /\ deadlineInterval[s] <= age[s] + left[s]
          /\ left[s] <= deadlineInterval[s]
      <4>1. /\ age[s] # None
            /\ deadlineInterval[s] <= age[s] + left[s]
            /\ left[s] <= deadlineInterval[s]
        BY DEF TimingInv, DeadlineInSlot
      <4>2. deadlineInterval[s] \in Intervals
        BY DEF TypeOK
      <4>3. age[s] \in 0 .. (2 * Period - 1) /\ left[s] \in Nat
        BY <4>1, IntervalsAssumption DEF TypeOK
      <4> QED BY <4>1, <4>2, <4>3, IntervalsAssumption
    <3>2. /\ age'[s] = Older(age[s])
          /\ left'[s] = IF left[s] = 0 THEN 0 ELSE left[s] - 1
      BY <1>7, <3>1, NoneAssumption DEF Tick
    <3> QED BY <2>1, <3>1, <3>2, NoneAssumption, IntervalsAssumption
  <2>3. FrameHasAttempt'
    BY <1>7, <2>1, NoneAssumption DEF Tick, TimingInv, FrameHasAttempt, TypeOK
  <2> QED BY <2>2, <2>3 DEF TimingInv, DeadlineInSlot, InSlot
<1>8. ASSUME NEW s \in Schedulers, Create(s) PROVE TimingInv'
  BY <1>8, NoneAssumption DEF Create, TypeOK, TimingInv,
         FrameHasAttempt, DeadlineInSlot, Paced
<1>9. ASSUME NEW s \in Schedulers, Run(s) PROVE TimingInv'
  BY <1>9, NoneAssumption DEF Run, Goto, TypeOK, TimingInv,
         FrameHasAttempt, DeadlineInSlot, Paced
<1>10. ASSUME NEW s \in Schedulers, Close(s) PROVE TimingInv'
  BY <1>10, NoneAssumption DEF Close, TypeOK, TimingInv,
         FrameHasAttempt, DeadlineInSlot, Paced
<1>11. ASSUME NEW s \in Schedulers, Cancelled(s) PROVE TimingInv'
  BY <1>11, NoneAssumption DEF Cancelled, Leave, Goto, TypeOK,
         TimingInv, FrameHasAttempt, DeadlineInSlot, Paced
<1>12. ASSUME NEW s \in Schedulers, LoopExit(s) PROVE TimingInv'
  BY <1>12, NoneAssumption DEF LoopExit, Leave, Goto, TypeOK, TimingInv,
         FrameHasAttempt, DeadlineInSlot, Paced
<1>13. ASSUME NEW s \in Schedulers, LoopIdle(s) PROVE TimingInv'
  BY <1>13, NoneAssumption DEF LoopIdle, AtLoop, Goto, TypeOK,
         TimingInv, FrameHasAttempt, DeadlineInSlot, Paced
<1>14. ASSUME NEW s \in Schedulers, LoopWait(s) PROVE TimingInv'
  <2>1. age[s] \in Nat
    BY <1>14 DEF LoopWait, Due, TypeOK
  <2>2. InSlot(s)'
    <3>1. CASE NeedsRebase(s)
      BY <1>14, <2>1, <3>1, ScheduledInSlot
         DEF LoopWait, NextDeadline, ScheduleNext, TypeOK
    <3>2. CASE ~NeedsRebase(s)
      <4>1. left'[s] = left[s] /\ deadlineInterval'[s] = deadlineInterval[s]
        BY <1>14, <3>2 DEF LoopWait, NextDeadline, NeedsRebase, TypeOK
      <4>2. InSlot(s)
        BY DEF TimingInv, DeadlineInSlot, InSlot
      <4> QED BY <1>14, <4>1, <4>2 DEF LoopWait, AtLoop, InSlot, Paced
    <3> QED BY <3>1, <3>2
  <2>3. phase'[s] = "wait"
    BY <1>14 DEF LoopWait, Goto, TypeOK
  <2> QED BY <1>14, <2>2, <2>3, OthersInSlot
          DEF LoopWait, Goto, TypeOK
<1>15. ASSUME NEW s \in Schedulers, IdleWake(s) PROVE TimingInv'
  BY <1>15, NoneAssumption DEF IdleWake, AtLoop, Goto, TypeOK,
         TimingInv, FrameHasAttempt, DeadlineInSlot, Paced
<1>16. ASSUME NEW s \in Schedulers, WaitDeadline(s) PROVE TimingInv'
  BY <1>16, NoneAssumption DEF WaitDeadline, Goto, TypeOK, TimingInv,
         FrameHasAttempt, DeadlineInSlot, Paced
<1>17. ASSUME NEW s \in Schedulers, WaitSignal(s) PROVE TimingInv'
  BY <1>17, NoneAssumption DEF WaitSignal, Goto, TypeOK, TimingInv,
         FrameHasAttempt, DeadlineInSlot, Paced
<1>18. ASSUME NEW s \in Schedulers, SleepDone(s) PROVE TimingInv'
  BY <1>18, NoneAssumption DEF SleepDone, Goto, TypeOK, TimingInv,
         FrameHasAttempt, DeadlineInSlot, Paced
<1>19. ASSUME NEW s \in Schedulers, RenderStart(s) PROVE TimingInv'
  <2>1. phase'[s] = "render" /\ age'[s] = 0
    BY <1>19 DEF RenderStart, Goto, Attempted, TypeOK
  <2>2. InSlot(s)'
    BY <2>1 DEF InSlot, Paced
  <2> QED BY <1>19, <2>1, <2>2, OthersInSlot, NoneAssumption
          DEF RenderStart, Goto, Attempted, TypeOK
<1>20. ASSUME NEW s \in Schedulers, RenderRefused(s) PROVE TimingInv'
  <2>1. age'[s] = 0 /\ phase'[s] = phase[s]
    BY <1>20 DEF RenderRefused, Attempted, TypeOK
  <2>2. InSlot(s)'
    BY <1>20, <2>1, ScheduledInSlot DEF RenderRefused
  <2> QED BY <1>20, <2>1, <2>2, OthersInSlot, NoneAssumption
          DEF RenderRefused, Attempted, ScheduleNext, TypeOK
<1>21. ASSUME NEW s \in Schedulers, RenderPoisoned(s) PROVE TimingInv'
  <2>1. phase'[s] = "done"
    BY <1>21 DEF RenderPoisoned, Leave, Goto, TypeOK
  <2>2. InSlot(s)'
    BY <2>1 DEF InSlot, Paced
  <2> QED BY <1>21, <2>1, <2>2, OthersInSlot
          DEF RenderPoisoned, Leave, Goto, Attempted, TypeOK
<1>22. ASSUME NEW s \in Schedulers, FrameRendered(s) PROVE TimingInv'
  <2>1. AfterFrame(s, {}) /\ age' = age /\ age[s] \in Nat
    BY <1>22 DEF FrameRendered, TimingInv, FrameHasAttempt, TypeOK
  <2> QED BY <2>1, FrameEndsInSlot
<1>23. ASSUME NEW s \in Schedulers, FrameRetried(s) PROVE TimingInv'
  <2>1. AfterFrame(s, WokenByRequest) /\ age' = age /\ age[s] \in Nat
    BY <1>23 DEF FrameRetried, TimingInv, FrameHasAttempt, TypeOK
  <2> QED BY <2>1, FrameEndsInSlot
<1>24. ASSUME NEW s \in Schedulers, FrameOutputFailed(s) PROVE TimingInv'
  BY <1>24, NoneAssumption DEF FrameOutputFailed, Leave, Goto, TypeOK,
         TimingInv, FrameHasAttempt, DeadlineInSlot, Paced
<1>25. ASSUME NEW s \in Schedulers, FrameRaised(s) PROVE TimingInv'
  BY <1>25, NoneAssumption DEF FrameRaised, Leave, Goto, TypeOK,
         TimingInv, FrameHasAttempt, DeadlineInSlot, Paced
<1>26. ASSUME NEW s \in Schedulers, NEW i \in Intervals,
              SetTargetFramesPerSecond(s, i)
       PROVE  TimingInv'
  BY <1>26, NoneAssumption DEF SetTargetFramesPerSecond, SetRate,
         TypeOK, TimingInv, FrameHasAttempt, DeadlineInSlot, Paced
<1>27. ASSUME NEW s \in Schedulers, NEW i \in Intervals,
              SetMaxFramesPerSecond(s, i)
       PROVE  TimingInv'
  BY <1>27, NoneAssumption DEF SetMaxFramesPerSecond, SetRate, TypeOK,
         TimingInv, FrameHasAttempt, DeadlineInSlot, Paced
<1>28. CASE UNCHANGED vars
  BY <1>28 DEF vars, TypeOK, TimingInv, FrameHasAttempt, DeadlineInSlot, Paced
<1> QED BY <1>1, <1>2, <1>3, <1>4, <1>5, <1>6, <1>7, <1>8, <1>9, <1>10,
           <1>11, <1>12, <1>13, <1>14, <1>15, <1>16, <1>17, <1>18, <1>19,
           <1>20, <1>21, <1>22, <1>23, <1>24, <1>25, <1>26, <1>27, <1>28
           DEF Next, RunnerStep, FrameEnd

-----------------------------------------------------------------------------
(* The inductive invariant. *)
SchedulerInv == TypeOK /\ LinkInv /\ TimingInv

(* The inductive invariant holds initially ... *)
LEMMA SchedulerInvInit == Init => SchedulerInv
<1> SUFFICES ASSUME Init PROVE SchedulerInv
  OBVIOUS
<1>1. LinkInv
  BY NoneAssumption DEF Init, LinkInv, AbsentIsOpen, WakeupWired, Open,
                        NoLostWakeup, NoStaleWait
<1>2. TimingInv
  BY DEF Init, TimingInv, FrameHasAttempt, DeadlineInSlot
<1> QED BY <1>1, <1>2, TypeInit DEF SchedulerInv

(* ... and every step keeps it. *)
LEMMA SchedulerInvStep == SchedulerInv /\ [Next]_vars => SchedulerInv'
BY TypeStep, LinkStep, TimingStep DEF SchedulerInv, TimingInv

(* The invariant holds in every reachable state, with any number of          *)
(* schedulers attached, closed, cancelled and replaced in any order.         *)
LEMMA SchedulerInvariant == Spec => []SchedulerInv
BY SchedulerInvInit, SchedulerInvStep, PTL DEF Spec

(* The scheduler's state stays in its types. *)
THEOREM SchedulerTypeCorrect == Spec => []TypeOK
<1>1. SchedulerInv => TypeOK
  BY DEF SchedulerInv
<1> QED BY <1>1, SchedulerInvariant, PTL

(* A scheduler is open exactly while the context holds its wakeup.           *)
THEOREM SchedulerWakeupWired == Spec => []WakeupWired
<1>1. SchedulerInv => WakeupWired
  BY DEF SchedulerInv, LinkInv
<1> QED BY <1>1, SchedulerInvariant, PTL

(* No request, live owner or close is missed by an idle runner.              *)
THEOREM SchedulerNoLostWakeup == Spec => []NoLostWakeup
<1>1. SchedulerInv => NoLostWakeup
  BY DEF SchedulerInv, LinkInv
<1> QED BY <1>1, SchedulerInvariant, PTL

(* No change of cadence is missed by a runner that waits on a deadline.      *)
THEOREM SchedulerNoStaleWait == Spec => []NoStaleWait
<1>1. SchedulerInv => NoStaleWait
  BY DEF SchedulerInv, LinkInv
<1> QED BY <1>1, SchedulerInvariant, PTL

(* A deadline lies in the slot that follows its attempt.                     *)
THEOREM SchedulerDeadlineInSlot == Spec => []DeadlineInSlot
<1>1. SchedulerInv => DeadlineInSlot
  BY DEF SchedulerInv, TimingInv
<1> QED BY <1>1, SchedulerInvariant, PTL

(* Two attempts of a scheduler are at least the interval in force apart,     *)
(* whatever the frames, the owners and the rates did in between: a           *)
(* persistent failure cannot become a hot loop.                              *)
THEOREM SchedulerPacedAttempts == Spec => []PacedAttempts
<1>1. SchedulerInv => PacedAttempts
  <2> SUFFICES ASSUME SchedulerInv, NEW s \in Schedulers, AtAttempt(s),
                      age[s] # None
               PROVE  IntervalFor(s) <= age[s]
    BY DEF PacedAttempts
  <2>1. age[s] \in Nat /\ NextDeadline(s) = 0
    BY DEF AtAttempt, Due, SchedulerInv, TypeOK
  <2>2. CASE NeedsRebase(s)
    <3>1. AdvanceDeadline(IntervalFor(s), age[s]) \in 1 .. IntervalFor(s)
      BY <2>1, IntervalTyped, AdvanceInSlot DEF SchedulerInv
    <3> QED BY <2>1, <2>2, <3>1, IntervalTyped DEF NextDeadline, SchedulerInv
  <2>3. CASE ~NeedsRebase(s)
    <3>1. left[s] = 0 /\ deadlineInterval[s] = IntervalFor(s)
      BY <2>1, <2>3 DEF NextDeadline, NeedsRebase
    <3>2. IntervalFor(s) \in Nat
      BY IntervalTyped DEF SchedulerInv
    <3>3. deadlineInterval[s] <= age[s] + left[s]
      BY <3>1, <3>2, NoneAssumption
         DEF SchedulerInv, TimingInv, DeadlineInSlot, Paced, AtAttempt, AtLoop
    <3> QED BY <2>1, <3>1, <3>2, <3>3
  <2> QED BY <2>2, <2>3
<1> QED BY <1>1, SchedulerInvariant, PTL

(* A pending request is taken by the start of a frame or by the teardown of  *)
(* the renderer, by no other step: whatever ends a frame leaves a request    *)
(* that was made while it ran, or puts back the one it had taken.            *)
LEMMA RequestKeptStep ==
    ASSUME TypeOK, [Next]_vars, requested, ~requested'
    PROVE  \/ contextClosed'
           \/ \E s \in Schedulers : phase[s] = "loop" /\ phase'[s] = "render"
<1>1. CASE RequestRender \/ RequestLive \/ DropLive
  BY <1>1 DEF RequestRender, RequestLive, DropLive
<1>2. CASE BeginDestroy \/ OutputFails \/ Tick \/ UNCHANGED vars
  BY <1>2 DEF BeginDestroy, OutputFails, Tick, vars
<1>3. CASE FinishDestroy
  BY <1>3 DEF FinishDestroy
<1>4. ASSUME NEW s \in Schedulers, Create(s) \/ Run(s) \/ Close(s) \/ Cancelled(s)
      PROVE  FALSE
  BY <1>4 DEF Create, Run, Close, Cancelled
<1>5. ASSUME NEW s \in Schedulers, NEW i \in Intervals,
             SetTargetFramesPerSecond(s, i) \/ SetMaxFramesPerSecond(s, i)
      PROVE  FALSE
  BY <1>5 DEF SetTargetFramesPerSecond, SetMaxFramesPerSecond, SetRate
<1>6. ASSUME NEW s \in Schedulers, RunnerStep(s)
      PROVE  phase[s] = "loop" /\ phase'[s] = "render"
  <2>1. CASE RenderStart(s)
    BY <2>1 DEF RenderStart, AtAttempt, AtLoop, Goto, TypeOK
  <2>2. CASE LoopExit(s) \/ LoopIdle(s) \/ LoopWait(s)
    BY <2>2 DEF LoopExit, LoopIdle, LoopWait
  <2>3. CASE IdleWake(s) \/ WaitDeadline(s) \/ WaitSignal(s) \/ SleepDone(s)
    BY <2>3 DEF IdleWake, WaitDeadline, WaitSignal, SleepDone
  <2>4. CASE RenderRefused(s) \/ RenderPoisoned(s)
    BY <2>4 DEF RenderRefused, RenderPoisoned
  <2> QED BY <1>6, <2>1, <2>2, <2>3, <2>4 DEF RunnerStep
<1>7. ASSUME NEW s \in Schedulers, FrameEnd(s)
      PROVE  FALSE
  BY <1>7 DEF FrameEnd, FrameRendered, FrameRetried, FrameOutputFailed, FrameRaised
<1> QED BY <1>1, <1>2, <1>3, <1>4, <1>5, <1>6, <1>7 DEF Next

(* No request is dropped: the action property of the coalesced request.      *)
THEOREM SchedulerRequestKept == Spec => RequestKept
<1>1. SchedulerInv => TypeOK
  BY DEF SchedulerInv
<1>2. TypeOK /\ [Next]_vars =>
        [requested /\ ~requested' =>
           \/ contextClosed'
           \/ \E s \in Schedulers : phase[s] = "loop" /\ phase'[s] = "render"
        ]_vars
  BY RequestKeptStep
<1> QED BY <1>1, <1>2, SchedulerInvariant, PTL DEF Spec, RequestKept

-----------------------------------------------------------------------------
(* A frame.  The list of commands is balanced: whatever it pushes it pops    *)
(* again.  From that follow the stacks at each of its commands.              *)

(* The drawing commands, and the stacks they work on. *)
Rects == Items \X Sizes
Command == [op : {"render", "push_opacity"}, item : Items]
           \cup [op : {"push_scissor"}, rect : Rects]
           \cup [op : {"pop_opacity", "pop_scissor"}]
Clips == Seq(Rects)
Fades == Seq(Items)
ClipStep == [c \in Command |-> [s \in Clips |-> ClipAfter(s, c)]]
FadeStep == [c \in Command |-> [s \in Fades |-> FadeAfter(s, c)]]

(* Executed on the stack s, cs leaves the stack t. *)
Leads(S, step, cs, s, t) ==
    \A f : Runs(S, step, cs, f) /\ f[0] = s => f[Len(cs)] = t

(* cs pops what it pushes, and nothing else. *)
Balanced(S, step, cs) == \A s \in S : Leads(S, step, cs, s, s)

(* No command leaves a stack as it is. *)
LEMMA LeadsEmpty ==
    ASSUME NEW S, NEW step, NEW s PROVE Leads(S, step, <<>>, s, s)
  BY DEF Leads, Runs

(* One command does one step. *)
LEMMA LeadsOne ==
    ASSUME NEW S, NEW step, NEW c, NEW s, NEW t, step[c][s] = t
    PROVE  Leads(S, step, <<c>>, s, t)
<1> SUFFICES ASSUME NEW f, Runs(S, step, <<c>>, f), f[0] = s PROVE f[Len(<<c>>)] = t
  BY DEF Leads
<1>1. Len(<<c>>) = 1 /\ <<c>>[1] = c
  OBVIOUS
<1> QED BY <1>1 DEF Runs

(* What two lists of commands do, one after the other. *)
LEMMA LeadsConcat ==
    ASSUME NEW C, NEW S, NEW step, NEW a \in Seq(C), NEW b \in Seq(C),
           NEW s, NEW t, NEW u, Leads(S, step, a, s, t), Leads(S, step, b, t, u)
    PROVE  Leads(S, step, a \o b, s, u)
<1> SUFFICES ASSUME NEW f, Runs(S, step, a \o b, f), f[0] = s PROVE f[Len(a \o b)] = u
  BY DEF Leads
<1>1. Len(a) \in Nat /\ Len(b) \in Nat /\ Len(a \o b) = Len(a) + Len(b)
  OBVIOUS
<1>2. /\ \A n \in 1 .. Len(a) : (a \o b)[n] = a[n]
      /\ \A n \in 1 .. Len(b) : (a \o b)[Len(a) + n] = b[n]
  <2>1. \A n \in 1 .. Len(a) + Len(b) :
            (a \o b)[n] = IF n <= Len(a) THEN a[n] ELSE b[n - Len(a)]
    BY ConcatProperties
  <2>2. ASSUME NEW n \in 1 .. Len(b) PROVE (a \o b)[Len(a) + n] = b[n]
    <3>1. Len(a) + n \in 1 .. Len(a) + Len(b) /\ ~(Len(a) + n <= Len(a))
          /\ (Len(a) + n) - Len(a) = n
      BY <1>1
    <3> QED BY <2>1, <3>1
  <2>3. ASSUME NEW n \in 1 .. Len(a) PROVE (a \o b)[n] = a[n]
    <3>1. n \in 1 .. Len(a) + Len(b) /\ n <= Len(a)
      BY <1>1
    <3> QED BY <2>1, <3>1
  <2> QED BY <2>2, <2>3
<1>3. /\ f \in [0 .. Len(a) + Len(b) -> S]
      /\ \A n \in 1 .. Len(a) + Len(b) : f[n] = step[(a \o b)[n]][f[n - 1]]
  BY <1>1 DEF Runs
<1> DEFINE g == [n \in 0 .. Len(a) |-> f[n]]
           h == [n \in 0 .. Len(b) |-> f[Len(a) + n]]
<1>4. Runs(S, step, a, g) /\ g[0] = s
  <2>1. g \in [0 .. Len(a) -> S] /\ g[0] = s
    BY <1>1, <1>3
  <2>2. ASSUME NEW n \in 1 .. Len(a) PROVE g[n] = step[a[n]][g[n - 1]]
    <3>1. n \in 1 .. Len(a) + Len(b) /\ n \in 0 .. Len(a) /\ n - 1 \in 0 .. Len(a)
      BY <1>1
    <3>2. f[n] = step[a[n]][f[n - 1]]
      BY <1>2, <1>3, <3>1
    <3> QED BY <3>1, <3>2
  <2> QED BY <2>1, <2>2 DEF Runs
<1>5. g[Len(a)] = t
  BY <1>4 DEF Leads
<1>6. Runs(S, step, b, h) /\ h[0] = t
  <2>1. h \in [0 .. Len(b) -> S]
    BY <1>1, <1>3
  <2>2. h[0] = t
    BY <1>1, <1>5
  <2>3. ASSUME NEW n \in 1 .. Len(b) PROVE h[n] = step[b[n]][h[n - 1]]
    <3>1. /\ Len(a) + n \in 1 .. Len(a) + Len(b) /\ n \in 0 .. Len(b)
          /\ n - 1 \in 0 .. Len(b)
          /\ (Len(a) + n) - 1 = Len(a) + (n - 1)
      BY <1>1
    <3>2. f[Len(a) + n] = step[b[n]][f[(Len(a) + n) - 1]]
      BY <1>2, <1>3, <3>1
    <3> QED BY <3>1, <3>2
  <2> QED BY <2>1, <2>2, <2>3 DEF Runs
<1>7. h[Len(b)] = u
  BY <1>6 DEF Leads
<1> QED BY <1>1, <1>7

(* The concatenation of a sequence of sequences, one after the other. *)
LEMMA FlattenSteps ==
    ASSUME NEW C, NEW ss \in Seq(Seq(C)), Len(ss) # 0
    PROVE  \E g \in [1 .. Len(ss) -> Seq(C)] :
              /\ g[1] = ss[1]
              /\ \A i \in 2 .. Len(ss) : g[i] = g[i - 1] \o ss[i]
              /\ FlattenSeq(ss) = g[Len(ss)]
<1> DEFINE Step(g) == [i \in 1 .. Len(ss) |->
                          IF i = 1 THEN ss[i] ELSE g[i - 1] \o ss[i]]
<1>1. Len(ss) \in Nat /\ Len(ss) >= 1 /\ \A i \in 1 .. Len(ss) : ss[i] \in Seq(C)
  OBVIOUS
<1>2. \E g \in [1 .. Len(ss) -> Seq(C)] : g = Step(g)
  <2> DEFINE step == [n \in Nat |-> [s \in Seq(C) |->
                          IF n + 2 <= Len(ss) THEN s \o ss[n + 2] ELSE s]]
  <2>1. step \in [Nat -> [Seq(C) -> Seq(C)]]
    <3>1. ASSUME NEW n \in Nat, NEW s \in Seq(C)
          PROVE  (IF n + 2 <= Len(ss) THEN s \o ss[n + 2] ELSE s) \in Seq(C)
      <4>1. CASE n + 2 <= Len(ss)
        <5>1. ss[n + 2] \in Seq(C)
          BY <1>1, <4>1
        <5> QED BY <4>1, <5>1
      <4> QED BY <4>1
    <3> QED BY <3>1
  <2>2. \A n \in Nat, s \in Seq(C) : n + 2 <= Len(ss) => step[n][s] = s \o ss[n + 2]
    OBVIOUS
  <2> HIDE DEF step
  <2>3. PICK f \in [Nat -> Seq(C)] :
              f[0] = ss[1] /\ \A n \in Nat : f[n + 1] = step[n][f[n]]
    <3> DEFINE Q == Seq(C)
               x == ss[1]
    <3>1. x \in Q
      BY <1>1
    <3>2. step \in [Nat -> [Q -> Q]]
      BY <2>1
    <3> HIDE DEF Q, x
    <3>3. \E f : Continues(f, Q, x, step)
      BY <3>1, <3>2, Recursion
    <3> QED BY <3>3 DEF Continues, Q, x
  <2> DEFINE g == [i \in 1 .. Len(ss) |-> f[i - 1]]
  <2>4. g \in [1 .. Len(ss) -> Seq(C)] /\ g[1] = ss[1]
    <3>1. 1 \in 1 .. Len(ss) /\ 1 - 1 = 0
      BY <1>1
    <3>2. g[1] = f[0]
      BY <3>1
    <3>3. ASSUME NEW i \in 1 .. Len(ss) PROVE f[i - 1] \in Seq(C)
      <4>1. i - 1 \in Nat
        OBVIOUS
      <4> QED BY <2>3, <4>1
    <3> QED BY <2>3, <3>2, <3>3
  <2>5. ASSUME NEW i \in 1 .. Len(ss), i # 1 PROVE g[i] = g[i - 1] \o ss[i]
    <3>1. i - 2 \in Nat /\ (i - 2) + 2 = i /\ (i - 2) + 1 = i - 1 /\ i <= Len(ss)
          /\ i - 1 \in 1 .. Len(ss) /\ (i - 1) - 1 = i - 2
      BY <1>1, <2>5
    <3>2. f[i - 1] = step[i - 2][f[i - 2]]
      BY <2>3, <3>1
    <3>3. f[i - 2] \in Seq(C)
      BY <2>3, <3>1
    <3>4. step[i - 2][f[i - 2]] = f[i - 2] \o ss[i]
      BY <2>2, <3>1, <3>3
    <3> QED BY <3>1, <3>2, <3>4
  <2> HIDE DEF g
  <2>6. g = Step(g)
    BY <2>4, <2>5
  <2> QED BY <2>4, <2>6
<1> DEFINE g == CHOOSE g : g = [i \in 1 .. Len(ss) |->
                                    IF i = 1 THEN ss[i] ELSE g[i - 1] \o ss[i]]
<1>3. g = Step(g)
  BY <1>2, Zenon
<1>4. FlattenSeq(ss) = g[Len(ss)]
  BY DEF FlattenSeq
<1> HIDE DEF g
<1>5. /\ DOMAIN g = 1 .. Len(ss) /\ g[1] = ss[1]
      /\ \A i \in 2 .. Len(ss) : g[i] = g[i - 1] \o ss[i]
  <2>1. DOMAIN g = 1 .. Len(ss)
    BY <1>3
  <2>2. \A i \in 1 .. Len(ss) : g[i] = IF i = 1 THEN ss[i] ELSE g[i - 1] \o ss[i]
    BY <1>3
  <2>3. 1 \in 1 .. Len(ss) /\ \A i \in 2 .. Len(ss) : i \in 1 .. Len(ss) /\ i # 1
    BY <1>1
  <2> QED BY <2>1, <2>2, <2>3
<1>6. g \in [1 .. Len(ss) -> Seq(C)]
  <2> DEFINE A == {n \in Nat : n + 1 \in 1 .. Len(ss) => g[n + 1] \in Seq(C)}
  <2>1. 0 \in A
    BY <1>1, <1>5
  <2>2. ASSUME NEW n \in Nat, n \in A PROVE n + 1 \in A
    <3>1. CASE (n + 1) + 1 \in 1 .. Len(ss)
      <4>1. n + 1 \in 1 .. Len(ss) /\ (n + 1) + 1 \in 2 .. Len(ss)
            /\ ((n + 1) + 1) - 1 = n + 1
        BY <1>1, <3>1
      <4>2. g[n + 1] \in Seq(C) /\ ss[(n + 1) + 1] \in Seq(C)
        BY <1>1, <2>2, <3>1, <4>1
      <4>3. g[(n + 1) + 1] = g[n + 1] \o ss[(n + 1) + 1]
        BY <1>5, <4>1
      <4>4. g[n + 1] \o ss[(n + 1) + 1] \in Seq(C)
        BY <4>2, ConcatProperties
      <4>5. g[(n + 1) + 1] \in Seq(C)
        BY <4>3, <4>4
      <4> QED BY <4>5
    <3> QED BY <3>1
  <2> HIDE DEF A
  <2>3. Nat \subseteq A
    BY <2>1, <2>2, InductionOnSet
  <2>4. ASSUME NEW i \in 1 .. Len(ss) PROVE g[i] \in Seq(C)
    <3>1. i - 1 \in Nat /\ (i - 1) + 1 = i
      OBVIOUS
    <3> QED BY <2>3, <3>1 DEF A
  <2>5. g = [i \in 1 .. Len(ss) |-> g[i]]
    BY <1>3
  <2> QED BY <2>4, <2>5
<1> QED BY <1>4, <1>5, <1>6

(* A concatenation of sequences that are balanced is balanced. *)
LEMMA FlattenBalanced ==
    ASSUME NEW C, NEW ss \in Seq(Seq(C)), NEW S, NEW step,
           \A i \in 1 .. Len(ss) : Balanced(S, step, ss[i])
    PROVE  FlattenSeq(ss) \in Seq(C) /\ Balanced(S, step, FlattenSeq(ss))
<1>1. CASE Len(ss) = 0
  <2>1. FlattenSeq(ss) = <<>>
    BY <1>1 DEF FlattenSeq
  <2> QED BY <2>1, LeadsEmpty DEF Balanced
<1>2. CASE Len(ss) # 0
  <2>1. PICK g \in [1 .. Len(ss) -> Seq(C)] :
              /\ g[1] = ss[1]
              /\ \A i \in 2 .. Len(ss) : g[i] = g[i - 1] \o ss[i]
              /\ FlattenSeq(ss) = g[Len(ss)]
    BY <1>2, FlattenSteps
  <2>2. Len(ss) \in Nat /\ Len(ss) >= 1 /\ \A i \in 1 .. Len(ss) : ss[i] \in Seq(C)
    BY <1>2
  <2> DEFINE A == {n \in Nat : n + 1 \in 1 .. Len(ss) => Balanced(S, step, g[n + 1])}
  <2>3. 0 \in A
    BY <2>1, <2>2
  <2>4. ASSUME NEW n \in Nat, n \in A PROVE n + 1 \in A
    <3>1. CASE (n + 1) + 1 \in 1 .. Len(ss)
      <4> DEFINE i == (n + 1) + 1
      <4>1. n + 1 \in 1 .. Len(ss) /\ i \in 2 .. Len(ss) /\ i \in 1 .. Len(ss)
            /\ i - 1 = n + 1
        BY <2>2, <3>1
      <4>2. Balanced(S, step, g[n + 1]) /\ Balanced(S, step, ss[i])
        BY <2>4, <4>1
      <4>3. g[i] = g[n + 1] \o ss[i] /\ g[n + 1] \in Seq(C) /\ ss[i] \in Seq(C)
        BY <2>1, <2>2, <4>1
      <4> HIDE DEF i
      <4>4. ASSUME NEW s \in S PROVE Leads(S, step, g[n + 1] \o ss[i], s, s)
        <5>1. Leads(S, step, g[n + 1], s, s) /\ Leads(S, step, ss[i], s, s)
          BY <4>2 DEF Balanced
        <5> QED BY <4>3, <5>1, LeadsConcat
      <4>5. Balanced(S, step, g[i])
        BY <4>3, <4>4 DEF Balanced
      <4> QED BY <4>5 DEF i
    <3> QED BY <3>1
  <2> HIDE DEF A
  <2>5. Nat \subseteq A
    BY <2>3, <2>4, InductionOnSet
  <2>6. Len(ss) - 1 \in Nat /\ (Len(ss) - 1) + 1 = Len(ss) /\ Len(ss) \in 1 .. Len(ss)
    BY <2>2
  <2> QED BY <2>1, <2>5, <2>6 DEF A
<1> QED BY <1>1, <1>2

(* The six parts of the commands of an item: the first and the last undo each *)
(* other, and so do the third and the fifth.                                  *)
LEMMA LeadsSix ==
    ASSUME NEW C, NEW S, NEW step, NEW s, NEW t, NEW u,
           NEW a \in Seq(C), NEW b \in Seq(C), NEW c \in Seq(C),
           NEW d \in Seq(C), NEW e \in Seq(C), NEW f \in Seq(C),
           Leads(S, step, a, s, t), Leads(S, step, b, t, t), Leads(S, step, c, t, u),
           Leads(S, step, d, u, u), Leads(S, step, e, u, t), Leads(S, step, f, t, s)
    PROVE  /\ a \o b \o c \o d \o e \o f \in Seq(C)
           /\ Leads(S, step, a \o b \o c \o d \o e \o f, s, s)
<1>1. a \o b \in Seq(C) /\ Leads(S, step, a \o b, s, t)
  BY LeadsConcat, ConcatProperties
<1>2. a \o b \o c \in Seq(C) /\ Leads(S, step, a \o b \o c, s, u)
  BY <1>1, LeadsConcat, ConcatProperties
<1>3. a \o b \o c \o d \in Seq(C) /\ Leads(S, step, a \o b \o c \o d, s, u)
  BY <1>2, LeadsConcat, ConcatProperties
<1>4. a \o b \o c \o d \o e \in Seq(C) /\ Leads(S, step, a \o b \o c \o d \o e, s, t)
  BY <1>3, LeadsConcat, ConcatProperties
<1> QED BY <1>4, LeadsConcat, ConcatProperties

(* What is pushed last is popped first. *)
LEMMA PopAppend ==
    ASSUME NEW X, NEW s \in Seq(X), NEW e \in X
    PROVE  Append(s, e) \in Seq(X) /\ PopOf(Append(s, e)) = s
<1>1. /\ Append(s, e) \in Seq(X) /\ Append(s, e) # <<>>
      /\ Len(Append(s, e)) = Len(s) + 1
      /\ Len(s) \in Nat /\ \A k \in 1 .. Len(s) : Append(s, e)[k] = s[k]
  BY AppendProperties
<1>2. Front(Append(s, e)) = SubSeq(Append(s, e), 1, Len(s))
  BY <1>1 DEF Front
<1>3. SubSeq(Append(s, e), 1, Len(s)) = s
  BY <1>1
<1> QED BY <1>1, <1>2, <1>3 DEF PopOf

(* Popping leaves a stack. *)
LEMMA PopType ==
    ASSUME NEW X, NEW s \in Seq(X) PROVE PopOf(s) \in Seq(X)
<1>1. CASE s = <<>>
  BY <1>1 DEF PopOf
<1>2. CASE s # <<>>
  BY <1>2, SubSeqProperties DEF PopOf, Front
<1> QED BY <1>1, <1>2

(* The commands, and what they do to the stacks. *)
LEMMA CommandFacts ==
    ASSUME NEW i \in Items, NEW size \in Sizes
    PROVE  /\ Render(i) \in Command /\ Push_opacity(i) \in Command
           /\ Pop_opacity \in Command
           /\ Push_scissor(i, size) \in Command /\ Pop_scissor \in Command
  BY DEF Command, Rects, Render, Push_opacity, Pop_opacity, Push_scissor, Pop_scissor

(* What the commands do to the clipping rectangles. *)
LEMMA ClipSteps ==
    ASSUME NEW i \in Items, NEW size \in Sizes, NEW s \in Clips
    PROVE  /\ ClipStep[Render(i)][s] = s
           /\ ClipStep[Push_opacity(i)][s] = s /\ ClipStep[Pop_opacity][s] = s
           /\ Append(s, <<i, size>>) \in Clips
           /\ ClipStep[Push_scissor(i, size)][s] = Append(s, <<i, size>>)
           /\ ClipStep[Pop_scissor][Append(s, <<i, size>>)] = s
<1>1. \A c \in Command, t \in Clips : ClipStep[c][t] = ClipAfter(t, c)
  BY DEF ClipStep
<1>2. <<i, size>> \in Rects
  BY DEF Rects
<1>3. Append(s, <<i, size>>) \in Clips /\ PopOf(Append(s, <<i, size>>)) = s
  BY <1>2, PopAppend DEF Clips
<1>4. /\ ClipAfter(s, Render(i)) = s
      /\ ClipAfter(s, Push_opacity(i)) = s /\ ClipAfter(s, Pop_opacity) = s
      /\ ClipAfter(s, Push_scissor(i, size)) = Append(s, <<i, size>>)
      /\ \A t : ClipAfter(t, Pop_scissor) = PopOf(t)
  BY DEF ClipAfter, Render, Push_opacity, Pop_opacity, Push_scissor, Pop_scissor
<1> QED BY <1>1, <1>3, <1>4, CommandFacts

(* What the commands do to the opacities. *)
LEMMA FadeSteps ==
    ASSUME NEW i \in Items, NEW size \in Sizes, NEW s \in Fades
    PROVE  /\ FadeStep[Render(i)][s] = s
           /\ FadeStep[Push_scissor(i, size)][s] = s /\ FadeStep[Pop_scissor][s] = s
           /\ Append(s, i) \in Fades
           /\ FadeStep[Push_opacity(i)][s] = Append(s, i)
           /\ FadeStep[Pop_opacity][Append(s, i)] = s
<1>1. \A c \in Command, t \in Fades : FadeStep[c][t] = FadeAfter(t, c)
  BY DEF FadeStep
<1>3. Append(s, i) \in Fades /\ PopOf(Append(s, i)) = s
  BY PopAppend DEF Fades
<1>4. /\ FadeAfter(s, Render(i)) = s
      /\ FadeAfter(s, Push_scissor(i, size)) = s /\ FadeAfter(s, Pop_scissor) = s
      /\ FadeAfter(s, Push_opacity(i)) = Append(s, i)
      /\ \A t : FadeAfter(t, Pop_opacity) = PopOf(t)
  BY DEF FadeAfter, Render, Push_opacity, Pop_opacity, Push_scissor, Pop_scissor
<1> QED BY <1>1, <1>3, <1>4, CommandFacts

(* A command leaves a stack of the same type. *)
LEMMA StepTypes ==
    ASSUME NEW c \in Command
    PROVE  /\ \A s \in Clips : ClipAfter(s, c) \in Clips
           /\ \A s \in Fades : FadeAfter(s, c) \in Fades
<1>1. /\ c.op = "push_scissor" => c.rect \in Rects
      /\ c.op = "push_opacity" => c.item \in Items
  BY DEF Command
<1>2. ASSUME NEW s \in Clips PROVE ClipAfter(s, c) \in Clips
  <2>1. c.op = "push_scissor" => Append(s, c.rect) \in Clips
    BY <1>1, AppendProperties DEF Clips
  <2>2. PopOf(s) \in Clips
    BY PopType DEF Clips
  <2> QED BY <2>1, <2>2 DEF ClipAfter
<1>3. ASSUME NEW s \in Fades PROVE FadeAfter(s, c) \in Fades
  <2>1. c.op = "push_opacity" => Append(s, c.item) \in Fades
    BY <1>1, AppendProperties DEF Fades
  <2>2. PopOf(s) \in Fades
    BY PopType DEF Fades
  <2> QED BY <2>1, <2>2 DEF FadeAfter
<1> QED BY <1>2, <1>3

(* A list of commands that leaves both stacks as they were. *)
BothBalanced(cs) ==
    /\ cs \in Seq(Command)
    /\ Balanced(Clips, ClipStep, cs)
    /\ Balanced(Fades, FadeStep, cs)

(* No commands leave both stacks as they were. *)
LEMMA EmptyBalanced == BothBalanced(<<>>)
  BY LeadsEmpty DEF BothBalanced, Balanced

(* The commands of an item pop what they push when those inside it do. *)
LEMMA ItemBalanced ==
    ASSUME NEW i \in Items, NEW size \in Sizes, NEW inner, BothBalanced(inner)
    PROVE  BothBalanced(CommandsOf(i, size, inner))
<1> DEFINE a == If(i \in faded, <<Push_opacity(i)>>)
           b == <<Render(i)>>
           c == If(i \in clipped, <<Push_scissor(i, size)>>)
           e == If(i \in clipped, <<Pop_scissor>>)
           f == If(i \in faded, <<Pop_opacity>>)
<1>1. /\ a \in Seq(Command) /\ b \in Seq(Command) /\ c \in Seq(Command)
      /\ e \in Seq(Command) /\ f \in Seq(Command) /\ inner \in Seq(Command)
  BY CommandFacts DEF If, BothBalanced
<1>2. CommandsOf(i, size, inner) = a \o b \o c \o inner \o e \o f
  BY DEF CommandsOf
<1>3. ASSUME NEW s \in Clips
      PROVE  /\ a \o b \o c \o inner \o e \o f \in Seq(Command)
             /\ Leads(Clips, ClipStep, a \o b \o c \o inner \o e \o f, s, s)
  <2> DEFINE u == IF i \in clipped THEN Append(s, <<i, size>>) ELSE s
  <2>1. u \in Clips
    BY ClipSteps
  <2>2. Leads(Clips, ClipStep, a, s, s) /\ Leads(Clips, ClipStep, f, s, s)
    <3>1. Leads(Clips, ClipStep, <<Push_opacity(i)>>, s, s)
      BY ClipSteps, LeadsOne
    <3>2. Leads(Clips, ClipStep, <<Pop_opacity>>, s, s)
      BY ClipSteps, LeadsOne
    <3>3. Leads(Clips, ClipStep, <<>>, s, s)
      BY LeadsEmpty
    <3> QED BY <3>1, <3>2, <3>3 DEF If
  <2>3. Leads(Clips, ClipStep, b, s, s)
    BY ClipSteps, LeadsOne
  <2>4. Leads(Clips, ClipStep, c, s, u) /\ Leads(Clips, ClipStep, e, u, s)
    <3> DEFINE v == Append(s, <<i, size>>)
    <3>1. ClipStep[Push_scissor(i, size)][s] = v /\ ClipStep[Pop_scissor][v] = s
      BY ClipSteps
    <3>2. u = IF i \in clipped THEN v ELSE s
      OBVIOUS
    <3> HIDE DEF u, v
    <3>3. Leads(Clips, ClipStep, <<Push_scissor(i, size)>>, s, v)
      BY <3>1, LeadsOne
    <3>4. Leads(Clips, ClipStep, <<Pop_scissor>>, v, s)
      BY <3>1, LeadsOne
    <3>5. Leads(Clips, ClipStep, <<>>, s, s)
      BY LeadsEmpty
    <3> QED BY <3>2, <3>3, <3>4, <3>5 DEF If
  <2>5. Leads(Clips, ClipStep, inner, u, u)
    BY <2>1 DEF BothBalanced, Balanced
  <2> HIDE DEF a, b, c, e, f, u
  <2> QED BY <1>1, <2>2, <2>3, <2>4, <2>5, LeadsSix
<1>4. ASSUME NEW s \in Fades
      PROVE  Leads(Fades, FadeStep, a \o b \o c \o inner \o e \o f, s, s)
  <2> DEFINE t == IF i \in faded THEN Append(s, i) ELSE s
  <2>1. t \in Fades
    BY FadeSteps
  <2>2. Leads(Fades, FadeStep, a, s, t) /\ Leads(Fades, FadeStep, f, t, s)
    <3>1. Leads(Fades, FadeStep, <<Push_opacity(i)>>, s, Append(s, i))
      BY FadeSteps, LeadsOne
    <3>2. Leads(Fades, FadeStep, <<Pop_opacity>>, Append(s, i), s)
      BY FadeSteps, LeadsOne
    <3>3. Leads(Fades, FadeStep, <<>>, s, s)
      BY LeadsEmpty
    <3> QED BY <3>1, <3>2, <3>3 DEF If
  <2>3. Leads(Fades, FadeStep, b, t, t)
    BY <2>1, FadeSteps, LeadsOne
  <2>4. Leads(Fades, FadeStep, c, t, t) /\ Leads(Fades, FadeStep, e, t, t)
    <3> HIDE DEF t
    <3>1. Leads(Fades, FadeStep, <<Push_scissor(i, size)>>, t, t)
      BY <2>1, FadeSteps, LeadsOne
    <3>2. Leads(Fades, FadeStep, <<Pop_scissor>>, t, t)
      BY <2>1, FadeSteps, LeadsOne
    <3>3. Leads(Fades, FadeStep, <<>>, t, t)
      BY LeadsEmpty
    <3> QED BY <3>1, <3>2, <3>3 DEF If
  <2>5. Leads(Fades, FadeStep, inner, t, t)
    BY <2>1 DEF BothBalanced, Balanced
  <2> HIDE DEF a, b, c, e, f, t
  <2> QED BY <1>1, <2>2, <2>3, <2>4, <2>5, LeadsSix
<1> HIDE DEF a, b, c, e, f
<1>5. <<>> \in Clips
  BY DEF Clips
<1> QED BY <1>2, <1>3, <1>4, <1>5 DEF BothBalanced, Balanced

(* The commands of a row of items. *)
RowOf(items, size, dead, inner) ==
    [k \in DOMAIN items |-> If(items[k] \notin hidden \cup dead,
                               CommandsOf(items[k], size, inner[k]))]

(* So do the commands of a row of items. *)
LEMMA RowBalanced ==
    ASSUME NEW items \in Seq(Items), NEW size \in Sizes, NEW dead,
           NEW inner, \A k \in DOMAIN items : BothBalanced(inner[k])
    PROVE  BothBalanced(FlattenSeq(RowOf(items, size, dead, inner)))
<1> DEFINE row == RowOf(items, size, dead, inner)
<1>1. DOMAIN items = 1 .. Len(items) /\ Len(items) \in Nat
      /\ \A k \in DOMAIN items : items[k] \in Items
  OBVIOUS
<1>2. ASSUME NEW k \in DOMAIN items PROVE BothBalanced(row[k])
  <2>1. BothBalanced(CommandsOf(items[k], size, inner[k]))
    BY <1>1, ItemBalanced
  <2> QED BY <2>1, EmptyBalanced DEF RowOf, If
<1>3. row \in Seq(Seq(Command)) /\ Len(row) = Len(items)
  <2>1. \A k \in DOMAIN items : row[k] \in Seq(Command)
    BY <1>2 DEF BothBalanced
  <2>2. row = [k \in 1 .. Len(items) |-> row[k]]
    BY <1>1 DEF RowOf
  <2> HIDE DEF row
  <2>3. row \in [1 .. Len(items) -> Seq(Command)]
    BY <1>1, <2>1, <2>2
  <2> QED BY <1>1, <2>3
<1> HIDE DEF row
<1>4. \A k \in 1 .. Len(row) :
         Balanced(Clips, ClipStep, row[k]) /\ Balanced(Fades, FadeStep, row[k])
  BY <1>1, <1>2, <1>3 DEF BothBalanced
<1>5. FlattenSeq(row) \in Seq(Command) /\ Balanced(Clips, ClipStep, FlattenSeq(row))
  BY <1>3, <1>4, FlattenBalanced
<1>6. Balanced(Fades, FadeStep, FlattenSeq(row))
  BY <1>3, <1>4, FlattenBalanced
<1>7. BothBalanced(FlattenSeq(row))
  BY <1>5, <1>6 DEF BothBalanced
<1> QED BY <1>7 DEF row

(* Whatever is hidden, clipped, faded or destroyed, the commands of the tree *)
(* pop what they push.                                                       *)
LEMMA CollectBalanced ==
    ASSUME NEW size \in Sizes, NEW dead
    PROVE  BothBalanced(collect_commands(size, dead))
<1> DEFINE inner(i) == FlattenSeq(RowOf(Inner[i], size, dead,
                                        [k \in DOMAIN Inner[i] |-> <<>>]))
           tops == [k \in DOMAIN Top |-> inner(Top[k])]
<1>1. ASSUME NEW i \in Outer PROVE BothBalanced(inner(i))
  <2>1. Inner[i] \in Seq(Items)
    BY FrameConstants
  <2> QED BY <2>1, RowBalanced, EmptyBalanced
<1>2. Top \in Seq(Items) /\ \A k \in DOMAIN Top : Top[k] \in Outer
  BY FrameConstants DEF Outer, Items, Range
<1>3. \A k \in DOMAIN Top : BothBalanced(tops[k])
  BY <1>1, <1>2
<1>4. BothBalanced(FlattenSeq(RowOf(Top, size, dead, tops)))
  <2> HIDE DEF tops
  <2> QED BY <1>2, <1>3, RowBalanced
<1>5. collect_commands(size, dead) = FlattenSeq(RowOf(Top, size, dead, tops))
  BY DEF collect_commands, CollectAll, RowOf
<1> QED BY <1>4, <1>5

(* The stacks where command k of the list l is executed. *)
ClipIn(l, k) ==
    LET after[n \in 0 .. Len(l)] ==
            IF n = 0 THEN <<>> ELSE ClipAfter(after[n - 1], l[n])
    IN  after[k - 1]
FadeIn(l, k) ==
    LET after[n \in 0 .. Len(l)] ==
            IF n = 0 THEN <<>> ELSE FadeAfter(after[n - 1], l[n])
    IN  after[k - 1]

(* The stacks the properties speak of are those of the current list. *)
LEMMA StackAtIn == \A k : ClipAt(k) = ClipIn(list, k) /\ FadeAt(k) = FadeIn(list, k)
  BY DEF ClipAt, ClipIn, FadeAt, FadeIn

(* The steps of the two stacks are functions on stacks. *)
LEMMA StepFunctions ==
    /\ ClipStep \in [Command -> [Clips -> Clips]] /\ <<>> \in Clips
    /\ FadeStep \in [Command -> [Fades -> Fades]] /\ <<>> \in Fades
  BY StepTypes DEF ClipStep, FadeStep, Clips, Fades

(* The clipping rectangles along a list: none at its start, one step at each *)
(* command, and none at its end when the list is balanced.                   *)
LEMMA ClipInSteps ==
    ASSUME NEW l \in Seq(Command)
    PROVE  /\ ClipIn(l, 1) = <<>>
           /\ \A k \in 1 .. Len(l) : ClipIn(l, k + 1) = ClipAfter(ClipIn(l, k), l[k])
           /\ Balanced(Clips, ClipStep, l) => ClipIn(l, Len(l) + 1) = <<>>
<1> DEFINE Step(g) == [n \in 0 .. Len(l) |->
                          IF n = 0 THEN <<>> ELSE ClipAfter(g[n - 1], l[n])]
<1>1. Len(l) \in Nat /\ \A n \in 1 .. Len(l) : l[n] \in Command
  OBVIOUS
<1>2. \A s \in Clips, n \in 1 .. Len(l) : ClipStep[l[n]][s] = ClipAfter(s, l[n])
  BY <1>1 DEF ClipStep
<1>3. \E g : g = Step(g)
  <2> DEFINE x == <<>>
  <2>1. x \in Clips
    BY StepFunctions
  <2> HIDE DEF x
  <2>2. PICK g : Runs(Clips, ClipStep, l, g) /\ g[0] = x
    BY <2>1, StepFunctions, RunExists
  <2>3. g \in [0 .. Len(l) -> Clips]
        /\ \A n \in 1 .. Len(l) : g[n] = ClipStep[l[n]][g[n - 1]]
    BY <2>2 DEF Runs
  <2>4. ASSUME NEW n \in 1 .. Len(l) PROVE g[n] = ClipAfter(g[n - 1], l[n])
    <3>1. n - 1 \in 0 .. Len(l)
      BY <1>1
    <3> QED BY <1>2, <2>3, <3>1
  <2>5. \A n \in 0 .. Len(l) : n # 0 => n \in 1 .. Len(l)
    BY <1>1
  <2>6. g = Step(g)
    BY <2>2, <2>3, <2>4, <2>5 DEF x
  <2> QED BY <2>6
<1> DEFINE g == CHOOSE g : g = [n \in 0 .. Len(l) |->
                                    IF n = 0 THEN <<>> ELSE ClipAfter(g[n - 1], l[n])]
<1>4. g = Step(g)
  BY <1>3, Zenon
<1>5. \A k : ClipIn(l, k) = g[k - 1]
  BY DEF ClipIn
<1> HIDE DEF g
<1>6. g[0] = <<>> /\ \A n \in 1 .. Len(l) : g[n] = ClipAfter(g[n - 1], l[n])
  <2>1. \A n \in 0 .. Len(l) : g[n] = IF n = 0 THEN <<>> ELSE ClipAfter(g[n - 1], l[n])
    BY <1>4
  <2>2. 0 \in 0 .. Len(l) /\ \A n \in 1 .. Len(l) : n \in 0 .. Len(l) /\ n # 0
    BY <1>1
  <2> QED BY <2>1, <2>2
<1>7. Runs(Clips, ClipStep, l, g)
  <2>1. g = [n \in 0 .. Len(l) |-> g[n]]
    BY <1>4
  <2>2. g[0] \in Clips
    BY <1>6, StepFunctions
  <2>3. \A n \in 1 .. Len(l) : g[n - 1] \in Clips => g[n] = ClipStep[l[n]][g[n - 1]]
    BY <1>2, <1>6
  <2> QED BY <2>1, <2>2, <2>3, StepFunctions, RunTyped
<1>8. Balanced(Clips, ClipStep, l) => g[Len(l)] = <<>>
  BY <1>6, <1>7, StepFunctions DEF Balanced, Leads
<1>9. ASSUME NEW k \in 1 .. Len(l)
      PROVE  ClipIn(l, k + 1) = ClipAfter(ClipIn(l, k), l[k])
  <2>1. (k + 1) - 1 = k
    OBVIOUS
  <2> QED BY <1>5, <1>6, <2>1
<1>10. ClipIn(l, 1) = <<>> /\ ClipIn(l, Len(l) + 1) = g[Len(l)]
  <2>1. 1 - 1 = 0 /\ (Len(l) + 1) - 1 = Len(l)
    BY <1>1
  <2> QED BY <1>5, <1>6, <2>1
<1> QED BY <1>8, <1>9, <1>10

(* The same for the opacities. *)
LEMMA FadeInSteps ==
    ASSUME NEW l \in Seq(Command)
    PROVE  /\ FadeIn(l, 1) = <<>>
           /\ \A k \in 1 .. Len(l) : FadeIn(l, k + 1) = FadeAfter(FadeIn(l, k), l[k])
           /\ Balanced(Fades, FadeStep, l) => FadeIn(l, Len(l) + 1) = <<>>
<1> DEFINE Step(g) == [n \in 0 .. Len(l) |->
                          IF n = 0 THEN <<>> ELSE FadeAfter(g[n - 1], l[n])]
<1>1. Len(l) \in Nat /\ \A n \in 1 .. Len(l) : l[n] \in Command
  OBVIOUS
<1>2. \A s \in Fades, n \in 1 .. Len(l) : FadeStep[l[n]][s] = FadeAfter(s, l[n])
  BY <1>1 DEF FadeStep
<1>3. \E g : g = Step(g)
  <2> DEFINE x == <<>>
  <2>1. x \in Fades
    BY StepFunctions
  <2> HIDE DEF x
  <2>2. PICK g : Runs(Fades, FadeStep, l, g) /\ g[0] = x
    BY <2>1, StepFunctions, RunExists
  <2>3. g \in [0 .. Len(l) -> Fades]
        /\ \A n \in 1 .. Len(l) : g[n] = FadeStep[l[n]][g[n - 1]]
    BY <2>2 DEF Runs
  <2>4. ASSUME NEW n \in 1 .. Len(l) PROVE g[n] = FadeAfter(g[n - 1], l[n])
    <3>1. n - 1 \in 0 .. Len(l)
      BY <1>1
    <3> QED BY <1>2, <2>3, <3>1
  <2>5. \A n \in 0 .. Len(l) : n # 0 => n \in 1 .. Len(l)
    BY <1>1
  <2>6. g = Step(g)
    BY <2>2, <2>3, <2>4, <2>5 DEF x
  <2> QED BY <2>6
<1> DEFINE g == CHOOSE g : g = [n \in 0 .. Len(l) |->
                                    IF n = 0 THEN <<>> ELSE FadeAfter(g[n - 1], l[n])]
<1>4. g = Step(g)
  BY <1>3, Zenon
<1>5. \A k : FadeIn(l, k) = g[k - 1]
  BY DEF FadeIn
<1> HIDE DEF g
<1>6. g[0] = <<>> /\ \A n \in 1 .. Len(l) : g[n] = FadeAfter(g[n - 1], l[n])
  <2>1. \A n \in 0 .. Len(l) : g[n] = IF n = 0 THEN <<>> ELSE FadeAfter(g[n - 1], l[n])
    BY <1>4
  <2>2. 0 \in 0 .. Len(l) /\ \A n \in 1 .. Len(l) : n \in 0 .. Len(l) /\ n # 0
    BY <1>1
  <2> QED BY <2>1, <2>2
<1>7. Runs(Fades, FadeStep, l, g)
  <2>1. g = [n \in 0 .. Len(l) |-> g[n]]
    BY <1>4
  <2>2. g[0] \in Fades
    BY <1>6, StepFunctions
  <2>3. \A n \in 1 .. Len(l) : g[n - 1] \in Fades => g[n] = FadeStep[l[n]][g[n - 1]]
    BY <1>2, <1>6
  <2> QED BY <2>1, <2>2, <2>3, StepFunctions, RunTyped
<1>8. Balanced(Fades, FadeStep, l) => g[Len(l)] = <<>>
  BY <1>6, <1>7, StepFunctions DEF Balanced, Leads
<1>9. ASSUME NEW k \in 1 .. Len(l)
      PROVE  FadeIn(l, k + 1) = FadeAfter(FadeIn(l, k), l[k])
  <2>1. (k + 1) - 1 = k
    OBVIOUS
  <2> QED BY <1>5, <1>6, <2>1
<1>10. FadeIn(l, 1) = <<>> /\ FadeIn(l, Len(l) + 1) = g[Len(l)]
  <2>1. 1 - 1 = 0 /\ (Len(l) + 1) - 1 = Len(l)
    BY <1>1
  <2> QED BY <1>5, <1>6, <2>1
<1> QED BY <1>8, <1>9, <1>10

-----------------------------------------------------------------------------
(* The inductive invariant. *)

Drawing == {"draw", "callback"}
Building == {"draw", "callback", "native"}

(* The list of commands, and the command the frame has come to. *)
ListPart ==
    /\ BothBalanced(list)
    /\ pc \notin {"draw", "callback", "native", "flush"} => at = 1
    /\ pc = "callback" => at <= Len(list) /\ list[at].op = "render"

(* The stacks of the native renderer. *)
StackPart ==
    open =>
        /\ pc \in Drawing =>
               /\ clip = ClipIn(list, at) /\ hitClip = ClipIn(list, at)
               /\ fade = FadeIn(list, at)
        /\ pc \notin Drawing => clip = <<>> /\ hitClip = <<>> /\ fade = <<>>

(* The hit grid under construction. *)
EntryIn(l, k) == <<l[k].item, ClipIn(l, k)>>
DrawnIn(l, n) == {k \in 1 .. n - 1 : l[k].op = "render"}
GridPart ==
    open =>
        /\ pc \in Building =>
               /\ nextHits \subseteq {EntryIn(list, k) : k \in DrawnIn(list, at)}
               /\ \A k \in DrawnIn(list, at) :
                     list[k].item \notin destroyed \cup {captured} =>
                         EntryIn(list, k) \in nextHits
        /\ pc \notin Building \cup {"flush"} => nextHits = {}
        /\ pc = "flush" /\ status = "rendered" => nextHits = {}

(* What the tree would look like in the geometry that is laid out. *)
Now == collect_commands(geometry, destroyed)

Settled == {"settle", "collect", "collected", "draw", "callback", "native", "flush"}
Listed == {"collected", "draw", "callback", "native", "flush"}

(* A layout or a list of commands that is out of date is marked, or another *)
(* frame is requested.                                                      *)
UpdatePart ==
    /\ dirty \/ geometry = wanted
    /\ pc \in Settled /\ dirty => render_requested
    /\ can_reuse => list = Now
    /\ pc = "collected" =>
           ~can_reuse /\ (list = Now \/ Updating \cap Rendered(list) # {})
    /\ pc \in Listed => render_requested \/ list = Wanted
    /\ pc = "idle" => render_requested \/ shown = Wanted

RenderInv == RenderTypeOK /\ ListPart /\ StackPart /\ GridPart /\ UpdatePart

(* What the tree looks like depends on these variables only. *)
LEMMA NowKept ==
    /\ UNCHANGED <<hidden, clipped, faded, geometry, destroyed>> => Now' = Now
    /\ UNCHANGED <<hidden, clipped, faded, wanted, destroyed>> => Wanted' = Wanted
    /\ geometry = wanted => Now = Wanted
<1>1. ASSUME UNCHANGED <<hidden, clipped, faded, geometry, destroyed>> PROVE Now' = Now
  BY <1>1 DEF Now, collect_commands, CollectAll, CommandsOf
<1>2. ASSUME UNCHANGED <<hidden, clipped, faded, wanted, destroyed>>
      PROVE  Wanted' = Wanted
  BY <1>2 DEF Wanted, collect_commands, CollectAll, CommandsOf
<1>3. geometry = wanted => Now = Wanted
  BY DEF Now, Wanted
<1> QED BY <1>1, <1>2, <1>3

(* collect leaves the list the tree asks for. *)
LEMMA NowCollected ==
    ASSUME NEW gone, collect(gone)
    PROVE  list' = Now'
<1>1. list' = collect_commands(geometry, destroyed')
  BY DEF collect
<1>2. UNCHANGED <<hidden, clipped, faded, geometry>>
  BY DEF collect
<1> QED BY <1>1, <1>2 DEF Now, collect_commands, CollectAll, CommandsOf

(* The initial state satisfies the invariant. *)
LEMMA InvInit == RenderInit => RenderInv
<1> SUFFICES ASSUME RenderInit PROVE RenderInv
  OBVIOUS
<1> USE DEF RenderInit
<1>1. RenderTypeOK
  <2>1. edits \in 0 .. MaxEdits /\ pass \in 0 .. LayoutPasses - 1
        /\ at \in 1 .. Len(list) + 1
    BY FrameConstants
  <2>2. {dirty, moved, revised, reusable, open, render_requested, force, output_failed}
        \subseteq BOOLEAN
    OBVIOUS
  <2> QED BY <2>1, <2>2 DEF RenderTypeOK, Sizes
<1>2. ListPart
  BY EmptyBalanced DEF ListPart
<1>3. StackPart /\ GridPart
  BY DEF StackPart, GridPart, Drawing, Building
<1>4. UpdatePart
  BY DEF UpdatePart, can_reuse, Settled, Listed
<1> QED BY <1>1, <1>2, <1>3, <1>4 DEF RenderInv

-----------------------------------------------------------------------------
(* The steps. *)

(* What the list of commands says of the stacks. *)
LEMMA StackFacts ==
    ASSUME RenderInv
    PROVE  /\ list \in Seq(Command) /\ Len(list) \in Nat /\ at \in Nat /\ at >= 1
           /\ ClipIn(list, 1) = <<>> /\ FadeIn(list, 1) = <<>>
           /\ ClipIn(list, Len(list) + 1) = <<>> /\ FadeIn(list, Len(list) + 1) = <<>>
           /\ \A k \in 1 .. Len(list) :
                 /\ ClipIn(list, k + 1) = ClipAfter(ClipIn(list, k), list[k])
                 /\ FadeIn(list, k + 1) = FadeAfter(FadeIn(list, k), list[k])
<1>1. BothBalanced(list) /\ at \in 1 .. Len(list) + 1
  BY DEF RenderInv, ListPart, RenderTypeOK
<1>2. list \in Seq(Command)
  BY <1>1 DEF BothBalanced
<1> QED BY <1>1, <1>2, ClipInSteps, FadeInSteps DEF BothBalanced

(* Where no item is drawn, the entries of the grid stay the same. *)
LEMMA DrawnSteps ==
    ASSUME NEW l, NEW k \in Nat, k >= 1
    PROVE  /\ DrawnIn(l, 1) = {}
           /\ DrawnIn(l, k) \subseteq DrawnIn(l, k + 1)
           /\ l[k].op = "render" => DrawnIn(l, k + 1) = DrawnIn(l, k) \cup {k}
           /\ l[k].op # "render" => DrawnIn(l, k + 1) = DrawnIn(l, k)
  BY DEF DrawnIn

(* A setter of the tree marks the list and requests a frame. *)
LEMMA EditStep ==
    ASSUME RenderInv, NEW i \in Items,
           set_visible(i) \/ set_opacity(i) \/ set_overflow(i)
    PROVE  RenderInv'
<1> USE DEF RenderInv, set_visible, set_opacity, set_overflow, TreeSetter, Setter,
            CallbackRuns, Toggle, bump_render_list_revision, request_render, treeVars,
            layoutVars, listVars, nativeVars, rendererVars, frameVars
<1>1. RenderTypeOK'
  <2>1. (edits \in 0 .. MaxEdits /\ pass \in 0 .. LayoutPasses - 1
        /\ at \in 1 .. Len(list) + 1)'
    BY FrameConstants DEF RenderTypeOK
  <2>2. ({dirty, moved, revised, reusable, open, render_requested, force, output_failed}
         \subseteq BOOLEAN)'
    BY DEF RenderTypeOK
  <2>3. (hidden \subseteq Items /\ destroyed \subseteq Items /\ clipped \subseteq Items
        /\ faded \subseteq Items)'
    BY DEF RenderTypeOK
  <2> QED BY <2>1, <2>2, <2>3 DEF RenderTypeOK, Sizes
<1>2. ListPart'
  BY DEF ListPart
<1>3. StackPart'
  BY DEF StackPart, Drawing
<1>4. GridPart'
  BY DEF GridPart, Building, EntryIn, DrawnIn
<1>5. UpdatePart'
  BY NowKept DEF UpdatePart, can_reuse, Settled, Listed
<1> QED BY <1>1, <1>2, <1>3, <1>4, <1>5 DEF RenderInv

(* A destroyed item is drawn no more. *)
LEMMA DestroyStep ==
    ASSUME RenderInv, NEW i \in Items, destroy_recursively(i)
    PROVE  RenderInv'
<1> USE DEF RenderInv, destroy_recursively, TreeSetter, Setter, CallbackRuns,
            bump_render_list_revision, request_render, treeVars, layoutVars, listVars,
            nativeVars, rendererVars, frameVars
<1>1. RenderTypeOK'
  <2>1. (edits \in 0 .. MaxEdits /\ pass \in 0 .. LayoutPasses - 1
        /\ at \in 1 .. Len(list) + 1)'
    BY FrameConstants DEF RenderTypeOK
  <2>2. ({dirty, moved, revised, reusable, open, render_requested, force, output_failed}
         \subseteq BOOLEAN)'
    BY DEF RenderTypeOK
  <2>3. (hidden \subseteq Items /\ destroyed \subseteq Items /\ clipped \subseteq Items
        /\ faded \subseteq Items)'
    BY FrameConstants DEF RenderTypeOK, Items, Range
  <2> QED BY <2>1, <2>2, <2>3 DEF RenderTypeOK, Sizes
<1>2. ListPart'
  BY DEF ListPart
<1>3. StackPart'
  BY DEF StackPart, Drawing
<1>4. GridPart'
  BY DEF GridPart, Building, EntryIn, DrawnIn
<1>5. UpdatePart'
  BY NowKept DEF UpdatePart, can_reuse, Settled, Listed
<1> QED BY <1>1, <1>2, <1>3, <1>4, <1>5 DEF RenderInv

(* A style marks the layout. *)
LEMMA StyleStep ==
    ASSUME RenderInv, style_operation
    PROVE  RenderInv'
<1> USE DEF RenderInv, style_operation, Setter, CallbackRuns, request_render, treeVars,
            layoutVars, listVars, nativeVars, rendererVars, frameVars
<1>1. RenderTypeOK'
  BY DEF RenderTypeOK, Sizes
<1>2. ListPart'
  BY DEF ListPart
<1>3. StackPart'
  BY DEF StackPart, Drawing
<1>4. GridPart'
  BY DEF GridPart, Building, EntryIn, DrawnIn
<1>5. UpdatePart'
  BY NowKept DEF UpdatePart, can_reuse, Settled, Listed
<1> QED BY <1>1, <1>2, <1>3, <1>4, <1>5 DEF RenderInv

(* The capture changes between frames. *)
LEMMA CaptureStep ==
    ASSUME RenderInv, NEW i \in Items \cup {NoItem}, set_captured_num(i)
    PROVE  RenderInv'
<1> USE DEF RenderInv, set_captured_num, treeVars, layoutVars, listVars, nativeVars,
            rendererVars, frameVars
<1>1. RenderTypeOK'
  <2>1. (edits \in 0 .. MaxEdits /\ pass \in 0 .. LayoutPasses - 1
        /\ at \in 1 .. Len(list) + 1)'
    BY FrameConstants DEF RenderTypeOK
  <2>2. ({dirty, moved, revised, reusable, open, render_requested, force, output_failed}
         \subseteq BOOLEAN)'
    BY DEF RenderTypeOK
  <2>3. (hidden \subseteq Items /\ destroyed \subseteq Items /\ clipped \subseteq Items
        /\ faded \subseteq Items)'
    BY DEF RenderTypeOK
  <2> QED BY <2>1, <2>2, <2>3 DEF RenderTypeOK, Sizes
<1>2. ListPart'
  BY DEF ListPart
<1>3. StackPart'
  BY DEF StackPart, Drawing
<1>4. GridPart'
  BY DEF GridPart, Building, EntryIn, DrawnIn
<1>5. UpdatePart'
  BY NowKept DEF UpdatePart, can_reuse, Settled, Listed
<1> QED BY <1>1, <1>2, <1>3, <1>4, <1>5 DEF RenderInv

(* A frame begins. *)
LEMMA BeginStep ==
    ASSUME RenderInv, render
    PROVE  RenderInv'
<1> USE DEF RenderInv, render, treeVars, layoutVars, listVars, nativeVars, rendererVars,
            frameVars
<1>1. RenderTypeOK'
  BY DEF RenderTypeOK, Sizes
<1>2. ListPart'
  BY DEF ListPart
<1>3. StackPart'
  BY DEF StackPart, Drawing
<1>4. GridPart'
  BY DEF GridPart, Building, EntryIn, DrawnIn
<1>5. UpdatePart'
  BY NowKept DEF UpdatePart, can_reuse, Settled, Listed
<1> QED BY <1>1, <1>2, <1>3, <1>4, <1>5 DEF RenderInv

(* A layout pass, and the decision whether another one follows. *)
LEMMA LayoutStep ==
    ASSUME RenderInv, calculate_root_layout \/ settle_layout
    PROVE  RenderInv'
<1> USE DEF RenderInv, calculate_root_layout, settle_layout, treeVars, layoutVars,
            listVars, nativeVars, rendererVars, frameVars
<1>1. RenderTypeOK'
  <2>1. (edits \in 0 .. MaxEdits /\ pass \in 0 .. LayoutPasses - 1
        /\ at \in 1 .. Len(list) + 1)'
    BY FrameConstants DEF RenderTypeOK
  <2>2. ({dirty, moved, revised, reusable, open, render_requested, force, output_failed}
         \subseteq BOOLEAN)'
    BY DEF RenderTypeOK
  <2>3. (hidden \subseteq Items /\ destroyed \subseteq Items /\ clipped \subseteq Items
        /\ faded \subseteq Items)'
    BY DEF RenderTypeOK
  <2> QED BY <2>1, <2>2, <2>3 DEF RenderTypeOK, Sizes
<1>2. ListPart'
  BY DEF ListPart
<1>3. StackPart'
  BY DEF StackPart, Drawing
<1>4. GridPart'
  BY DEF GridPart, Building, EntryIn, DrawnIn
<1>5. UpdatePart'
  BY NowKept DEF UpdatePart, can_reuse, Settled, Listed
<1> QED BY <1>1, <1>2, <1>3, <1>4, <1>5 DEF RenderInv

(* The commands are collected. *)
LEMMA CollectStep ==
    ASSUME RenderInv, NEW gone \in SUBSET Updating, collect(gone)
    PROVE  RenderInv'
<1> USE DEF RenderInv, collect, treeVars, layoutVars, listVars, nativeVars,
            rendererVars, frameVars
<1>1. RenderTypeOK'
  <2>1. (edits \in 0 .. MaxEdits /\ pass \in 0 .. LayoutPasses - 1
        /\ at \in 1 .. Len(list) + 1)'
    <3>1. geometry \in Sizes /\ list' = collect_commands(geometry, destroyed')
          /\ at' = 1
      BY DEF RenderTypeOK, ListPart
    <3>2. Len(list') \in Nat
      BY <3>1, CollectBalanced DEF BothBalanced
    <3> QED BY <3>1, <3>2, FrameConstants DEF RenderTypeOK
  <2>2. ({dirty, moved, revised, reusable, open, render_requested, force, output_failed}
         \subseteq BOOLEAN)'
    BY DEF RenderTypeOK
  <2>3. (hidden \subseteq Items /\ destroyed \subseteq Items /\ clipped \subseteq Items
        /\ faded \subseteq Items)'
    BY FrameConstants DEF RenderTypeOK
  <2> QED BY <2>1, <2>2, <2>3 DEF RenderTypeOK, Sizes
<1>2. ListPart'
  <2>1. BothBalanced(list')
    <3>1. geometry \in Sizes
      BY DEF RenderTypeOK
    <3>2. list' = collect_commands(geometry, destroyed')
      OBVIOUS
    <3> QED BY <3>1, <3>2, CollectBalanced
  <2> QED BY <2>1 DEF ListPart
<1>3. StackPart'
  BY DEF StackPart, Drawing
<1>4. GridPart'
  BY DEF GridPart, Building, EntryIn, DrawnIn
<1>5. UpdatePart'
  BY NowKept, NowCollected DEF UpdatePart, can_reuse, Settled, Listed
<1> QED BY <1>1, <1>2, <1>3, <1>4, <1>5 DEF RenderInv

(* The list is applied, or an earlier one used again. *)
LEMMA ApplyStep ==
    ASSUME RenderInv, apply_render_list \/ reuse_render_list
    PROVE  RenderInv'
<1> USE DEF RenderInv, apply_render_list, reuse_render_list,
            hit_grid_clear_scissor_rects, can_reuse_renderable, treeVars, layoutVars,
            listVars, nativeVars, rendererVars, frameVars
<1>1. RenderTypeOK'
  <2>1. (edits \in 0 .. MaxEdits /\ pass \in 0 .. LayoutPasses - 1
        /\ at \in 1 .. Len(list) + 1)'
    <3>1. UNCHANGED <<edits, pass, list>> /\ at' = 1
      OBVIOUS
    <3> HIDE DEF apply_render_list, reuse_render_list
    <3> QED BY <3>1, StackFacts DEF RenderTypeOK
  <2>2. ({dirty, moved, revised, reusable, open, render_requested, force, output_failed}
         \subseteq BOOLEAN)'
    BY DEF RenderTypeOK
  <2>3. (hidden \subseteq Items /\ destroyed \subseteq Items /\ clipped \subseteq Items
        /\ faded \subseteq Items)'
    BY DEF RenderTypeOK
  <2> QED BY <2>1, <2>2, <2>3 DEF RenderTypeOK, Sizes
<1>2. ListPart'
  BY DEF ListPart
<1>3. StackPart'
  BY StackFacts DEF StackPart, Drawing
<1>4. GridPart'
  BY StackFacts, DrawnSteps DEF GridPart, Building, EntryIn, DrawnIn
<1>5. UpdatePart'
  <2>1. CASE apply_render_list
    <3>1. Now' = Now /\ Wanted' = Wanted
      BY <2>1, NowKept
    <3>2. reusable' => list = Now
      BY <2>1 DEF UpdatePart
    <3> QED BY <2>1, <3>1, <3>2 DEF UpdatePart, can_reuse, Settled, Listed
  <2>2. CASE reuse_render_list
    <3>1. Now' = Now /\ Wanted' = Wanted /\ (geometry = wanted => Now = Wanted)
      BY <2>2, NowKept
    <3> QED BY <2>2, <3>1 DEF UpdatePart, can_reuse, Settled, Listed
  <2> QED BY <2>1, <2>2
<1> QED BY <1>1, <1>2, <1>3, <1>4, <1>5 DEF RenderInv

(* A command is executed. *)
LEMMA CommandStep ==
    ASSUME RenderInv, execute_render_command
    PROVE  RenderInv'
<1> USE DEF RenderInv, execute_render_command, buffer_push_opacity, buffer_pop_opacity,
            buffer_push_scissor_rect, buffer_pop_scissor_rect,
            hit_grid_push_scissor_rect, hit_grid_pop_scissor_rect, treeVars, layoutVars,
            listVars, nativeVars, rendererVars, frameVars
<1>1. RenderTypeOK'
  BY DEF RenderTypeOK, Sizes
<1>2. ListPart'
  BY DEF ListPart
<1>3. StackPart'
  <2>1. SUFFICES ASSUME open PROVE StackPart'
    BY DEF StackPart
  <2>2. /\ at \in 1 .. Len(list) /\ list' = list /\ clip = ClipIn(list, at)
        /\ hitClip = clip
        /\ fade = FadeIn(list, at)
    BY <2>1, StackFacts DEF StackPart, Drawing
  <2>3. /\ ClipIn(list, at + 1) = ClipAfter(clip, list[at])
        /\ FadeIn(list, at + 1) = FadeAfter(fade, list[at])
    BY <2>2, StackFacts
  <2>4. CASE list[at].op = "render" /\ list[at].item \notin destroyed
    BY <2>2, <2>4 DEF StackPart, Drawing
  <2>5. CASE ~(list[at].op = "render" /\ list[at].item \notin destroyed)
    <3>1. at' = at + 1 /\ pc' = "draw"
      BY <2>5
    <3>2. clip' = ClipAfter(clip, list[at]) /\ hitClip' = clip'
          /\ fade' = FadeAfter(fade, list[at])
      BY <2>2, <2>5 DEF ClipAfter, FadeAfter
    <3> QED BY <2>2, <2>3, <3>1, <3>2 DEF StackPart, Drawing
  <2> QED BY <2>4, <2>5
<1>4. GridPart'
  <2>1. SUFFICES ASSUME open PROVE GridPart'
    BY DEF GridPart
  <2>2. list' = list /\ nextHits' = nextHits /\ UNCHANGED <<open, destroyed, captured>>
    OBVIOUS
  <2>3. CASE list[at].op = "render" /\ list[at].item \notin destroyed
    BY <2>2, <2>3 DEF GridPart, Building
  <2>4. CASE ~(list[at].op = "render" /\ list[at].item \notin destroyed)
    <3>1. at' = at + 1 /\ pc' = "draw"
      BY <2>4
    <3>2. \/ DrawnIn(list, at + 1) = DrawnIn(list, at)
          \/ /\ DrawnIn(list, at + 1) = DrawnIn(list, at) \cup {at}
             /\ list[at].item \in destroyed
      BY <2>4, StackFacts, DrawnSteps
    <3>3. pc \in Building
      BY DEF Building
    <3> HIDE DEF execute_render_command
    <3> QED BY <2>1, <2>2, <3>1, <3>2, <3>3 DEF GridPart, Building
  <2> QED BY <2>3, <2>4
<1>5. UpdatePart'
  BY NowKept DEF UpdatePart, can_reuse, Settled, Listed
<1> QED BY <1>1, <1>2, <1>3, <1>4, <1>5 DEF RenderInv

(* An item enters the hit grid. *)
LEMMA HitStep ==
    ASSUME RenderInv, add_hit_grid
    PROVE  RenderInv'
<1> USE DEF RenderInv, add_hit_grid, add_to_hit_grid, treeVars, layoutVars, listVars,
            nativeVars, rendererVars, frameVars
<1>1. RenderTypeOK'
  <2>1. (edits \in 0 .. MaxEdits /\ pass \in 0 .. LayoutPasses - 1
        /\ at \in 1 .. Len(list) + 1)'
    BY StackFacts DEF RenderTypeOK, ListPart
  <2>2. ({dirty, moved, revised, reusable, open, render_requested, force, output_failed}
         \subseteq BOOLEAN)'
    BY DEF RenderTypeOK
  <2>3. (hidden \subseteq Items /\ destroyed \subseteq Items /\ clipped \subseteq Items
        /\ faded \subseteq Items)'
    BY DEF RenderTypeOK
  <2> QED BY <2>1, <2>2, <2>3 DEF RenderTypeOK, Sizes
<1>2. ListPart'
  BY DEF ListPart
<1>3. StackPart'
  <2>1. SUFFICES ASSUME open PROVE StackPart'
    BY DEF StackPart
  <2>2. at \in 1 .. Len(list) /\ list[at].op = "render"
    BY StackFacts DEF ListPart
  <2>3. ClipIn(list, at + 1) = ClipIn(list, at)
        /\ FadeIn(list, at + 1) = FadeIn(list, at)
    BY <2>2, StackFacts DEF ClipAfter, FadeAfter
  <2> QED BY <2>1, <2>3 DEF StackPart, Drawing
<1>4. GridPart'
  <2>1. SUFFICES ASSUME open PROVE GridPart'
    BY DEF GridPart
  <2>2. DrawnIn(list, at + 1) = DrawnIn(list, at) \cup {at}
        /\ hitClip = ClipIn(list, at)
    BY <2>1, StackFacts, DrawnSteps DEF ListPart, StackPart, Drawing
  <2>3. /\ list' = list /\ at' = at + 1 /\ pc' = "draw"
        /\ UNCHANGED <<open, destroyed, captured>>
        /\ IF list[at].item = captured THEN nextHits' = nextHits
           ELSE nextHits' = nextHits \cup {EntryIn(list, at)}
    BY <2>1, <2>2 DEF EntryIn
  <2>4. /\ nextHits \subseteq {EntryIn(list, k) : k \in DrawnIn(list, at)}
        /\ \A k \in DrawnIn(list, at) :
              list[k].item \notin destroyed \cup {captured} =>
                  EntryIn(list, k) \in nextHits
    BY <2>1 DEF GridPart, Building
  <2> HIDE DEF add_hit_grid
  <2>5. /\ nextHits' \subseteq {EntryIn(list, k) : k \in DrawnIn(list, at + 1)}
        /\ \A k \in DrawnIn(list, at + 1) :
              list[k].item \notin destroyed \cup {captured} =>
                  EntryIn(list, k) \in nextHits'
    BY <2>2, <2>3, <2>4
  <2> QED BY <2>3, <2>5 DEF GridPart, Building
<1>5. UpdatePart'
  BY NowKept DEF UpdatePart, can_reuse, Settled, Listed
<1> QED BY <1>1, <1>2, <1>3, <1>4, <1>5 DEF RenderInv

(* All commands have been executed. *)
LEMMA PostStep ==
    ASSUME RenderInv, apply_post_processes
    PROVE  RenderInv'
<1> USE DEF RenderInv, apply_post_processes, treeVars, layoutVars, listVars, nativeVars,
            rendererVars, frameVars
<1>1. RenderTypeOK'
  BY DEF RenderTypeOK, Sizes
<1>2. ListPart'
  BY DEF ListPart
<1>3. StackPart'
  <2>1. at = Len(list) + 1
    BY StackFacts DEF RenderTypeOK
  <2>2. /\ UNCHANGED <<clip, hitClip, fade, open>> /\ pc = "draw" /\ pc' = "native"
        /\ ClipIn(list, at) = <<>> /\ FadeIn(list, at) = <<>>
    BY <2>1, StackFacts
  <2> HIDE DEF apply_post_processes
  <2> QED BY <2>2 DEF StackPart, Drawing
<1>4. GridPart'
  BY DEF GridPart, Building, EntryIn, DrawnIn
<1>5. UpdatePart'
  BY NowKept DEF UpdatePart, can_reuse, Settled, Listed
<1> QED BY <1>1, <1>2, <1>3, <1>4, <1>5 DEF RenderInv

(* The native render. *)
LEMMA NativeStep ==
    ASSUME RenderInv, NEW result \in {"rendered", "skipped", "failed"},
           native_render(result)
    PROVE  RenderInv'
<1> USE DEF RenderInv, native_render, renderer_render, treeVars, layoutVars, listVars,
            nativeVars, rendererVars, frameVars
<1>1. RenderTypeOK'
  BY DEF RenderTypeOK, Sizes
<1>2. ListPart'
  BY DEF ListPart
<1>3. StackPart'
  BY DEF StackPart, Drawing
<1>4. GridPart'
  BY DEF GridPart, Building, EntryIn, DrawnIn
<1>5. UpdatePart'
  BY NowKept DEF UpdatePart, can_reuse, Settled, Listed
<1> QED BY <1>1, <1>2, <1>3, <1>4, <1>5 DEF RenderInv

(* The frame ends. *)
LEMMA FinishStep ==
    ASSUME RenderInv, finish_frame
    PROVE  RenderInv'
<1> USE DEF RenderInv, finish_frame, frame_rendered, frame_skipped, frame_failed,
            abort_hit_grid, request_render, FrameEnds, clear_next_hit_grid,
            hit_grid_clear_scissor_rects, treeVars, layoutVars, listVars, nativeVars,
            rendererVars, frameVars
<1>1. RenderTypeOK'
  <2>1. (edits \in 0 .. MaxEdits /\ pass \in 0 .. LayoutPasses - 1
        /\ at \in 1 .. Len(list) + 1)'
    BY FrameConstants, StackFacts DEF RenderTypeOK
  <2>2. ({dirty, moved, revised, reusable, open, render_requested, force, output_failed}
         \subseteq BOOLEAN)'
    BY DEF RenderTypeOK
  <2>3. (hidden \subseteq Items /\ destroyed \subseteq Items /\ clipped \subseteq Items
        /\ faded \subseteq Items)'
    BY DEF RenderTypeOK
  <2> QED BY <2>1, <2>2, <2>3 DEF RenderTypeOK, Sizes
<1>2. ListPart'
  BY DEF ListPart
<1>3. StackPart'
  BY DEF StackPart, Drawing
<1>4. GridPart'
  BY DEF GridPart, Building, EntryIn, DrawnIn
<1>5. UpdatePart'
  BY NowKept DEF UpdatePart, can_reuse, Settled, Listed
<1> QED BY <1>1, <1>2, <1>3, <1>4, <1>5 DEF RenderInv

(* The frame fails. *)
LEMMA FailStep ==
    ASSUME RenderInv, failed_frame, output_failed' \in BOOLEAN
    PROVE  RenderInv'
<1> USE DEF RenderInv, failed_frame, reset_failed_frame, abort_hit_grid, request_render,
            FrameEnds, clear_next_hit_grid, hit_grid_clear_scissor_rects,
            buffer_clear_scissor_rects, buffer_clear_opacity, treeVars, layoutVars,
            listVars, nativeVars, rendererVars, frameVars
<1>1. RenderTypeOK'
  <2>1. (edits \in 0 .. MaxEdits /\ pass \in 0 .. LayoutPasses - 1
        /\ at \in 1 .. Len(list) + 1)'
    BY FrameConstants, StackFacts DEF RenderTypeOK
  <2>2. ({dirty, moved, revised, reusable, open, render_requested, force, output_failed}
         \subseteq BOOLEAN)'
    BY DEF RenderTypeOK
  <2>3. (hidden \subseteq Items /\ destroyed \subseteq Items /\ clipped \subseteq Items
        /\ faded \subseteq Items)'
    BY DEF RenderTypeOK
  <2> QED BY <2>1, <2>2, <2>3 DEF RenderTypeOK, Sizes
<1>2. ListPart'
  BY DEF ListPart
<1>3. StackPart'
  BY DEF StackPart, Drawing
<1>4. GridPart'
  BY DEF GridPart, Building, EntryIn, DrawnIn
<1>5. UpdatePart'
  BY NowKept DEF UpdatePart, can_reuse, Settled, Listed
<1> QED BY <1>1, <1>2, <1>3, <1>4, <1>5 DEF RenderInv

(* The terminal is resized. *)
LEMMA ResizeStep ==
    ASSUME RenderInv, resize
    PROVE  RenderInv'
<1> USE DEF RenderInv, resize, request_render, hit_grid_clear_scissor_rects, treeVars,
            layoutVars, listVars, nativeVars, rendererVars, frameVars
<1>1. RenderTypeOK'
  BY DEF RenderTypeOK, Sizes
<1>2. ListPart'
  BY DEF ListPart
<1>3. StackPart'
  BY DEF StackPart, Drawing
<1>4. GridPart'
  BY DEF GridPart, Building, EntryIn, DrawnIn
<1>5. UpdatePart'
  BY NowKept DEF UpdatePart, can_reuse, Settled, Listed
<1> QED BY <1>1, <1>2, <1>3, <1>4, <1>5 DEF RenderInv

(* The renderer is closed. *)
LEMMA CloseStep ==
    ASSUME RenderInv, close
    PROVE  RenderInv'
<1> USE DEF RenderInv, close, CallbackRuns, request_render, bump_render_list_revision,
            renderer_destroy, treeVars, layoutVars, listVars, nativeVars, rendererVars,
            frameVars
<1>1. RenderTypeOK'
  BY DEF RenderTypeOK, Sizes
<1>2. ListPart'
  BY DEF ListPart
<1>3. StackPart'
  BY DEF StackPart, Drawing
<1>4. GridPart'
  BY DEF GridPart, Building, EntryIn, DrawnIn
<1>5. UpdatePart'
  BY NowKept DEF UpdatePart, can_reuse, Settled, Listed
<1> QED BY <1>1, <1>2, <1>3, <1>4, <1>5 DEF RenderInv

(* Nothing happens. *)
LEMMA StutterStep ==
    ASSUME RenderInv, UNCHANGED renderVars
    PROVE  RenderInv'
<1> USE DEF RenderInv, renderVars, treeVars, layoutVars, listVars, nativeVars,
            rendererVars, frameVars
<1>1. RenderTypeOK'
  BY DEF RenderTypeOK, Sizes
<1>2. ListPart'
  BY DEF ListPart
<1>3. StackPart'
  BY DEF StackPart, Drawing
<1>4. GridPart'
  BY DEF GridPart, Building, EntryIn, DrawnIn
<1>5. UpdatePart'
  BY NowKept DEF UpdatePart, can_reuse, Settled, Listed
<1> QED BY <1>1, <1>2, <1>3, <1>4, <1>5 DEF RenderInv

-----------------------------------------------------------------------------
(* The theorems. *)

(* Every step of a frame, and every change between and during frames, keeps  *)
(* the invariant.                                                            *)
LEMMA RenderStep == RenderInv /\ [RenderNext]_renderVars => RenderInv'
<1> SUFFICES ASSUME RenderInv, [RenderNext]_renderVars PROVE RenderInv'
  OBVIOUS
<1>1. ASSUME NEW i \in Outer, set_visible(i) \/ set_opacity(i) \/ set_overflow(i)
      PROVE  RenderInv'
  BY <1>1, EditStep DEF Items
<1>2. ASSUME NEW i \in Items, destroy_recursively(i) PROVE RenderInv'
  BY <1>2, DestroyStep
<1>3. CASE style_operation
  BY <1>3, StyleStep
<1>4. ASSUME NEW i \in Items \cup {NoItem}, set_captured_num(i) PROVE RenderInv'
  BY <1>4, CaptureStep
<1>5. CASE render
  BY <1>5, BeginStep
<1>6. CASE FrameStep
  <2>1. CASE calculate_root_layout \/ settle_layout
    BY <2>1, LayoutStep
  <2>2. ASSUME NEW gone \in SUBSET Updating, collect(gone) PROVE RenderInv'
    BY <2>2, CollectStep
  <2>3. CASE apply_render_list \/ reuse_render_list
    BY <2>3, ApplyStep
  <2>4. CASE execute_render_command
    BY <2>4, CommandStep
  <2>5. CASE add_hit_grid
    BY <2>5, HitStep
  <2>6. CASE apply_post_processes
    BY <2>6, PostStep
  <2>7. ASSUME NEW result \in {"rendered", "skipped", "failed"},
           native_render(result)
        PROVE  RenderInv'
    BY <2>7, NativeStep
  <2>8. CASE finish_frame
    BY <2>8, FinishStep
  <2>9. CASE flush_output_fails \/ frame_fails
    <3>1. failed_frame /\ output_failed' \in BOOLEAN
      BY <2>9 DEF flush_output_fails, frame_fails, RenderInv, RenderTypeOK
    <3> QED BY <3>1, FailStep
  <2> QED BY <1>6, <2>1, <2>2, <2>3, <2>4, <2>5, <2>6, <2>7, <2>8, <2>9 DEF FrameStep
<1>7. CASE resize
  BY <1>7, ResizeStep
<1>8. CASE close
  BY <1>8, CloseStep
<1>9. CASE UNCHANGED renderVars
  BY <1>9, StutterStep
<1> QED BY <1>1, <1>2, <1>3, <1>4, <1>5, <1>6, <1>7, <1>8, <1>9 DEF RenderNext

(* The invariant holds in every state of a renderer, for every two-level     *)
(* tree, any set of items that update each frame and any number of changes.  *)
THEOREM RenderInvariant == RenderSpec => []RenderInv
<1>1. RenderInit => RenderInv
  BY InvInit
<1>2. RenderInv /\ [RenderNext]_renderVars => RenderInv'
  BY RenderStep
<1> QED BY <1>1, <1>2, PTL DEF RenderSpec

(* Every command of Renderable.render_root is executed under the scissors    *)
(* and opacities its ancestors pushed, in the buffer and in the hit grid,    *)
(* and no frame leaves one behind, whichever frames failed or were skipped.  *)
THEOREM RenderClipsMatch == RenderSpec => []ClipsMatch
<1>1. RenderInv => ClipsMatch
  BY StackAtIn DEF RenderInv, StackPart, ClipsMatch, Drawing
<1> QED BY <1>1, RenderInvariant, PTL

(* The native hit grid under construction holds this frame's items, each     *)
(* under the clip of its place, and nothing an abandoned frame left.         *)
THEOREM RenderGridIsThisFrame == RenderSpec => []GridIsThisFrame
<1>1. RenderInv => GridIsThisFrame
  BY StackAtIn DEF RenderInv, GridPart, GridIsThisFrame, Building, EntryIn, DrawnIn
<1> QED BY <1>1, RenderInvariant, PTL

(* Between frames the screen shows what the tree asks for, or another frame  *)
(* has been requested, whenever and from whichever callback it was changed.  *)
THEOREM RenderLosesNoUpdate == RenderSpec => []NoLostUpdate
<1>1. RenderInv => NoLostUpdate
  BY DEF RenderInv, UpdatePart, NoLostUpdate
<1> QED BY <1>1, RenderInvariant, PTL
=============================================================================
