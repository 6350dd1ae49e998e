----------------------------- MODULE Background -----------------------------
(* Background CPU jobs (platform/eio_runtime/background.ml).                 *)
(*                                                                           *)
(* submit starts two fibers of the owner domain on the submitter's switch:   *)
(* a helper that hands the work to the executor pool and resolves the result *)
(* promise, and a delivery fiber that races the result against the job's     *)
(* cancellation and runs on_complete.  cancel may be called from any domain: *)
(* it interleaves with every step, and the job's atomic state decides.       *)
EXTENDS Naturals, FiniteSets

CONSTANTS
    Jobs,           \* the jobs that may be submitted
    Workers         \* worker domains of the pool; each job has weight 1.0

ASSUME BackgroundAssumption ==
    /\ IsFiniteSet(Jobs)
    /\ Workers \in Nat \ {0}

VARIABLES
    job,            \* the job's atomic state; "none" before submit
    work,           \* where the work and its helper fiber are
    fiber,          \* where the delivery fiber is
    open            \* neither the submitter nor its switches are closed

backgroundVars == <<job, work, fiber, open>>

JobStates == {"none", "pending", "cancelled", "delivering", "delivered"}
WorkStates == {"none", "queued", "running", "finished", "raised", "resolved",
               "failed"}
FiberStates == {"none", "waiting", "completed", "callback", "exited"}

BackgroundInit ==
    /\ job = [j \in Jobs |-> "none"]
    /\ work = [j \in Jobs |-> "none"]
    /\ fiber = [j \in Jobs |-> "none"]
    /\ open = TRUE

(* The jobs that occupy a worker domain. *)
Running == {j \in Jobs : work[j] = "running"}

(* submit on an open submitter; on a closed one it answers Closed and        *)
(* changes nothing.                                                          *)
Submit(j) ==
    /\ open
    /\ job[j] = "none"
    /\ job' = [job EXCEPT ![j] = "pending"]
    /\ work' = [work EXCEPT ![j] = "queued"]
    /\ fiber' = [fiber EXCEPT ![j] = "waiting"]
    /\ UNCHANGED open

(* The executor pool runs the closure on a free worker domain and comes back *)
(* with its value or its exception.                                          *)
PoolStart(j) ==
    /\ work[j] = "queued"
    /\ Cardinality(Running) < Workers
    /\ work' = [work EXCEPT ![j] = "running"]
    /\ UNCHANGED <<job, fiber, open>>

PoolFinish(j) ==
    /\ work[j] = "running"
    /\ \E outcome \in {"finished", "raised"} :
         work' = [work EXCEPT ![j] = outcome]
    /\ UNCHANGED <<job, fiber, open>>

(* The helper fiber resumes on the owner domain: it resolves the result      *)
(* promise, or raises and so fails the switch.  A closed switch has          *)
(* cancelled it.                                                             *)
HelperResumes(j) ==
    /\ open
    /\ \/ /\ work[j] = "finished"
          /\ work' = [work EXCEPT ![j] = "resolved"]
          /\ UNCHANGED open
       \/ /\ work[j] = "raised"
          /\ work' = [work EXCEPT ![j] = "failed"]
          /\ open' = FALSE
    /\ UNCHANGED <<job, fiber>>

MutantAwaitsResultOnly(j) ==
    /\ fiber[j] = "waiting"
    /\ \/ /\ open
          /\ work[j] = "resolved"
          /\ fiber' = [fiber EXCEPT ![j] = "completed"]
       \/ /\ ~open
          /\ fiber' = [fiber EXCEPT ![j] = "exited"]
    /\ UNCHANGED <<job, work, open>>

(* Fiber.first returns: with the result, with the cancellation, or by the    *)
(* cancellation of the switch.                                               *)
FirstReturns(j) ==
    /\ fiber[j] = "waiting"
    /\ \/ /\ open
          /\ work[j] = "resolved"
          /\ fiber' = [fiber EXCEPT ![j] = "completed"]
       \/ /\ job[j] = "cancelled" \/ ~open
          /\ fiber' = [fiber EXCEPT ![j] = "exited"]
    /\ UNCHANGED <<job, work, open>>

MutantNoCompareAndSet(j) ==
    /\ fiber[j] = "completed"
    /\ job' = [job EXCEPT ![j] = "delivering"]
    /\ fiber' = [fiber EXCEPT ![j] = IF open THEN "callback" ELSE "exited"]
    /\ UNCHANGED <<work, open>>

MutantExpectsDelivering(j) ==
    /\ fiber[j] = "completed"
    /\ IF job[j] = "delivering"
       THEN fiber' = [fiber EXCEPT ![j] = IF open THEN "callback" ELSE "exited"]
       ELSE fiber' = [fiber EXCEPT ![j] = "exited"]
    /\ UNCHANGED <<job, work, open>>

(* The `Completed branch up to the call of on_complete: the compare-and-set  *)
(* from pending, then Fiber.check, which raises when the switch has failed.  *)
BeginDelivery(j) ==
    /\ fiber[j] = "completed"
    /\ IF job[j] = "pending"
       THEN /\ job' = [job EXCEPT ![j] = "delivering"]
            /\ fiber' = [fiber EXCEPT ![j] = IF open THEN "callback" ELSE "exited"]
       ELSE /\ fiber' = [fiber EXCEPT ![j] = "exited"]
            /\ UNCHANGED job
    /\ UNCHANGED <<work, open>>

EndDelivery(j) ==
    /\ fiber[j] = "callback"
    /\ job' = [job EXCEPT ![j] = "delivered"]
    /\ fiber' = [fiber EXCEPT ![j] = "exited"]
    /\ UNCHANGED <<work, open>>

(* on_complete raises: the exception fails the switch.                       *)
RaiseDelivery(j) ==
    /\ fiber[j] = "callback"
    /\ fiber' = [fiber EXCEPT ![j] = "exited"]
    /\ open' = FALSE
    /\ UNCHANGED <<job, work>>

(* cancel: the compare-and-set from pending, and the cancellation promise    *)
(* (resolved exactly when the state is cancelled).                           *)
Cancel(j) ==
    /\ job[j] = "pending"
    /\ job' = [job EXCEPT ![j] = "cancelled"]
    /\ UNCHANGED <<work, fiber, open>>

(* The submitter's switch or the application's is released or fails.         *)
CloseSwitch ==
    /\ open
    /\ open' = FALSE
    /\ UNCHANGED <<job, work, fiber>>

BackgroundStep(j) ==
    \/ PoolStart(j)
    \/ PoolFinish(j)
    \/ HelperResumes(j)
    \/ FirstReturns(j)

BackgroundNext ==
    \/ \E j \in Jobs :
         \/ Submit(j)
         \/ Cancel(j)
         \/ BackgroundStep(j)
         \/ BeginDelivery(j)
         \/ EndDelivery(j)
         \/ RaiseDelivery(j)
    \/ CloseSwitch

BackgroundSpec == BackgroundInit /\ [][BackgroundNext]_backgroundVars

(* Eio runs every runnable fiber of the owner domain, and on_complete        *)
(* returns or raises.  The work of a worker domain may never end.            *)
BackgroundFairness ==
    \A j \in Jobs :
        /\ WF_backgroundVars(HelperResumes(j))
        /\ WF_backgroundVars(FirstReturns(j))
        /\ WF_backgroundVars(BeginDelivery(j))
        /\ WF_backgroundVars(EndDelivery(j) \/ RaiseDelivery(j))

BackgroundFairSpec == BackgroundSpec /\ BackgroundFairness

-----------------------------------------------------------------------------
(* Type invariant; the pool is never oversubscribed. *)
BackgroundTypeOK ==
    /\ job \in [Jobs -> JobStates]
    /\ work \in [Jobs -> WorkStates]
    /\ fiber \in [Jobs -> FiberStates]
    /\ open \in BOOLEAN
    /\ Cardinality(Running) <= Workers

(* Cancellation has one linearization point: a job that cancel won is never  *)
(* in its completion callback, whichever of the result, the cancellation and *)
(* the delivery fiber came first, and a callback in progress cannot be       *)
(* retracted.                                                                *)
CancelExcludesDelivery ==
    \A j \in Jobs : fiber[j] = "callback" => job[j] = "delivering"

(* A settled job stays settled: no step takes a job out of cancelled or      *)
(* delivered, and a callback runs at most once per job.                      *)
SettledForGood ==
    [][\A j \in Jobs :
         /\ job[j] \in {"cancelled", "delivered"} => job'[j] = job[j]
         /\ fiber[j] = "exited" => fiber'[j] = "exited"]_backgroundVars

(* A cancelled job lets go of its owner-domain captures without waiting for  *)
(* the worker, which may never finish: its delivery fiber exits.             *)
CancelReleases ==
    \A j \in Jobs : job[j] = "cancelled" ~> fiber[j] = "exited"

(* A finished computation is not lost: its job is delivered or cancelled, or *)
(* the switch is closed.                                                     *)
FinishedIsDelivered ==
    \A j \in Jobs :
        work[j] = "finished" ~> job[j] \in {"cancelled", "delivered"} \/ ~open

=============================================================================
