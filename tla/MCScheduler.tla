---------------------------- MODULE MCScheduler -----------------------------
(* Instances of Scheduler for TLC.                                           *)
EXTENDS Scheduler, TLC

(* The schedulers are interchangeable. *)
SchedulerSymmetry == Permutations(Schedulers)

=============================================================================
