------------------------------- MODULE MCGpu -------------------------------
(* The instance of Gpu that the run gpu checks. *)
EXTENDS Gpu
============================================================================
