-------------------------- MODULE MCInputPipeline ---------------------------
(* InputPipeline for TLC. *)
EXTENDS InputPipeline

=============================================================================
