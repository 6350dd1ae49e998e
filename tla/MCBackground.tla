---------------------------- MODULE MCBackground ----------------------------
(* Instance of Background for TLC.                                           *)
EXTENDS Background

=============================================================================
