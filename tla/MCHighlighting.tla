--------------------------- MODULE MCHighlighting ---------------------------
(* Instance of Highlighting for TLC.                                         *)
EXTENDS Highlighting

=============================================================================
