-------------------------- MODULE MCTerminalSession -------------------------
(* Instances of TerminalSession for TLC.                                     *)
EXTENDS TerminalSession

(* Frames, the mouse modes (the longest transitions, and the only ones that
   depend on each other) and the cursor. *)
WriterRequestsMC ==
    {Write, Request("mouse", "motion"), Request("mouse", "buttons"),
     Request("cursor", FALSE)}

=============================================================================
