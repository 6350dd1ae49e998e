--------------------------- MODULE TerminalSession --------------------------
(* The terminal session of platform/eio_unix_runtime/terminal_session.ml     *)
(* over OutputFlow: raw mode, the output modes it sets up, its queries, and  *)
(* restoration with its retries.  One fiber owns the session; the others     *)
(* write frames and modes to the same output.                                *)
EXTENDS OutputFlow

CONSTANTS
    Owner,          \* the fiber that owns the session
    Queries,        \* Capabilities, Palette, Theme, Pixel_resolution
    WriterRequests  \* what the other fibers ask of the output

ASSUME SessionAssumption ==
    /\ Owner \in Fibers
    /\ None \notin Fibers
    /\ WriterRequests \subseteq ModeRequests \cup {Write}

VARIABLES
    session,        \* lifecycle, restored flags, pending queries
    tty,            \* external: the line discipline, original or raw
    doing           \* the operation the owner is in, and its argument

sessionVars == <<session, tty, doing>>
terminalVars == <<outputVars, sessionVars>>

NotDoing == [op |-> "none", arg |-> None]

SessionInit ==
    /\ OutputInit
    /\ session = [lifecycle |-> "ready",
                  outputRestored |-> FALSE,
                  terminalRestored |-> FALSE,
                  queries |-> {}]
    /\ tty = "original"
    /\ doing = NotDoing

(* A writer fiber presents a frame or sets a mode on the output directly.    *)
WriterCalls(f) ==
    /\ f # Owner
    /\ call[f].phase = "idle"
    /\ \E r \in WriterRequests : Asks(f, r)
    /\ UNCHANGED <<modes, status, terminal, holder, sessionVars>>

WriterReturns(f) ==
    /\ f # Owner
    /\ call[f].phase \in {"ok", "error"}
    /\ call' = [call EXCEPT ![f] = Idle]
    /\ UNCHANGED <<modes, status, terminal, holder, sessionVars>>

OutputRuns(f) == OutputStep(f) /\ UNCHANGED sessionVars

-----------------------------------------------------------------------------
OwnerFree == doing.op = "none"

(* enter: setattr may fail and leaves everything as it was.                  *)
Enter ==
    /\ OwnerFree
    /\ session.lifecycle = "ready"
    /\ session' = [session EXCEPT !.lifecycle = "entered"]
    /\ tty' = "raw"
    /\ UNCHANGED <<outputVars, doing>>

(* setup_output writes the screen, then bracketed paste. *)
SetupOutput ==
    /\ OwnerFree
    /\ session.lifecycle # "restored"
    /\ \E screen \in {"main", "alternate"}, paste \in BOOLEAN :
         /\ doing' = [op |-> "setup", arg |-> paste]
         /\ Asks(Owner, Request("screen", screen))
    /\ UNCHANGED <<modes, status, terminal, holder, session, tty>>

SetupContinues ==
    /\ doing.op = "setup"
    /\ call[Owner].phase = "ok"
    /\ doing' = [op |-> "paste", arg |-> None]
    /\ Asks(Owner, Request("paste", doing.arg))
    /\ UNCHANGED <<modes, status, terminal, holder, session, tty>>

SetupReturns ==
    /\ \/ doing.op = "setup" /\ call[Owner].phase = "error"
       \/ doing.op = "paste" /\ call[Owner].phase \in {"ok", "error"}
    /\ doing' = NotDoing
    /\ call' = [call EXCEPT ![Owner] = Idle]
    /\ UNCHANGED <<modes, status, terminal, holder, session, tty>>

(* schedule_query records the query once its bytes are written.              *)
ScheduleQuery ==
    /\ OwnerFree
    /\ session.lifecycle # "restored"
    /\ \E q \in Queries : doing' = [op |-> "query", arg |-> q]
    /\ Asks(Owner, Write)
    /\ UNCHANGED <<modes, status, terminal, holder, session, tty>>

QueryReturns ==
    /\ doing.op = "query"
    /\ call[Owner].phase \in {"ok", "error"}
    /\ session' = IF call[Owner].phase = "ok"
                  THEN [session EXCEPT !.queries = @ \cup {doing.arg}]
                  ELSE session
    /\ doing' = NotDoing
    /\ call' = [call EXCEPT ![Owner] = Idle]
    /\ UNCHANGED <<modes, status, terminal, holder, tty>>

AcknowledgeQuery ==
    /\ \E q \in session.queries :
         session' = [session EXCEPT !.queries = @ \ {q}]
    /\ UNCHANGED <<outputVars, tty, doing>>

-----------------------------------------------------------------------------
(* restore, close and the switch's release hook: reset the output unless an  *)
(* earlier attempt did.                                                      *)
Restore ==
    /\ OwnerFree
    /\ session.lifecycle # "restored"
    /\ ~session.outputRestored
    /\ doing' = [op |-> "restore", arg |-> None]
    /\ Asks(Owner, Request("reset", "initial"))
    /\ UNCHANGED <<modes, status, terminal, holder, session, tty>>

MutantRestored(outputRestored, setattr) ==
    LET terminalRestored ==
            session.lifecycle = "ready" \/ session.terminalRestored \/ setattr
    IN  [session EXCEPT
            !.outputRestored = outputRestored,
            !.terminalRestored = terminalRestored,
            !.lifecycle = IF outputRestored THEN "restored" ELSE @]

(* The rest of restore once the output is reset or has failed: in Ready      *)
(* there are no terminal attributes to put back, in Entered setattr puts     *)
(* them back (or fails, setattr = FALSE) unless an earlier attempt did.      *)
Restored(outputRestored, setattr) ==
    LET terminalRestored ==
            session.lifecycle = "ready" \/ session.terminalRestored \/ setattr
    IN  [session EXCEPT
            !.outputRestored = outputRestored,
            !.terminalRestored = terminalRestored,
            !.lifecycle = IF outputRestored /\ terminalRestored
                          THEN "restored" ELSE @]

RestoreTerminal(outputRestored) ==
    \E setattr \in BOOLEAN :
        /\ session' = Restored(outputRestored, setattr)
        /\ tty' = IF session.lifecycle = "entered"
                       /\ ~session.terminalRestored /\ setattr
                  THEN "original" ELSE tty

RestoreReturns ==
    /\ doing.op = "restore"
    /\ call[Owner].phase \in {"ok", "error"}
    /\ RestoreTerminal(call[Owner].phase = "ok")
    /\ doing' = NotDoing
    /\ call' = [call EXCEPT ![Owner] = Idle]
    /\ UNCHANGED <<modes, status, terminal, holder>>

(* A retry after the output was reset and setattr failed. *)
RestoreRetries ==
    /\ OwnerFree
    /\ session.lifecycle # "restored"
    /\ session.outputRestored
    /\ RestoreTerminal(TRUE)
    /\ UNCHANGED <<outputVars, doing>>

-----------------------------------------------------------------------------
SessionNext ==
    \/ \E f \in Fibers :
         \/ WriterCalls(f)
         \/ WriterReturns(f)
         \/ OutputRuns(f)
    \/ Enter
    \/ SetupOutput
    \/ SetupContinues
    \/ SetupReturns
    \/ ScheduleQuery
    \/ QueryReturns
    \/ AcknowledgeQuery
    \/ Restore
    \/ RestoreReturns
    \/ RestoreRetries

SessionSpec == SessionInit /\ [][SessionNext]_terminalVars

(* The sink accepts or fails every write in the end; Eio's mutex serves its  *)
(* waiters in order, so a fiber that queues for it gets it.                  *)
SessionFairness ==
    \A f \in Fibers :
        /\ WF_terminalVars((SinkAccepts(f) \/ SinkFails(f)) /\ UNCHANGED sessionVars)
        /\ SF_terminalVars(Acquire(f) /\ UNCHANGED sessionVars)

SessionFairSpec == SessionSpec /\ SessionFairness

-----------------------------------------------------------------------------
(* Type invariant. *)
SessionTypeOK ==
    /\ modes \in [screen : {"main", "alternate"}, cursor : BOOLEAN,
                  mouse : {"disabled", "buttons", "motion"},
                  mouseWasEnabled : BOOLEAN, paste : BOOLEAN]
    /\ status \in {"healthy", "poisoned"}
    /\ terminal \subseteq {25, 1000, 1002, 1003, 1006, 1049, 2004}
    /\ holder \in Fibers \cup {None}
    /\ \A f \in Fibers :
         /\ call[f].request \in ModeRequests \cup {Write, None}
         /\ call[f].phase \in Phases
         /\ call[f].phase = "write" <=> holder = f
    /\ session \in [lifecycle : {"ready", "entered", "restored"},
                    outputRestored : BOOLEAN,
                    terminalRestored : BOOLEAN,
                    queries : SUBSET Queries]
    /\ tty \in {"original", "raw"}
    /\ doing \in [op : {"none", "setup", "paste", "query", "restore"},
                  arg : Queries \cup BOOLEAN \cup {None}]

(* In well-typed state, while the adapter is healthy and nobody is writing,  *)
(* the mutex is held exactly by the fiber in a write, and the terminal is in *)
(* exactly the modes the adapter tracks: a transition may write the          *)
(* difference only.                                                          *)
ModesAgree ==
    /\ SessionTypeOK
    /\ (status = "healthy" /\ holder = None) => terminal = Expected(modes)

(* Nothing reaches the terminal once a write has failed: a fiber that was    *)
(* waiting for the mutex meanwhile does not write on top of a torn sequence. *)
PoisonIsFinal ==
    [][status = "poisoned" => status' = "poisoned" /\ terminal' = terminal]_terminalVars

(* A restored session has put the original line discipline back, whatever    *)
(* attempts failed before.                                                   *)
RestoredIsCooked == session.lifecycle = "restored" => tty = "original"

(* Every write, mode change and reset returns: the mutex is released on      *)
(* every path.                                                               *)
CallsReturn ==
    \A f \in Fibers :
        call[f].phase = "lock" ~> call[f].phase \in {"ok", "error"}

=============================================================================
