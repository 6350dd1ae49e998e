----------------------------- MODULE OutputFlow -----------------------------
(* Terminal output: the mode transitions of lib/terminal_modes.ml written    *)
(* through the mutex-guarded sink adapter platform/eio_runtime/              *)
(* output_flow.ml, and the modes the terminal is really in.                  *)
(*                                                                           *)
(* A transition writes only the difference to the tracked state, so every    *)
(* later transition is wrong once the terminal and the tracked state differ. *)
(* Output is a sequence of items: <<m, on>> sets or resets DEC private mode  *)
(* m, and Data stands for bytes that touch no tracked mode (a frame, a       *)
(* query, "\x1b[0m").  The sink takes one item at a time and may fail at     *)
(* any of them; the fiber is suspended meanwhile, holding the mutex.         *)
EXTENDS Naturals, Sequences

CONSTANTS
    Fibers,         \* the fibers that write
    None

VARIABLES
    modes,          \* Output_flow.state: the tracked modes
    status,         \* healthy or poisoned
    terminal,       \* external: the private modes the terminal has on
    holder,         \* the fiber that holds the mutex
    call            \* each fiber's call: what it asks for and how far it is

outputVars == <<modes, status, terminal, holder, call>>

Data == <<0, TRUE>>

InitialModes == [screen |-> "main", cursor |-> TRUE, mouse |-> "disabled",
                 mouseWasEnabled |-> FALSE, paste |-> FALSE]

(* The requests: the set_ functions, disable_mouse, reset and plain writes. *)
Request(kind, to) == [kind |-> kind, to |-> to]

ModeRequests ==
    {Request("screen", to) : to \in {"main", "alternate"}}
        \cup {Request(kind, to) : kind \in {"cursor", "paste"}, to \in BOOLEAN}
        \cup {Request("mouse", to) : to \in {"buttons", "motion", "disabled"}}
        \cup {Request("reset", "initial")}

Write == Request("write", "data")

-----------------------------------------------------------------------------
(* terminal_modes.ml: the items a request writes in the tracked state m.     *)

MouseDisable == <<<<1003, FALSE>>, <<1002, FALSE>>, <<1000, FALSE>>, <<1006, FALSE>>>>

MutantMouseOutput(m, to) ==
    IF m.mouse = to THEN <<>>
    ELSE CASE to = "disabled" -> MouseDisable
           [] to = "buttons" -> <<<<1000, TRUE>>, <<1002, TRUE>>, <<1006, TRUE>>>>
           [] to = "motion" ->
                <<<<1000, TRUE>>, <<1002, TRUE>>, <<1003, TRUE>>, <<1006, TRUE>>>>

MouseOutput(m, to) ==
    IF m.mouse = to THEN <<>>
    ELSE CASE to = "disabled" -> MouseDisable
           [] to = "buttons" ->
                <<<<1003, FALSE>>, <<1000, TRUE>>, <<1002, TRUE>>, <<1006, TRUE>>>>
           [] to = "motion" ->
                <<<<1000, TRUE>>, <<1002, TRUE>>, <<1003, TRUE>>, <<1006, TRUE>>>>

ResetOutput(m) ==
    (IF m.cursor THEN <<>> ELSE <<<<25, TRUE>>>>)
        \o <<Data>>
        \o (IF m.mouseWasEnabled THEN MouseDisable ELSE <<>>)
        \o (IF m.paste THEN <<<<2004, FALSE>>>> ELSE <<>>)
        \o (IF m.screen = "main" THEN <<>> ELSE <<<<1049, FALSE>>>>)

Output(m, r) ==
    CASE r.kind = "screen" ->
           IF m.screen = r.to THEN <<>> ELSE <<<<1049, r.to = "alternate">>>>
      [] r.kind = "cursor" -> IF m.cursor = r.to THEN <<>> ELSE <<<<25, r.to>>>>
      [] r.kind = "paste" -> IF m.paste = r.to THEN <<>> ELSE <<<<2004, r.to>>>>
      [] r.kind = "mouse" -> MouseOutput(m, r.to)
      [] r.kind = "reset" -> ResetOutput(m)
      [] r.kind = "write" -> <<Data>>

(* ... and the tracked state after it. *)
NextModes(m, r) ==
    CASE r.kind = "screen" -> [m EXCEPT !.screen = r.to]
      [] r.kind = "cursor" -> [m EXCEPT !.cursor = r.to]
      [] r.kind = "paste" -> [m EXCEPT !.paste = r.to]
      [] r.kind = "mouse" ->
           [m EXCEPT !.mouse = r.to, !.mouseWasEnabled = @ \/ r.to # "disabled"]
      [] r.kind = "reset" -> InitialModes
      [] r.kind = "write" -> m

-----------------------------------------------------------------------------
(* output_flow.ml *)

Phases == {"idle", "lock", "write", "ok", "error"}

Idle == [request |-> None, phase |-> "idle", rest |-> <<>>]

OutputInit ==
    /\ modes = InitialModes
    /\ status = "healthy"
    /\ terminal = {25}
    /\ holder = None
    /\ call = [f \in Fibers |-> Idle]

(* Fiber f calls apply, write or write_frame and queues for the mutex.       *)
Asks(f, r) == call' = [call EXCEPT ![f] = [request |-> r, phase |-> "lock", rest |-> <<>>]]

MutantAcquireUnchecked(f) ==
    /\ call[f].phase = "lock"
    /\ holder = None
    /\ LET items == Output(modes, call[f].request)
       IN  IF items = <<>>
           THEN /\ call' = [call EXCEPT ![f].phase = "ok"]
                /\ UNCHANGED holder
           ELSE /\ call' = [call EXCEPT ![f].phase = "write", ![f].rest = items]
                /\ holder' = f
    /\ UNCHANGED <<modes, status, terminal>>

(* The fiber gets the mutex, computes its transition and enters              *)
(* write_subbytes_unlocked: a poisoned adapter refuses even an empty write,  *)
(* an empty write succeeds at once.                                          *)
Acquire(f) ==
    /\ call[f].phase = "lock"
    /\ holder = None
    /\ LET items == Output(modes, call[f].request)
       IN  \/ /\ status = "poisoned"
              /\ call' = [call EXCEPT ![f].phase = "error"]
              /\ UNCHANGED holder
           \/ /\ status = "healthy"
              /\ items = <<>>
              /\ call' = [call EXCEPT ![f].phase = "ok"]
              /\ UNCHANGED holder
           \/ /\ status = "healthy"
              /\ items # <<>>
              /\ call' = [call EXCEPT ![f].phase = "write", ![f].rest = items]
              /\ holder' = f
    /\ UNCHANGED <<modes, status, terminal>>

(* What the terminal does with an item. *)
Received(item) ==
    IF item = Data THEN terminal
    ELSE IF item[2] THEN terminal \cup {item[1]}
    ELSE terminal \ {item[1]}

(* single_write makes progress; with the last item the transition is         *)
(* committed and the mutex released.                                         *)
SinkAccepts(f) ==
    /\ call[f].phase = "write"
    /\ terminal' = Received(Head(call[f].rest))
    /\ IF Len(call[f].rest) = 1
       THEN /\ call' = [call EXCEPT ![f].phase = "ok", ![f].rest = <<>>]
            /\ modes' = NextModes(modes, call[f].request)
            /\ holder' = None
       ELSE /\ call' = [call EXCEPT ![f].rest = Tail(@)]
            /\ UNCHANGED <<modes, holder>>
    /\ UNCHANGED status

MutantFailsRetries(f) ==
    /\ call[f].phase = "write"
    /\ terminal' \in {terminal, Received(Head(call[f].rest))}
    /\ call' = [call EXCEPT ![f].phase = "lock", ![f].rest = <<>>]
    /\ holder' = None
    /\ UNCHANGED <<modes, status>>

(* single_write raises, is cancelled or reports no progress: the item may    *)
(* have reached the terminal or not.                                         *)
SinkFails(f) ==
    /\ call[f].phase = "write"
    /\ status' = "poisoned"
    /\ terminal' \in {terminal, Received(Head(call[f].rest))}
    /\ call' = [call EXCEPT ![f].phase = "error", ![f].rest = <<>>]
    /\ holder' = None
    /\ UNCHANGED modes

OutputStep(f) == Acquire(f) \/ SinkAccepts(f) \/ SinkFails(f)

-----------------------------------------------------------------------------
(* The private modes a tracked state stands for. *)
Expected(m) ==
    (IF m.screen = "alternate" THEN {1049} ELSE {})
        \cup (IF m.cursor THEN {25} ELSE {})
        \cup (IF m.paste THEN {2004} ELSE {})
        \cup (CASE m.mouse = "disabled" -> {}
                [] m.mouse = "buttons" -> {1000, 1002, 1006}
                [] m.mouse = "motion" -> {1000, 1002, 1003, 1006})

=============================================================================
