---------------------------- MODULE InputPipeline ----------------------------
(* Terminal input from the tty to the event handler: the reader and timeout  *)
(* fibers on Eio_runtime.Input_flow, Lib.Input_coordinator with the parser   *)
(* behind it, the bounded Event_queue, the Wakeup that pairs with it, and    *)
(* the Dispatch loop.                                                        *)
(*                                                                           *)
(* All fibers share one domain.  A call into the input flow never suspends   *)
(* except in single_read, so a call is a sequence of steps during which no   *)
(* other fiber moves: call says which call is in progress and drain which    *)
(* of its drains is running.                                                 *)
(*                                                                           *)
(* A byte is its position in the input, whose kinds are given by input: a    *)
(* key or a pointer motion report is one byte, an escape opens a sequence    *)
(* that the next byte completes.  An event carries the bytes it was decoded  *)
(* from, so that loss, duplication and reordering are visible.               *)
EXTENDS Naturals, Sequences, SequencesExt

CONSTANTS
    InputLength,    \* bytes the terminal sends
    BufferSize,     \* bytes one read of the flow may return
    ChunkSize,      \* push_chunk_size of the coordinator
    QueueCapacity,  \* slots of the event queue
    Timeout,        \* ticks an incomplete prefix may stay pending
    MaxResizes,     \* bound on resize notifications
    None

ASSUME SizesAssumption ==
    /\ InputLength \in Nat /\ BufferSize \in Nat \ {0}
    /\ ChunkSize \in Nat \ {0} /\ QueueCapacity \in Nat \ {0}
    /\ Timeout \in Nat \ {0} /\ MaxResizes \in Nat

Calls == {"leftover", "fresh", "timeout", "context"}
Drains == {"admit", "chunk", "beforeRead", "beforeFlush", "afterFlush", "afterContext"}

Kinds == {"key", "motion", "escape"}

KeyEvents == [kind : {"key", "sequence"}, bytes : Seq(1 .. InputLength)]
MotionEvents == [kind : {"motion"}, bytes : Seq(1 .. InputLength)]
ResizeEvents == [kind : {"resize"}, bytes : {<<>>}, size : 1 .. MaxResizes]

ASSUME NoneAssumption ==
    None \notin Nat \cup Calls \cup Drains \cup KeyEvents \cup MotionEvents

VARIABLES
    input,          \* the kinds of the bytes the terminal sends
    received,       \* how many of them the flow has read
    readBuffer,     \* bytes read and not yet accepted by the coordinator
    prefix,         \* the parser's pending bytes
    parsed,         \* the parser's decoded events
    pending,        \* the coordinator's event the queue refused, or None
    deferring,      \* the protocol context keeps an incomplete prefix opaque
    deadline,       \* ticks until the pending prefix times out, or None
    reader,         \* reader fiber: "ready", "reading" or "ended"
    call,           \* call in progress, or None
    drain,          \* which drain of the call is running, or None
    slots, head, tail, length,  \* the event queue
    notified,       \* the wakeup moved since the dispatcher last observed it
    dispatcher,     \* dispatcher fiber: "loop", "handling" or "waiting"
    handled,        \* events given to the handler, oldest first
    resizes,        \* resize notifications so far
    discarded       \* bytes dropped by reset

queue == <<slots, head, tail, length>>
parser == <<prefix, parsed, deferring>>
flow == <<input, received, readBuffer, reader>>
control == <<call, drain>>
dispatch == <<dispatcher, handled>>
vars == <<flow, parser, pending, deadline, control, queue, notified,
          dispatch, resizes, discarded>>

Queue == INSTANCE EventQueue
    WITH Capacity <- QueueCapacity, Resizes <- ResizeEvents,
         Motions <- MotionEvents, Lossless <- KeyEvents

Init ==
    /\ input \in [1 .. InputLength -> Kinds]
    /\ received = 0 /\ readBuffer = <<>> /\ reader = "ready"
    /\ prefix = <<>> /\ parsed = <<>> /\ deferring \in BOOLEAN
    /\ pending = None /\ deadline = None
    /\ call = None /\ drain = None
    /\ Queue!QueueInit
    /\ notified = FALSE /\ dispatcher = "loop" /\ handled = <<>>
    /\ resizes = 0 /\ discarded = {}

-----------------------------------------------------------------------------
(* The parser, as the coordinator sees it.                                   *)

Event(kind, bytes) == [kind |-> kind, bytes |-> bytes]
BytesOf(events) == UNION {ToSet(events[k].bytes) : k \in DOMAIN events}

(* One byte: p is the parser's state before it. *)
ParseByte(p, byte) ==
    IF p.prefix # <<>>
    THEN [prefix |-> <<>>,
          parsed |-> Append(p.parsed, Event("sequence", Append(p.prefix, byte)))]
    ELSE IF input[byte] = "escape"
         THEN [p EXCEPT !.prefix = <<byte>>]
         ELSE [p EXCEPT !.parsed = Append(@, Event(input[byte], <<byte>>))]

Parse(bytes) ==
    LET after[n \in 0 .. Len(bytes)] ==
            IF n = 0 THEN [prefix |-> prefix, parsed |-> parsed]
                     ELSE ParseByte(after[n - 1], bytes[n])
    IN  after[Len(bytes)]

MutantNoDeadline == UNCHANGED deadline

(* refresh_deadline, with the prefix the step leaves behind.                 *)
RefreshDeadline == deadline' = IF prefix' = <<>> THEN None ELSE Timeout

-----------------------------------------------------------------------------
(* Calls into the input flow.                                                *)

Busy == call # None

Call(name, first) == call' = name /\ drain' = first

Return == call' = None /\ drain' = None

(* read_once begins.  push_read_buffer with nothing left over is Accepted at *)
(* once, and the drain before the read follows.                              *)
ReadOnce ==
    /\ ~Busy /\ reader = "ready"
    /\ IF readBuffer = <<>> THEN Call("leftover", "beforeRead")
                            ELSE Call("leftover", "admit")
    /\ UNCHANGED <<flow, parser, pending, deadline, queue, notified, dispatch,
                   resizes, discarded>>

(* single_read returns bytes: they are pushed at once. *)
ReadReturns ==
    /\ ~Busy /\ reader = "reading"
    /\ \E count \in 1 .. BufferSize :
         /\ received + count <= InputLength
         /\ received' = received + count
         /\ readBuffer' = [i \in 1 .. count |-> received + i]
    /\ reader' = "ready"
    /\ Call("fresh", "admit")
    /\ UNCHANGED <<input, parser, pending, deadline, queue, notified,
                   dispatch, resizes, discarded>>

(* single_read answers end of file. *)
ReadEnds ==
    /\ ~Busy /\ reader = "reading"
    /\ received = InputLength
    /\ reader' = "ended"
    /\ UNCHANGED <<input, received, readBuffer, parser, pending, deadline,
                   control, queue, notified, dispatch, resizes, discarded>>

MutantTimeoutSkipsBuffer ==
    /\ ~Busy
    /\ Call("timeout", "beforeFlush")
    /\ UNCHANGED <<flow, parser, pending, deadline, queue, notified, dispatch,
                   resizes, discarded>>

(* The timeout fiber calls fire_timeout: what was read is pushed first.      *)
FireTimeout ==
    /\ ~Busy
    /\ IF readBuffer = <<>> THEN Call("timeout", "beforeFlush")
                            ELSE Call("timeout", "admit")
    /\ UNCHANGED <<flow, parser, pending, deadline, queue, notified, dispatch,
                   resizes, discarded>>

-----------------------------------------------------------------------------
(* drain: the refused event first, then what the parser has decoded.         *)

DrainTake ==
    /\ drain # None
    /\ pending = None /\ parsed # <<>>
    /\ pending' = Head(parsed)
    /\ parsed' = Tail(parsed)
    /\ UNCHANGED <<flow, prefix, deferring, deadline, control, queue, notified, dispatch,
                   resizes, discarded>>

DrainEmit ==
    /\ drain # None
    /\ pending # None
    /\ Queue!PushOk(pending)
    /\ pending' = None
    /\ notified' = TRUE
    /\ UNCHANGED <<flow, parser, deadline, control, dispatch, resizes,
                   discarded>>

(* What the call that answers Full does with the deadline.                   *)
DeadlineAfterFull ==
    CASE drain \in {"chunk", "afterFlush"} ->
           deadline' = IF prefix = <<>> THEN None ELSE Timeout
      [] drain = "afterContext" -> deadline' = None
      [] OTHER -> UNCHANGED deadline

MutantFullDropsEvent ==
    /\ drain # None
    /\ pending # None
    /\ Queue!PushFull(pending)
    /\ pending' = None
    /\ DeadlineAfterFull
    /\ Return
    /\ UNCHANGED <<flow, parser, queue, notified, dispatch, resizes, discarded>>

(* The queue is full: the drain, and the call with it, answers Full.  The    *)
(* event stays pending, the bytes that were not pushed stay in the buffer.   *)
DrainFull ==
    /\ drain # None
    /\ pending # None
    /\ Queue!PushFull(pending)
    /\ DeadlineAfterFull
    /\ Return
    /\ UNCHANGED <<flow, parser, pending, queue, notified, dispatch, resizes,
                   discarded>>

Drained == drain # None /\ pending = None /\ parsed = <<>>

(* accept_push pushes the next chunk once the drain before it accepted all.  *)
PushChunk ==
    /\ Drained
    /\ drain \in {"admit", "chunk"}
    /\ readBuffer # <<>>
    /\ LET take == IF Len(readBuffer) < ChunkSize THEN Len(readBuffer)
                                                  ELSE ChunkSize
           p == Parse(SubSeq(readBuffer, 1, take))
       IN  /\ prefix' = p.prefix
           /\ parsed' = p.parsed
           /\ readBuffer' = SubSeq(readBuffer, take + 1, Len(readBuffer))
    /\ drain' = "chunk"
    /\ UNCHANGED <<input, received, reader, deferring, pending, deadline, call,
                   queue, notified, dispatch, resizes, discarded>>

(* accept_push accepted everything: the deadline follows the prefix, and the *)
(* caller goes on - to the drain before the read, to its return, or to the   *)
(* drain before the flush.                                                   *)
PushAccepted ==
    /\ Drained
    /\ drain = "chunk" /\ readBuffer = <<>>
    /\ UNCHANGED parser
    /\ RefreshDeadline
    /\ CASE call = "leftover" -> drain' = "beforeRead" /\ UNCHANGED call
         [] call = "fresh"    -> Return
         [] call = "timeout"  -> drain' = "beforeFlush" /\ UNCHANGED call
    /\ UNCHANGED <<flow, pending, queue, notified, dispatch, resizes,
                   discarded>>

(* read_once suspends in single_read; the domain is free again.              *)
Suspend ==
    /\ Drained
    /\ drain = "beforeRead"
    /\ reader' = "reading"
    /\ Return
    /\ UNCHANGED <<input, received, readBuffer, parser, pending, deadline,
                   queue, notified, dispatch, resizes, discarded>>

(* force_flush_pending: the prefix becomes an event as it stands.            *)
Flush ==
    /\ prefix' = <<>>
    /\ parsed' = IF prefix = <<>> THEN <<>> ELSE <<Event("sequence", prefix)>>
    /\ UNCHANGED deferring

(* fire_timeout of the coordinator: an elapsed deadline flushes the prefix,  *)
(* unless the protocol context defers it.                                    *)
FlushTimeout ==
    /\ Drained
    /\ drain = "beforeFlush"
    /\ deadline = 0
    /\ IF deferring THEN UNCHANGED parser ELSE Flush
    /\ drain' = "afterFlush"
    /\ UNCHANGED <<flow, pending, deadline, call, queue, notified, dispatch,
                   resizes, discarded>>

TimeoutReturns ==
    /\ Drained
    /\ UNCHANGED parser
    /\ \/ drain = "beforeFlush" /\ deadline # 0 /\ UNCHANGED deadline
       \/ drain = "afterFlush" /\ RefreshDeadline
    /\ Return
    /\ UNCHANGED <<flow, pending, queue, notified, dispatch, resizes,
                   discarded>>

(* update_protocol_context when capability detection ends: a prefix that is  *)
(* no longer deferred is flushed at once, and its deadline goes with it.     *)
UpdateProtocolContext ==
    /\ ~Busy /\ deferring
    /\ deferring' = FALSE
    /\ prefix' = <<>>
    /\ parsed' = IF prefix = <<>> THEN parsed
                 ELSE Append(parsed, Event("sequence", prefix))
    /\ Call("context", "afterContext")
    /\ UNCHANGED <<flow, pending, deadline, queue, notified, dispatch,
                   resizes, discarded>>

ContextReturns ==
    /\ Drained
    /\ drain = "afterContext"
    /\ deadline' = None
    /\ Return
    /\ UNCHANGED <<flow, parser, pending, queue, notified, dispatch, resizes,
                   discarded>>

(* Input_flow.reset drops everything that is not in the queue yet.           *)
Reset ==
    /\ ~Busy
    /\ discarded' = discarded \cup ToSet(readBuffer) \cup ToSet(prefix)
                    \cup BytesOf(parsed) \cup (IF pending = None THEN {} ELSE ToSet(pending.bytes))
    /\ readBuffer' = <<>> /\ prefix' = <<>> /\ parsed' = <<>>
    /\ pending' = None /\ deadline' = None
    /\ UNCHANGED <<input, received, reader, deferring, control, queue,
                   notified, dispatch, resizes>>

Tick ==
    /\ ~Busy
    /\ deadline # None /\ deadline # 0
    /\ deadline' = deadline - 1
    /\ UNCHANGED <<flow, parser, pending, control, queue, notified, dispatch,
                   resizes, discarded>>

-----------------------------------------------------------------------------
(* Resizes and the dispatcher.                                               *)

(* Wakeup.push of a resize: the wakeup moves only if the queue took it.      *)
PushResize ==
    /\ ~Busy
    /\ resizes < MaxResizes
    /\ resizes' = resizes + 1
    /\ LET event == [kind |-> "resize", bytes |-> <<>>, size |-> resizes + 1]
       IN  \/ Queue!PushOk(event) /\ notified' = TRUE
           \/ Queue!PushFull(event) /\ UNCHANGED <<queue, notified>>
    /\ UNCHANGED <<flow, parser, pending, deadline, control, dispatch,
                   discarded>>

(* Dispatch.run takes the oldest event and hands it to the handler, which    *)
(* may suspend; after it, or after a yield, the loop reads again.            *)
DispatchRead ==
    /\ ~Busy /\ dispatcher = "loop"
    /\ handled' = Append(handled, slots[head])
    /\ Queue!ReadEvent
    /\ dispatcher' = "handling"
    /\ UNCHANGED <<flow, parser, pending, deadline, control, notified,
                   resizes, discarded>>

DispatchHandled ==
    /\ ~Busy /\ dispatcher = "handling"
    /\ dispatcher' = "loop"
    /\ UNCHANGED <<flow, parser, pending, deadline, control, queue, notified,
                   handled, resizes, discarded>>

MutantWaitWithoutRecheck ==
    /\ ~Busy /\ dispatcher = "loop"
    /\ notified' = FALSE
    /\ dispatcher' = "waiting"
    /\ UNCHANGED <<flow, parser, pending, deadline, control, queue, handled,
                   resizes, discarded>>

(* The queue is empty: the revision is observed and waited on.               *)
DispatchWait ==
    /\ ~Busy /\ dispatcher = "loop"
    /\ length = 0
    /\ notified' = FALSE
    /\ dispatcher' = "waiting"
    /\ UNCHANGED <<flow, parser, pending, deadline, control, queue, handled,
                   resizes, discarded>>

DispatchWake ==
    /\ ~Busy /\ dispatcher = "waiting"
    /\ notified
    /\ dispatcher' = "loop"
    /\ UNCHANGED <<flow, parser, pending, deadline, control, queue, notified,
                   handled, resizes, discarded>>

-----------------------------------------------------------------------------
CallStep ==
    \/ DrainTake \/ DrainEmit \/ DrainFull \/ PushChunk \/ PushAccepted
    \/ Suspend \/ FlushTimeout \/ TimeoutReturns \/ ContextReturns

Reader == ReadOnce \/ ReadReturns \/ ReadEnds

Dispatcher == DispatchRead \/ DispatchHandled \/ DispatchWait \/ DispatchWake

Next ==
    \/ CallStep \/ Reader \/ Dispatcher
    \/ FireTimeout \/ UpdateProtocolContext \/ Reset \/ Tick \/ PushResize

Spec == Init /\ [][Next]_vars

(* The Eio run queue is first in first out, so a fiber that is runnable      *)
(* again and again is run; the clock advances, the timeout fiber's sleep     *)
(* ends, and capability detection does not last for ever.                    *)
FairSpec ==
    /\ Spec
    /\ WF_vars(CallStep) /\ SF_vars(Reader) /\ SF_vars(Dispatcher)
    /\ SF_vars(Tick) /\ SF_vars(FireTimeout) /\ SF_vars(UpdateProtocolContext)

-----------------------------------------------------------------------------
(* Properties.                                                               *)

InputEvent(e) ==
    /\ e.kind \in {"key", "motion", "sequence"}
    /\ Len(e.bytes) \in 1 .. 2
    /\ \A i \in DOMAIN e.bytes : e.bytes[i] \in 1 .. received

(* Type invariant. *)
InputTypeOK ==
    /\ received \in 0 .. InputLength
    /\ Len(readBuffer) <= BufferSize
    /\ Len(prefix) <= 1
    /\ \A i \in DOMAIN parsed : InputEvent(parsed[i])
    /\ pending # None => InputEvent(pending)
    /\ deadline \in 0 .. Timeout \cup {None}
    /\ reader \in {"ready", "reading", "ended"}
    /\ call \in Calls \cup {None}
    /\ drain \in Drains \cup {None}
    /\ call = None <=> drain = None
    /\ length \in 0 .. QueueCapacity
    /\ dispatcher \in {"loop", "handling", "waiting"}

(* The events past the coordinator and before it, oldest first. *)
Handed == handled \o Queue!Pending
Waiting == (IF pending = None THEN <<>> ELSE <<pending>>) \o parsed

Line == Handed \o Waiting

(* The events that may not be lost, and the bytes in them or in no event yet. *)
Lossless == {k \in DOMAIN Line : Line[k].kind \in {"key", "sequence"}}
LosslessBytes ==
    (UNION {ToSet(Line[k].bytes) : k \in Lossless}) \cup ToSet(prefix) \cup ToSet(readBuffer)

MotionBytes == {i \in 1 .. InputLength : input[i] = "motion"}

Ascending(bytes) == \A i, j \in DOMAIN bytes : i < j => bytes[i] < bytes[j]
Precedes(bytes, later) == \A i \in DOMAIN bytes, j \in DOMAIN later : bytes[i] < later[j]

(* Backpressure loses, duplicates and reorders nothing: at every moment each *)
(* byte read is in exactly one place, and along the pipeline the bytes of    *)
(* keys and sequences are in the order they were typed.  Only pointer motion *)
(* (coalesced) and what reset discarded may be missing.                      *)
KeptOnceInOrder ==
    /\ \A k \in Lossless :
         /\ Ascending(Line[k].bytes) /\ Precedes(Line[k].bytes, prefix \o readBuffer)
         /\ \A l \in Lossless : k < l => Precedes(Line[k].bytes, Line[l].bytes)
    /\ Ascending(prefix \o readBuffer)
    /\ LosslessBytes \cap discarded = {}
    /\ (1 .. received) \ (discarded \cup MotionBytes) \subseteq LosslessBytes

(* Coalescing keeps the newest pointer position: a motion that left the      *)
(* coordinator has been handled or will be, or a newer one has or will.      *)
NewestMotionKept ==
    \A i \in MotionBytes \cap 1 .. received :
        \/ i \in discarded \cup LosslessBytes \cup BytesOf(Waiting)
        \/ \E k \in DOMAIN Handed :
             Handed[k].kind = "motion" /\ i <= Handed[k].bytes[1]

(* Backpressure keeps every byte that matters: the two properties above, in
   well-typed state. *)
EventsKept == InputTypeOK /\ KeptOnceInOrder /\ NewestMotionKept

(* Between calls an incomplete prefix is pending exactly when its timeout is *)
(* armed, also after calls that were cut short by a full queue.              *)
TimeoutArmed == ~Busy => (deadline # None <=> prefix # <<>>)

(* Nobody sleeps over work: a dispatcher that waits while an event is queued *)
(* has been notified, and a prefix that waits for more bytes has a timeout.  *)
NoMissedEvent == (dispatcher = "waiting" /\ length > 0 => notified) /\ TimeoutArmed

(* A timeout never cuts a sequence short whose next byte was already read:   *)
(* bytes held back by a full queue reach the parser before the flush.        *)
NoSplitSequence ==
    [][prefix # <<>> /\ prefix' = <<>> /\ drain' = "afterFlush"
         => readBuffer = <<>>]_vars

(* Every byte that was read is eventually handled, however often the queue   *)
(* was full and wherever the sequence it belongs to was cut.  The input is   *)
(* finite and handled only grows, so it is enough that the pipeline catches  *)
(* up with what was read again and again.                                    *)
EventuallyHandled ==
    []<>(1 .. received \subseteq
            BytesOf(handled) \cup discarded \cup MotionBytes)

=============================================================================
