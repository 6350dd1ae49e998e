----------------------------- MODULE EventQueue -----------------------------
(* The bounded terminal event queue of lib/event_queue.ml: a ring of option  *)
(* slots shared by the input coordinator (which pushes decoded input), the   *)
(* terminal session (which pushes resizes) and the dispatch loop (which      *)
(* reads).  All three run on one domain, so each operation is one step.      *)
(*                                                                           *)
(* Resize events and pointer motion are coalesced: a push of such an event   *)
(* overwrites the first pending event of its class where it stands and       *)
(* leaves head, tail and length alone.                                       *)
EXTENDS Naturals

CONSTANTS
    Capacity,   \* number of slots
    Resizes,    \* Resize events
    Motions,    \* mouse Move and Drag events
    Lossless,   \* key, paste, response, button and scroll events
    None        \* an empty slot

ASSUME CapacityAssumption == Capacity \in Nat \ {0}

Events == Resizes \cup Motions \cup Lossless

ASSUME EventsAssumption ==
    /\ None \notin Events
    /\ Resizes \cap Motions = {}
    /\ Resizes \cap Lossless = {}
    /\ Motions \cap Lossless = {}

VARIABLES
    slots,      \* the ring
    head,       \* index of the oldest event
    tail,       \* index the next event is written to
    length      \* number of pending events

queueVars == <<slots, head, tail, length>>

Indices == 0 .. (Capacity - 1)

QueueInit ==
    /\ slots = [i \in Indices |-> None]
    /\ head = 0
    /\ tail = 0
    /\ length = 0

Advance(i) == IF i + 1 = Capacity THEN 0 ELSE i + 1

(* The slot k places after head, for k < Capacity. *)
At(k) == IF head + k < Capacity THEN head + k ELSE head + k - Capacity

(* replace_pending walks the ring from head and stops at the first match. *)
FirstPending(class, k) ==
    /\ k \in 0 .. (length - 1)
    /\ slots[At(k)] \in class
    /\ \A j \in 0 .. (k - 1) : slots[At(j)] \notin class

HasPending(class) == \E k \in 0 .. (length - 1) : slots[At(k)] \in class

ReplacePending(class, event) ==
    /\ \E k \in 0 .. (length - 1) :
         /\ FirstPending(class, k)
         /\ slots' = [slots EXCEPT ![At(k)] = event]
    /\ UNCHANGED <<head, tail, length>>

MutantEnqueueOverwrites(event) ==
    /\ slots' = [slots EXCEPT ![tail] = event]
    /\ tail' = Advance(tail)
    /\ head' = IF length = Capacity THEN Advance(head) ELSE head
    /\ length' = IF length = Capacity THEN length ELSE length + 1

Enqueue(event) ==
    /\ length # Capacity
    /\ slots' = [slots EXCEPT ![tail] = event]
    /\ tail' = Advance(tail)
    /\ length' = length + 1
    /\ UNCHANGED head

MutantPushAppends(event) == Enqueue(event)

(* push succeeds when the event replaces a pending one or a slot is free.    *)
PushOk(event) ==
    IF event \in Resizes /\ HasPending(Resizes)
    THEN ReplacePending(Resizes, event)
    ELSE IF event \in Motions /\ HasPending(Motions)
         THEN ReplacePending(Motions, event)
         ELSE Enqueue(event)

(* push answers Full: nothing to replace and no free slot.                   *)
PushFull(event) ==
    /\ ~(event \in Resizes /\ HasPending(Resizes))
    /\ ~(event \in Motions /\ HasPending(Motions))
    /\ length = Capacity

(* read: the event returned is slots[head]. *)
ReadEvent ==
    /\ length # 0
    /\ slots' = [slots EXCEPT ![head] = None]
    /\ head' = Advance(head)
    /\ length' = length - 1
    /\ UNCHANGED tail

Clear ==
    /\ slots' = [i \in Indices |-> None]
    /\ head' = 0
    /\ tail' = 0
    /\ length' = 0

(* The pending events, oldest first. *)
Pending == [k \in 1 .. length |-> slots[At(k - 1)]]

-----------------------------------------------------------------------------
(* The queue under arbitrary calls.                                          *)

QueueNext ==
    \/ \E event \in Events : PushOk(event)
    \/ ReadEvent
    \/ Clear

QueueSpec == QueueInit /\ [][QueueNext]_queueVars

-----------------------------------------------------------------------------
(* Type invariant. *)
QueueTypeOK ==
    /\ slots \in [Indices -> Events \cup {None}]
    /\ head \in Indices
    /\ tail \in Indices
    /\ length \in 0 .. Capacity

(* The ring is intact: tail is length places past head, exactly the slots    *)
(* between them hold an event, and every slot outside is empty - so read     *)
(* never returns None for a non-empty queue and no event hides in a free     *)
(* slot to be overwritten by enqueue.                                        *)
RingIntact ==
    /\ tail = IF head + length < Capacity THEN head + length
                                          ELSE head + length - Capacity
    /\ \A i \in Indices :
         slots[i] # None <=> \E k \in 0 .. (length - 1) : At(k) = i

(* At most one resize and one motion event are ever pending: a burst of      *)
(* either kind can fill at most two slots of the queue.                      *)
CoalescedOnce ==
    \A i, j \in Indices :
        i # j => \A class \in {Resizes, Motions} :
                   ~(slots[i] \in class /\ slots[j] \in class)

Promised == INSTANCE CoalescingQueue
    WITH Coalesced <- {Resizes, Motions}, pending <- Pending

(* The ring implements the coalescing queue: whatever sequence of push, read *)
(* and clear is made, events leave in the order of the places they took, and *)
(* a full queue neither drops nor overwrites one.                            *)
KeepsPromise == Promised!CoalescingSpec

=============================================================================
