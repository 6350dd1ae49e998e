--------------------------- MODULE ResourceProofs ---------------------------
(***************************************************************************)
(* Proofs about the bounded queues of events and the owners of native      *)
(* memory: the terminal event queue, for every capacity and every set of   *)
(* events; the native event sink, for every capacity of its ring and any   *)
(* number of events and sinks; the text buffers, for every size of the     *)
(* native registry and any number of blocks; and the loading of images,    *)
(* for any number of images and of sources.                                *)
(***************************************************************************)
EXTENDS Integers, EventQueue, EventSink, TextBuffers, ImageLoading,
        SequenceTheorems, WellFoundedInduction, TLAPS

-----------------------------------------------------------------------------
(* The terminal event queue.                                                 *)

(* The type invariant and the shape of the ring together are inductive: the  *)
(* index arithmetic of enqueue and read stays in range only because tail is  *)
(* length places past head, and that is kept only while both are in range.   *)
RingInv == QueueTypeOK /\ RingIntact

(* Slot i lies in the window of n slots that starts at h and wraps round.    *)
Occupied(h, n, i) ==
    IF h + n <= Capacity THEN h <= i /\ i < h + n
                         ELSE h <= i \/ i < h + n - Capacity

(* The slots At(0) .. At(n - 1) are exactly the window Occupied describes.   *)
LEMMA OccupiedIsWindow ==
    ASSUME NEW h \in Indices, NEW n \in 0 .. Capacity, NEW i \in Indices
    PROVE  (\E k \in 0 .. (n - 1) :
              (IF h + k < Capacity THEN h + k ELSE h + k - Capacity) = i)
           <=> Occupied(h, n, i)
<1> DEFINE W(k) == (IF h + k < Capacity THEN h + k ELSE h + k - Capacity) = i
<1>1. ASSUME NEW k \in 0 .. (n - 1), W(k) PROVE Occupied(h, n, i)
  BY <1>1, CapacityAssumption DEF Indices, Occupied
<1>2. ASSUME Occupied(h, n, i) PROVE \E k \in 0 .. (n - 1) : W(k)
  <2>1. CASE h <= i
    <3>1. i - h \in 0 .. (n - 1) /\ W(i - h)
      BY <1>2, <2>1, CapacityAssumption DEF Indices, Occupied
    <3> QED BY <3>1
  <2>2. CASE i < h
    <3>1. i - h + Capacity \in 0 .. (n - 1) /\ W(i - h + Capacity)
      BY <1>2, <2>2, CapacityAssumption DEF Indices, Occupied
    <3> QED BY <3>1
  <2> QED BY <2>1, <2>2 DEF Indices
<1> QED BY <1>1, <1>2

(* The second half of RingIntact without its existential quantifier.         *)
LEMMA RingIntactWindow ==
    ASSUME QueueTypeOK
    PROVE  (\A i \in Indices :
              slots[i] # None <=> \E k \in 0 .. (length - 1) : At(k) = i)
           <=> (\A i \in Indices :
                  slots[i] # None <=> Occupied(head, length, i))
BY OccupiedIsWindow DEF QueueTypeOK, At

(* An empty ring is intact. *)
LEMMA RingInvInit == QueueInit => RingInv
BY CapacityAssumption, EventsAssumption
   DEF QueueInit, RingInv, QueueTypeOK, RingIntact, Indices, At

(* enqueue extends the window by the slot at tail. *)
LEMMA RingInvEnqueue ==
    ASSUME RingInv, NEW e \in Events, Enqueue(e)
    PROVE  RingInv'
<1>1. QueueTypeOK'
  BY CapacityAssumption
     DEF RingInv, QueueTypeOK, Enqueue, Advance, Indices
<1>2. RingIntact'
  <2>1. \A i \in Indices : slots'[i] # None <=> Occupied(head', length', i)
    <3>1. \A i \in Indices : slots[i] # None <=> Occupied(head, length, i)
      BY RingIntactWindow DEF RingInv, RingIntact
    <3> QED BY <3>1, CapacityAssumption, EventsAssumption
               DEF RingInv, QueueTypeOK, RingIntact, Enqueue, Advance,
                   Indices, Occupied
  <2>2. (\A i \in Indices :
           slots'[i] # None <=> \E k \in 0 .. (length' - 1) : At(k)' = i)
    BY <1>1, <2>1, OccupiedIsWindow DEF QueueTypeOK, At
  <2>3. tail' = IF head' + length' < Capacity THEN head' + length'
                                              ELSE head' + length' - Capacity
    BY CapacityAssumption
       DEF RingInv, QueueTypeOK, RingIntact, Enqueue, Advance, Indices
  <2> QED BY <2>2, <2>3 DEF RingIntact
<1> QED BY <1>1, <1>2 DEF RingInv

(* replace_pending overwrites a slot of the window with another event. *)
LEMMA RingInvReplace ==
    ASSUME RingInv, NEW class \in SUBSET Events, NEW e \in Events,
           ReplacePending(class, e)
    PROVE  RingInv'
<1>1. PICK k \in 0 .. (length - 1) :
        FirstPending(class, k) /\ slots' = [slots EXCEPT ![At(k)] = e]
  BY DEF ReplacePending
<1>2. /\ UNCHANGED <<head, tail, length>>
      /\ At(k) \in Indices
  BY CapacityAssumption DEF ReplacePending, RingInv, QueueTypeOK, At, Indices
<1>3. QueueTypeOK'
  BY <1>1, <1>2 DEF RingInv, QueueTypeOK
<1>4. \A i \in Indices : slots'[i] # None <=> slots[i] # None
  BY <1>1, <1>2, EventsAssumption
     DEF RingInv, QueueTypeOK, RingIntact, FirstPending
<1>5. RingIntact'
  BY <1>2, <1>4 DEF RingInv, RingIntact, At
<1> QED BY <1>3, <1>5 DEF RingInv

(* read takes the slot at head out of the window. *)
LEMMA RingInvRead ==
    ASSUME RingInv, ReadEvent
    PROVE  RingInv'
<1>1. QueueTypeOK'
  BY CapacityAssumption
     DEF RingInv, QueueTypeOK, ReadEvent, Advance, Indices
<1>2. RingIntact'
  <2>1. \A i \in Indices : slots'[i] # None <=> Occupied(head', length', i)
    <3>1. \A i \in Indices : slots[i] # None <=> Occupied(head, length, i)
      BY RingIntactWindow DEF RingInv, RingIntact
    <3> QED BY <3>1, CapacityAssumption, EventsAssumption
               DEF RingInv, QueueTypeOK, RingIntact, ReadEvent, Advance,
                   Indices, Occupied
  <2>2. (\A i \in Indices :
           slots'[i] # None <=> \E k \in 0 .. (length' - 1) : At(k)' = i)
    BY <1>1, <2>1, OccupiedIsWindow DEF QueueTypeOK, At
  <2>3. tail' = IF head' + length' < Capacity THEN head' + length'
                                              ELSE head' + length' - Capacity
    BY CapacityAssumption
       DEF RingInv, QueueTypeOK, RingIntact, ReadEvent, Advance, Indices
  <2> QED BY <2>2, <2>3 DEF RingIntact
<1> QED BY <1>1, <1>2 DEF RingInv

(* Every operation of the queue keeps the ring intact. *)
LEMMA RingInvStep == RingInv /\ [QueueNext]_queueVars => RingInv'
<1> SUFFICES ASSUME RingInv, [QueueNext]_queueVars PROVE RingInv'
  OBVIOUS
<1>1. ASSUME NEW e \in Events, PushOk(e) PROVE RingInv'
  <2>1. CASE e \in Resizes /\ HasPending(Resizes)
    BY <1>1, <2>1, RingInvReplace DEF PushOk, Events
  <2>2. CASE ~(e \in Resizes /\ HasPending(Resizes))
             /\ e \in Motions /\ HasPending(Motions)
    BY <1>1, <2>2, RingInvReplace DEF PushOk, Events
  <2>3. CASE ~(e \in Resizes /\ HasPending(Resizes))
             /\ ~(e \in Motions /\ HasPending(Motions))
    BY <1>1, <2>3, RingInvEnqueue DEF PushOk
  <2> QED BY <2>1, <2>2, <2>3
<1>2. CASE ReadEvent
  BY <1>2, RingInvRead
<1>3. CASE Clear
  BY <1>3, CapacityAssumption, EventsAssumption
     DEF Clear, RingInv, QueueTypeOK, RingIntact, Indices, At
<1>4. CASE UNCHANGED queueVars
  BY <1>4 DEF queueVars, RingInv, QueueTypeOK, RingIntact, At
<1> QED BY <1>1, <1>2, <1>3, <1>4 DEF QueueNext

(* The queue is type correct: no sequence of push, read and clear moves an   *)
(* index out of the slot array or the length past the capacity.              *)
THEOREM QueueTypeCorrect == QueueSpec => []QueueTypeOK
<1>1. RingInv => QueueTypeOK
  BY DEF RingInv
<1> QED BY <1>1, RingInvInit, RingInvStep, PTL DEF QueueSpec

(* The ring stays intact under every sequence of push, read and clear, for   *)
(* every capacity.                                                           *)
THEOREM QueueRingIntact == QueueSpec => []RingIntact
<1>1. RingInv => RingIntact
  BY DEF RingInv
<1> QED BY <1>1, RingInvInit, RingInvStep, PTL DEF QueueSpec

(* A class of which no event is pending occupies no slot: the slots outside  *)
(* the window are empty.                                                     *)
LEMMA NothingPending ==
    ASSUME RingInv, NEW class \in SUBSET Events, ~HasPending(class)
    PROVE  \A i \in Indices : slots[i] \notin class
<1> SUFFICES ASSUME NEW i \in Indices, slots[i] \in class PROVE FALSE
  OBVIOUS
<1>1. slots[i] # None
  BY EventsAssumption
<1>2. PICK k \in 0 .. (length - 1) : At(k) = i
  BY <1>1 DEF RingInv, RingIntact
<1> QED BY <1>2 DEF HasPending

(* Two different slots never hold events of one coalesced class. *)
LEMMA CoalescedStep ==
    RingInv /\ CoalescedOnce /\ [QueueNext]_queueVars => CoalescedOnce'
<1> SUFFICES ASSUME RingInv, CoalescedOnce, [QueueNext]_queueVars
             PROVE  CoalescedOnce'
  OBVIOUS
<1>1. ASSUME NEW class \in {Resizes, Motions}, NEW e \in class,
             ReplacePending(class, e)
      PROVE  CoalescedOnce'
  <2>1. PICK k \in 0 .. (length - 1) :
          slots[At(k)] \in class /\ slots' = [slots EXCEPT ![At(k)] = e]
    BY <1>1 DEF ReplacePending, FirstPending
  <2>2. At(k) \in Indices
    BY CapacityAssumption DEF RingInv, QueueTypeOK, At, Indices
  <2>3. \A i \in Indices : \A c \in {Resizes, Motions} :
          slots'[i] \in c => slots[i] \in c
    BY <2>1, <2>2, <1>1, EventsAssumption DEF RingInv, QueueTypeOK
  <2> QED BY <2>3 DEF CoalescedOnce
<1>2. ASSUME NEW e \in Events, Enqueue(e),
             \A class \in {Resizes, Motions} :
                e \in class => ~HasPending(class)
      PROVE  CoalescedOnce'
  <2>1. tail \in Indices /\ slots' = [slots EXCEPT ![tail] = e]
    BY <1>2 DEF Enqueue, RingInv, QueueTypeOK
  <2>2. \A class \in {Resizes, Motions} :
          e \in class => \A i \in Indices : slots[i] \notin class
    BY <1>2, NothingPending DEF Events
  <2> QED BY <2>1, <2>2 DEF CoalescedOnce, RingInv, QueueTypeOK
<1>3. ASSUME NEW e \in Events, PushOk(e) PROVE CoalescedOnce'
  <2>1. CASE e \in Resizes /\ HasPending(Resizes)
    BY <1>1, <1>3, <2>1 DEF PushOk
  <2>2. CASE ~(e \in Resizes /\ HasPending(Resizes))
             /\ e \in Motions /\ HasPending(Motions)
    BY <1>1, <1>3, <2>2 DEF PushOk
  <2>3. CASE ~(e \in Resizes /\ HasPending(Resizes))
             /\ ~(e \in Motions /\ HasPending(Motions))
    BY <1>2, <1>3, <2>3 DEF PushOk
  <2> QED BY <2>1, <2>2, <2>3
<1>4. CASE ReadEvent
  BY <1>4, EventsAssumption DEF ReadEvent, CoalescedOnce, RingInv, QueueTypeOK, Events
<1>5. CASE Clear
  BY <1>5, EventsAssumption DEF Clear, CoalescedOnce, Events
<1>6. CASE UNCHANGED queueVars
  BY <1>6 DEF queueVars, CoalescedOnce
<1> QED BY <1>3, <1>4, <1>5, <1>6 DEF QueueNext

(* Resizes and pointer motion can never fill the queue: at most one event of *)
(* each kind is pending after any sequence of push, read and clear.          *)
THEOREM QueueCoalescedOnce == QueueSpec => []CoalescedOnce
<1>1. QueueInit => CoalescedOnce
  BY EventsAssumption DEF QueueInit, CoalescedOnce, Events
<1> QED BY <1>1, RingInvInit, RingInvStep, CoalescedStep, PTL DEF QueueSpec

-----------------------------------------------------------------------------
(* The ring implements the coalescing queue.                                 *)

(* The pending events are a sequence of events as long as the queue.         *)
PendingSeq ==
    /\ Pending \in Seq(Events)
    /\ Len(Pending) = length
    /\ DOMAIN Pending = 1 .. length
    /\ \A k \in 1 .. length : Pending[k] = slots[At(k - 1)]

(* An intact ring holds such a sequence. *)
LEMMA PendingIsSeq == RingInv => PendingSeq
<1> SUFFICES ASSUME RingInv PROVE PendingSeq
  OBVIOUS
<1>1. length \in Nat
  BY CapacityAssumption DEF RingInv, QueueTypeOK
<1>2. \A k \in 1 .. length : slots[At(k - 1)] \in Events
  <2> SUFFICES ASSUME NEW k \in 1 .. length PROVE slots[At(k - 1)] \in Events
    OBVIOUS
  <2>1. k - 1 \in 0 .. (length - 1)
    BY <1>1
  <2>2. At(k - 1) \in Indices
    BY <2>1, CapacityAssumption DEF RingInv, QueueTypeOK, At, Indices
  <2>3. slots[At(k - 1)] # None
    BY <2>1, <2>2 DEF RingInv, RingIntact
  <2> QED BY <2>2, <2>3 DEF RingInv, QueueTypeOK
<1>3. Pending \in [1 .. length -> Events]
  BY <1>2 DEF Pending
<1>4. Pending \in Seq(Events)
  BY <1>1, <1>3, SeqDef
<1>5. Len(Pending) = length
  BY <1>1, <1>3, <1>4, LenProperties
<1> QED BY <1>3, <1>4, <1>5 DEF Pending, PendingSeq

(* The same after a step. *)
LEMMA PendingIsSeqNext == RingInv' => PendingSeq'
BY PendingIsSeq, PTL

(* enqueue appends to the pending events.                                    *)
LEMMA EnqueueAppends ==
    ASSUME RingInv, RingInv', NEW e \in Events, Enqueue(e)
    PROVE  Pending' = Append(Pending, e)
<1>1. /\ Pending' \in Seq(Events)
      /\ Len(Pending') = length'
      /\ \A k \in 1 .. length' : Pending'[k] = slots'[At(k - 1)']
  BY PendingIsSeqNext DEF PendingSeq
<1>2. /\ Pending \in Seq(Events)
      /\ Len(Pending) = length
      /\ \A k \in 1 .. length : Pending[k] = slots[At(k - 1)]
  BY PendingIsSeq DEF PendingSeq
<1>3. /\ Append(Pending, e) \in Seq(Events)
      /\ Len(Append(Pending, e)) = length + 1
      /\ \A k \in 1 .. length : Append(Pending, e)[k] = Pending[k]
      /\ Append(Pending, e)[length + 1] = e
  BY <1>2, AppendProperties
<1>4. length' = length + 1 /\ length \in Nat /\ length < Capacity
  BY CapacityAssumption DEF RingInv, QueueTypeOK, Enqueue
<1>5. \A k \in 1 .. length : slots'[At(k - 1)'] = slots[At(k - 1)]
  BY <1>4, CapacityAssumption
     DEF RingInv, QueueTypeOK, RingIntact, Enqueue, At, Indices
<1>6. \A k \in 1 .. (length + 1) : k = length + 1 => slots'[At(k - 1)'] = e
  BY <1>4, CapacityAssumption
     DEF RingInv, QueueTypeOK, RingIntact, Enqueue, At, Indices
<1>7. \A k \in 1 .. (length + 1) : Pending'[k] = Append(Pending, e)[k]
  <2> SUFFICES ASSUME NEW k \in 1 .. (length + 1)
               PROVE  Pending'[k] = Append(Pending, e)[k]
    OBVIOUS
  <2>1. CASE k \in 1 .. length
    BY <2>1, <1>1, <1>2, <1>3, <1>4, <1>5
  <2>2. CASE k = length + 1
    <3>1. slots'[At(k - 1)'] = e
      BY <2>2, <1>6
    <3>2. k \in 1 .. length'
      BY <1>4
    <3> QED BY <3>1, <3>2, <2>2, <1>1, <1>3
  <2>3. k \in 1 .. length \/ k = length + 1
    BY <1>4
  <2> QED BY <2>1, <2>2, <2>3
<1> QED BY <1>1, <1>3, <1>4, <1>7, SeqEqual

(* read takes the oldest pending event.                                      *)
LEMMA ReadTakesHead ==
    ASSUME RingInv, RingInv', ReadEvent
    PROVE  Pending # <<>> /\ Pending' = Tail(Pending)
<1>1. /\ Pending' \in Seq(Events)
      /\ Len(Pending') = length'
      /\ \A k \in 1 .. length' : Pending'[k] = slots'[At(k - 1)']
  BY PendingIsSeqNext DEF PendingSeq
<1>2. /\ Pending \in Seq(Events)
      /\ Len(Pending) = length
      /\ \A k \in 1 .. length : Pending[k] = slots[At(k - 1)]
  BY PendingIsSeq DEF PendingSeq
<1>3. length' = length - 1 /\ length \in Nat \ {0}
  BY CapacityAssumption DEF RingInv, QueueTypeOK, ReadEvent
<1>4. Pending # <<>>
  BY <1>2, <1>3, EmptySeq
<1>5. /\ Tail(Pending) \in Seq(Events)
      /\ Len(Tail(Pending)) = length - 1
      /\ \A k \in 1 .. Len(Tail(Pending)) : Tail(Pending)[k] = Pending[k + 1]
  BY <1>2, <1>4, HeadTailProperties
<1>6. \A k \in 1 .. (length - 1) : slots'[At(k - 1)'] = slots[At(k)]
  BY <1>3, CapacityAssumption
     DEF RingInv, QueueTypeOK, ReadEvent, At, Advance, Indices
<1>7. \A k \in 1 .. (length - 1) : Pending'[k] = Tail(Pending)[k]
  <2> SUFFICES ASSUME NEW k \in 1 .. (length - 1)
               PROVE  Pending'[k] = Tail(Pending)[k]
    OBVIOUS
  <2>1. k + 1 \in 1 .. length /\ (k + 1) - 1 = k
    BY <1>3
  <2>2. Pending[k + 1] = slots[At(k)]
    BY <2>1, <1>2
  <2> QED BY <2>2, <1>1, <1>3, <1>5, <1>6
<1> QED BY <1>1, <1>3, <1>4, <1>5, <1>7, SeqEqual

(* replace_pending exchanges one pending event for another of its class.     *)
LEMMA ReplaceExchanges ==
    ASSUME RingInv, RingInv', NEW class \in SUBSET Events, NEW e \in Events,
           ReplacePending(class, e)
    PROVE  \E k \in DOMAIN Pending :
             Pending[k] \in class /\ Pending' = [Pending EXCEPT ![k] = e]
<1>1. /\ Pending' \in Seq(Events)
      /\ Len(Pending') = length'
      /\ \A k \in 1 .. length' : Pending'[k] = slots'[At(k - 1)']
  BY PendingIsSeqNext DEF PendingSeq
<1>2. /\ Pending \in Seq(Events)
      /\ Len(Pending) = length
      /\ DOMAIN Pending = 1 .. length
      /\ \A k \in 1 .. length : Pending[k] = slots[At(k - 1)]
  BY PendingIsSeq DEF PendingSeq
<1>3. PICK j \in 0 .. (length - 1) :
        slots[At(j)] \in class /\ slots' = [slots EXCEPT ![At(j)] = e]
  BY DEF ReplacePending, FirstPending
<1>4. /\ UNCHANGED <<head, tail, length>>
      /\ length \in Nat /\ length <= Capacity
      /\ j + 1 \in 1 .. length /\ (j + 1) - 1 = j
  BY <1>3, CapacityAssumption DEF ReplacePending, RingInv, QueueTypeOK
<1>5. /\ [Pending EXCEPT ![j + 1] = e] \in Seq(Events)
      /\ Len([Pending EXCEPT ![j + 1] = e]) = length
      /\ \A k \in 1 .. length :
           [Pending EXCEPT ![j + 1] = e][k] = IF k = j + 1 THEN e ELSE Pending[k]
  BY <1>2, <1>4, ExceptSeq
<1>6. \A k \in 1 .. length :
        slots'[At(k - 1)'] = IF k = j + 1 THEN e ELSE slots[At(k - 1)]
  BY <1>3, <1>4, CapacityAssumption DEF RingInv, QueueTypeOK, At, Indices
<1>7. \A k \in 1 .. length : Pending'[k] = [Pending EXCEPT ![j + 1] = e][k]
  BY <1>1, <1>2, <1>4, <1>5, <1>6
<1>8. Pending' = [Pending EXCEPT ![j + 1] = e]
  BY <1>1, <1>4, <1>5, <1>7, SeqEqual
<1>9. Pending[j + 1] \in class
  BY <1>2, <1>3, <1>4
<1> QED BY <1>2, <1>4, <1>8, <1>9

(* A push that finds no event of its class finds none among the pending.     *)
LEMMA NoneOfClass ==
    ASSUME RingInv, NEW class \in SUBSET Events, ~HasPending(class)
    PROVE  \A k \in DOMAIN Pending : Pending[k] \notin class
<1>1. length \in Nat
  BY DEF RingInv, QueueTypeOK
<1> QED BY <1>1, PendingIsSeq DEF HasPending, PendingSeq

(* Every step of the ring is a step of the coalescing queue.                 *)
LEMMA PromiseStep ==
    RingInv /\ RingInv' /\ [QueueNext]_queueVars
        => [Promised!CoalescingNext]_Pending
<1> SUFFICES ASSUME RingInv, RingInv', [QueueNext]_queueVars
             PROVE  [Promised!CoalescingNext]_Pending
  OBVIOUS
<1> USE DEF Promised!CoalescingNext
<1>1. ASSUME NEW e \in Events, PushOk(e) PROVE Promised!CoalescingNext
  <2>1. ASSUME NEW class \in {Resizes, Motions}, e \in class,
               ReplacePending(class, e)
        PROVE  Promised!CoalescingNext
    <3>1. class \in SUBSET Events
      BY DEF Events
    <3>2. Promised!Coalesce(e)
      BY <2>1, <3>1, ReplaceExchanges DEF Promised!Coalesce
    <3> QED BY <3>2
  <2>2. ASSUME ~(e \in Resizes /\ HasPending(Resizes)),
               ~(e \in Motions /\ HasPending(Motions)),
               Enqueue(e)
        PROVE  Promised!CoalescingNext
    <3>1. \A class \in {Resizes, Motions}, k \in DOMAIN Pending :
             ~(e \in class /\ Pending[k] \in class)
      BY <2>2, NoneOfClass DEF Events
    <3>2. Len(Pending) < Capacity
      BY <2>2, PendingIsSeq, CapacityAssumption
         DEF Enqueue, RingInv, QueueTypeOK, PendingSeq
    <3>3. Promised!Accept(e)
      BY <2>2, <3>1, <3>2, EnqueueAppends DEF Promised!Accept
    <3> QED BY <3>3
  <2> QED BY <1>1, <2>1, <2>2 DEF PushOk
<1>2. CASE ReadEvent
  BY <1>2, ReadTakesHead DEF Promised!Take
<1>3. CASE Clear
  <2>1. length' = 0
    BY <1>3 DEF Clear
  <2>2. Pending' \in Seq(Events) /\ Len(Pending') = 0
    BY <2>1, PendingIsSeqNext DEF PendingSeq
  <2>3. Pending' = <<>>
    BY <2>2, EmptySeq
  <2> QED BY <2>3 DEF Promised!Drop
<1>4. CASE UNCHANGED queueVars
  BY <1>4 DEF queueVars, Pending, At
<1> QED BY <1>1, <1>2, <1>3, <1>4 DEF QueueNext

(* The ring of event_queue.ml implements the coalescing queue for every      *)
(* capacity: events leave in the order of the places they took, and a push   *)
(* on a full ring neither drops nor overwrites a pending event.              *)
THEOREM QueueKeepsPromise == QueueSpec => KeepsPromise
<1>1. QueueInit => Promised!CoalescingInit
  <2> SUFFICES ASSUME QueueInit PROVE Pending = <<>>
    BY DEF Promised!CoalescingInit
  <2>1. Pending \in Seq(Events) /\ Len(Pending) = 0
    BY RingInvInit, PendingIsSeq DEF QueueInit, PendingSeq
  <2> QED BY <2>1, EmptySeq
<1>2. QueueSpec => []RingInv
  BY RingInvInit, RingInvStep, PTL DEF QueueSpec
<1> QED BY <1>1, <1>2, PromiseStep, PTL
        DEF QueueSpec, KeepsPromise, Promised!CoalescingSpec

-----------------------------------------------------------------------------
(* The native event sink.                                                    *)

(* The counters of the sink, what a process without a sink keeps, and the    *)
(* overflow flag, which stands for every loss that was not reported yet.     *)
SinkCounters ==
    /\ emitted \in 0 .. MaxEvents /\ since \in 0 .. emitted
    /\ sinks \in 0 .. MaxSinks /\ event_sink_handle <= sinks
    /\ event_sink_handle = 0 =>
         event_queue_count = 0 /\ delivered = {} /\ lost = {} /\ reported = {}
    /\ ~event_queue_overflow => lost = reported

(* The inductive invariant. *)
SinkInv == EventsAccounted /\ SinkCounters

(* A position of the ring, without the remainder. *)
Wrapped(n) == IF n < SinkCapacity THEN n ELSE n - SinkCapacity

(* Indices of the ring are below twice its capacity before they wrap. *)
LEMMA RemainderWraps ==
    ASSUME NEW n \in 0 .. 2 * SinkCapacity - 1
    PROVE  n % SinkCapacity = Wrapped(n)
  <1> DEFINE q == n \div SinkCapacity
             r == n % SinkCapacity
  <1>1. SinkCapacity \in Nat /\ SinkCapacity > 0 /\ n \in Nat
    BY SinkConstants
  <1>2. q \in Int /\ r \in 0 .. SinkCapacity - 1
    BY <1>1
  <1>3. n = SinkCapacity * q + r
    BY <1>1
  <1> HIDE DEF q, r
  <1>4. q < 2 /\ q >= 0
    BY <1>1, <1>2, <1>3
  <1>5. q = 0 \/ q = 1
    BY <1>2, <1>4
  <1> QED
    BY <1>1, <1>2, <1>3, <1>5 DEF Wrapped, r

(* What n places of a ring q hold, counted from the head h; whether that is  *)
(* in the order of emission.                                                 *)
InRing(q, h, n) == {q[Wrapped(h + k)] : k \in 0 .. n - 1}
Ascending(q, h, n) ==
    \A j, k \in 0 .. n - 1 : j < k => q[Wrapped(h + j)] < q[Wrapped(h + k)]

(* Places counted from a head are different slots. *)
LEMMA PlacesDiffer ==
    ASSUME NEW h \in Positions
    PROVE  /\ \A k \in Positions : (h + k) % SinkCapacity = Wrapped(h + k)
           /\ \A k \in Positions : Wrapped(h + k) \in Positions
           /\ \A j, k \in Positions : j # k => Wrapped(h + j) # Wrapped(h + k)
  <1>1. \A k \in Positions : h + k \in 0 .. 2 * SinkCapacity - 1
    BY SinkConstants DEF Positions
  <1> QED
    BY <1>1, RemainderWraps, SinkConstants DEF Wrapped, Positions

(* The ring as EventsAccounted reads it. *)
LEMMA RingRead ==
    ASSUME NEW q, NEW h \in Positions, NEW n \in 0 .. SinkCapacity
    PROVE  /\ {q[(h + k) % SinkCapacity] : k \in 0 .. n - 1} = InRing(q, h, n)
           /\ (\A j, k \in 0 .. n - 1 :
                 j < k => q[(h + j) % SinkCapacity] < q[(h + k) % SinkCapacity])
              <=> Ascending(q, h, n)
  <1>1. \A k \in 0 .. n - 1 : (h + k) % SinkCapacity = Wrapped(h + k)
    <2>1. \A k \in 0 .. n - 1 : k \in Positions
      BY SinkConstants DEF Positions
    <2> QED
      BY <2>1, PlacesDiffer
  <1> QED
    BY <1>1 DEF InRing, Ascending

(* An event behind the last one. *)
LEMMA RingAppend ==
    ASSUME NEW q \in [Positions -> Int], NEW h \in Positions, NEW n \in Positions, NEW v \in Int
    PROVE  LET r == [q EXCEPT ![Wrapped(h + n)] = v]
           IN  /\ InRing(r, h, n + 1) = InRing(q, h, n) \cup {v}
               /\ Ascending(q, h, n) /\ (\A x \in InRing(q, h, n) : x < v)
                     => Ascending(r, h, n + 1)
  <1> DEFINE r == [q EXCEPT ![Wrapped(h + n)] = v]
  <1>1. \A k \in 0 .. n - 1 : k \in Positions /\ k # n
    BY SinkConstants DEF Positions
  <1>2. r[Wrapped(h + n)] = v /\ \A k \in 0 .. n - 1 : r[Wrapped(h + k)] = q[Wrapped(h + k)]
    BY <1>1, PlacesDiffer
  <1>3. 0 .. (n + 1) - 1 = (0 .. n - 1) \cup {n}
    BY SinkConstants DEF Positions
  <1> HIDE DEF r
  <1>4. InRing(r, h, n + 1) = InRing(q, h, n) \cup {v}
    BY <1>2, <1>3 DEF InRing
  <1>5. ASSUME Ascending(q, h, n), \A x \in InRing(q, h, n) : x < v,
               NEW j \in 0 .. (n + 1) - 1, NEW k \in 0 .. (n + 1) - 1, j < k
        PROVE  r[Wrapped(h + j)] < r[Wrapped(h + k)]
    <2>1. j \in 0 .. n - 1 /\ (k = n \/ k \in 0 .. n - 1)
      BY <1>5, <1>3 DEF Positions
    <2> QED
      BY <1>2, <1>5, <2>1 DEF Ascending, InRing
  <1>6. Ascending(q, h, n) /\ (\A x \in InRing(q, h, n) : x < v) => Ascending(r, h, n + 1)
    BY <1>5 DEF Ascending
  <1> QED
    BY <1>4, <1>6 DEF r

(* The event at the head is taken. *)
LEMMA RingTake ==
    ASSUME NEW q, NEW h \in Positions, NEW n \in 1 .. SinkCapacity
    PROVE  LET g == (h + 1) % SinkCapacity
           IN  /\ g \in Positions
               /\ InRing(q, h, n) = InRing(q, g, n - 1) \cup {q[h]}
               /\ Ascending(q, h, n) => /\ Ascending(q, g, n - 1)
                                        /\ \A x \in InRing(q, g, n - 1) : q[h] < x
  <1> DEFINE g == (h + 1) % SinkCapacity
             m == n - 1
  <1>1. g = Wrapped(h + 1) /\ g \in Positions
    <2>1. h + 1 \in 0 .. 2 * SinkCapacity - 1
      BY SinkConstants DEF Positions
    <2>2. g = Wrapped(h + 1)
      BY <2>1, RemainderWraps
    <2>3. Wrapped(h + 1) \in Positions
      BY SinkConstants DEF Positions, Wrapped
    <2> QED
      BY <2>2, <2>3
  <1> HIDE DEF g
  <1>2. \A k \in 0 .. m - 1 : /\ k + 1 \in 0 .. n - 1
                              /\ Wrapped(g + k) = Wrapped(h + (k + 1))
    BY <1>1, SinkConstants DEF Positions, Wrapped
  <1>3. 0 \in 0 .. n - 1 /\ Wrapped(h + 0) = h
    BY SinkConstants DEF Positions, Wrapped
  <1>4. \A k \in 0 .. n - 1 : k = 0 \/ (k - 1 \in 0 .. m - 1 /\ (k - 1) + 1 = k)
    OBVIOUS
  <1> HIDE DEF m
  <1>5. \A x \in InRing(q, h, n) : x = q[h] \/ x \in InRing(q, g, m)
    <2> SUFFICES ASSUME NEW k \in 0 .. n - 1
                 PROVE  q[Wrapped(h + k)] = q[h] \/ q[Wrapped(h + k)] \in InRing(q, g, m)
      BY DEF InRing
    <2>1. CASE k = 0
      BY <1>3, <2>1
    <2>2. CASE k # 0
      <3>1. k - 1 \in 0 .. m - 1 /\ q[Wrapped(g + (k - 1))] = q[Wrapped(h + k)]
        BY <1>2, <1>4, <2>2
      <3> QED
        BY <3>1 DEF InRing
    <2> QED
      BY <2>1, <2>2
  <1>6. \A x \in InRing(q, g, m) : x \in InRing(q, h, n)
    BY <1>2 DEF InRing
  <1>7. q[h] \in InRing(q, h, n)
    BY <1>3 DEF InRing
  <1>8. ASSUME Ascending(q, h, n)
        PROVE  Ascending(q, g, m) /\ \A x \in InRing(q, g, m) : q[h] < x
    <2>1. ASSUME NEW j \in 0 .. m - 1, NEW k \in 0 .. m - 1, j < k
          PROVE  q[Wrapped(g + j)] < q[Wrapped(g + k)]
      <3>1. j + 1 < k + 1
        BY <2>1
      <3> QED
        BY <1>2, <1>8, <3>1 DEF Ascending
    <2>2. ASSUME NEW k \in 0 .. m - 1 PROVE q[h] < q[Wrapped(g + k)]
      <3>1. 0 < k + 1
        OBVIOUS
      <3> QED
        BY <1>2, <1>3, <1>8, <3>1 DEF Ascending
    <2> QED
      BY <2>1, <2>2 DEF Ascending, InRing
  <1>9. InRing(q, h, n) = InRing(q, g, m) \cup {q[h]}
    BY <1>5, <1>6, <1>7
  <1> QED
    BY <1>1, <1>8, <1>9 DEF g, m

(* What EventsAccounted says of the ring, before and after a step. *)
LEMMA RingForm ==
    /\ SinkTypeOK =>
         /\ QueuedEvents = InRing(event_queue, event_queue_head, event_queue_count)
         /\ (\A j, k \in 0 .. event_queue_count - 1 :
               j < k => event_queue[SlotAt(j)] < event_queue[SlotAt(k)])
            <=> Ascending(event_queue, event_queue_head, event_queue_count)
    /\ SinkTypeOK' =>
         /\ QueuedEvents' = InRing(event_queue', event_queue_head', event_queue_count')
         /\ (\A j, k \in 0 .. event_queue_count' - 1 :
               j < k => event_queue'[SlotAt(j)'] < event_queue'[SlotAt(k)'])
            <=> Ascending(event_queue', event_queue_head', event_queue_count')
  BY RingRead DEF SinkTypeOK, QueuedEvents, SlotAt

(* The ring starts empty. *)
LEMMA SinkInvInit == SinkInit => SinkInv
  <1> SUFFICES ASSUME SinkInit PROVE SinkInv
    OBVIOUS
  <1>1. QueuedEvents = {}
    BY DEF SinkInit, QueuedEvents
  <1>2. event_queue \in [Positions -> 0 .. MaxEvents]
    BY SinkConstants DEF SinkInit, NoEvent
  <1>3. event_queue_overflow \in BOOLEAN
    BY DEF SinkInit
  <1>4. SinkTypeOK
    BY <1>2, <1>3, SinkConstants DEF SinkInit, SinkTypeOK, Positions
  <1> QED
    BY <1>1, <1>4, SinkConstants DEF SinkInit, SinkInv, EventsAccounted, SinkCounters

(* A ring that was reset for a new history holds nothing. *)
LEMMA ResetKeeps ==
    ASSUME SinkInv, reset_event_queue, StartHistory,
           emitted' = emitted, sinks' \in 0 .. MaxSinks, sinks <= sinks',
           event_sink_handle' \in 0 .. sinks', owners' \subseteq {event_sink_handle'} \ {0}
    PROVE  SinkInv'
  <1>1. QueuedEvents' = {}
    BY DEF reset_event_queue, QueuedEvents
  <1>2. SinkTypeOK'
    <2>1. event_queue_head' \in Positions /\ event_queue_count' \in 0 .. SinkCapacity
          /\ delivered' \subseteq 1 .. emitted'
      BY SinkConstants DEF reset_event_queue, StartHistory, Positions
    <2>2. event_queue' \in [Positions -> 0 .. MaxEvents]
      BY DEF SinkInv, EventsAccounted, SinkTypeOK, reset_event_queue
    <2>3. event_sink_handle' \in 0 .. MaxSinks
      BY SinkConstants DEF SinkInv, SinkCounters
    <2>4. owners' \subseteq 1 .. MaxSinks
      BY <2>3, SinkConstants
    <2>5. event_queue_overflow' \in BOOLEAN
      BY DEF reset_event_queue
    <2> QED
      BY <2>1, <2>2, <2>3, <2>4, <2>5 DEF SinkTypeOK
  <1> QED
    BY <1>1, <1>2, SinkConstants
    DEF SinkInv, EventsAccounted, SinkCounters, reset_event_queue, StartHistory, PollsEmpty

(* A sink is created while there is none, hence while there is no owner. *)
LEMMA CreateKeeps ==
    ASSUME SinkInv, NEW created \in BOOLEAN, event_sink_create(created)
    PROVE  SinkInv'
  <1>1. owners = {}
    BY DEF SinkInv, EventsAccounted, SinkTypeOK, event_sink_create
  <1> QED
    BY <1>1, ResetKeeps, SinkConstants
    DEF event_sink_create, SinkInv, SinkCounters

(* The owner that closes a sink is the owner of the sink there is. *)
LEMMA DestroyKeeps ==
    ASSUME SinkInv, NEW h \in owners, event_sink_destroy(h)
    PROVE  SinkInv'
  <1>1. h = event_sink_handle /\ owners' = {}
    BY DEF SinkInv, EventsAccounted, event_sink_destroy
  <1> QED
    BY <1>1, ResetKeeps, SinkConstants
    DEF event_sink_destroy, SinkInv, SinkCounters

(* An event reaches the ring of an open sink, behind the last one, or is     *)
(* lost; without a sink it is nobody's.                                      *)
LEMMA CallbackKeeps ==
    ASSUME SinkInv, NEW fits \in BOOLEAN, raw_event_callback(fits)
    PROVE  SinkInv'
  <1> USE SinkConstants
  <1> DEFINE q == event_queue
             h == event_queue_head
             n == event_queue_count
  <1>1. /\ SinkTypeOK /\ SinkCounters
        /\ emitted' = emitted + 1 /\ emitted + 1 \in 0 .. MaxEvents
        /\ UNCHANGED <<event_sink_handle, sinks, owners, since, delivered, reported>>
        /\ event_queue_head' = h
    BY DEF SinkInv, EventsAccounted, SinkCounters, raw_event_callback, ringVars
  <1>2. since + 1 .. emitted + 1 = (since + 1 .. emitted) \cup {emitted + 1}
    BY DEF SinkInv, SinkCounters
  <1>3. CASE event_sink_handle = 0
    <2>1. UNCHANGED <<event_queue, event_queue_head, event_queue_count, event_queue_overflow, lost>>
      BY <1>3 DEF raw_event_callback, ringVars
    <2>2. SinkTypeOK' /\ SinkCounters'
      BY <1>1, <1>3, <2>1 DEF SinkTypeOK, SinkCounters
    <2>3. QueuedEvents' = {} /\ delivered' = {} /\ lost' = {}
      BY <1>1, <1>3, <2>1 DEF QueuedEvents, SinkCounters
    <2> QED
      BY <1>1, <1>3, <2>1, <2>2, <2>3 DEF SinkInv, EventsAccounted, SlotAt, PollsEmpty
  <1>4. ASSUME event_sink_handle # 0
        PROVE  delivered \cup QueuedEvents \cup lost = since + 1 .. emitted
    BY <1>4 DEF SinkInv, EventsAccounted
  <1>5. ASSUME event_sink_handle # 0
        PROVE  \A x \in delivered \cup QueuedEvents \cup lost : x < emitted + 1
    BY <1>4, <1>5 DEF SinkInv, SinkCounters
  <1>6. CASE event_sink_handle # 0 /\ (~fits \/ n = SinkCapacity)
    <2>1. /\ lost' = lost \cup {emitted + 1} /\ event_queue_overflow' = TRUE
          /\ UNCHANGED <<event_queue, event_queue_count>>
      BY <1>6 DEF raw_event_callback
    <2>2. SinkTypeOK' /\ SinkCounters'
      BY <1>1, <1>6, <2>1 DEF SinkTypeOK, SinkCounters
    <2>3. QueuedEvents' = QueuedEvents
      BY <1>1, <2>1 DEF QueuedEvents, SlotAt
    <2>4. emitted + 1 \notin delivered \cup QueuedEvents
      BY <1>5, <1>6, <1>1 DEF SinkCounters
    <2>5. \A j, k \in 0 .. event_queue_count' - 1 :
             j < k => event_queue'[SlotAt(j)'] < event_queue'[SlotAt(k)']
      BY <1>1, <2>1 DEF SinkInv, EventsAccounted, SlotAt
    <2> QED
      BY <1>1, <1>2, <1>4, <1>6, <2>1, <2>2, <2>3, <2>4, <2>5
      DEF SinkInv, EventsAccounted, PollsEmpty
  <1>7. CASE event_sink_handle # 0 /\ fits /\ n # SinkCapacity
    <2>1. n \in Positions /\ h \in Positions /\ q \in [Positions -> Int]
      BY <1>1, <1>7 DEF SinkTypeOK, Positions
    <2>2. SlotAt(n) = Wrapped(h + n) /\ Wrapped(h + n) \in Positions
      BY <2>1, PlacesDiffer DEF SlotAt
    <2>3. /\ event_queue' = [q EXCEPT ![Wrapped(h + n)] = emitted + 1]
          /\ event_queue_count' = n + 1
          /\ UNCHANGED <<event_queue_overflow, lost>>
      BY <1>7, <2>2 DEF raw_event_callback
    <2>4. SinkTypeOK'
      <3>1. event_queue' \in [Positions -> 0 .. MaxEvents]
        BY <1>1, <2>2, <2>3 DEF SinkTypeOK
      <3>2. event_queue_count' \in 0 .. SinkCapacity
        BY <2>1, <2>3 DEF Positions
      <3>3. delivered' \subseteq 1 .. emitted'
        BY <1>1 DEF SinkTypeOK, SinkCounters
      <3> QED
        BY <1>1, <2>3, <3>1, <3>2, <3>3 DEF SinkTypeOK
    <2>5. SinkCounters'
      BY <1>1, <1>7, <2>3 DEF SinkCounters
    <2>6. emitted + 1 \in Int
      BY <1>1
    <2>7. /\ QueuedEvents' = QueuedEvents \cup {emitted + 1}
          /\ Ascending(q, h, n) /\ (\A x \in QueuedEvents : x < emitted + 1)
                => Ascending(event_queue', h, n + 1)
      <3> DEFINE r == [q EXCEPT ![Wrapped(h + n)] = emitted + 1]
      <3>1. /\ InRing(r, h, n + 1) = InRing(q, h, n) \cup {emitted + 1}
            /\ Ascending(q, h, n) /\ (\A x \in InRing(q, h, n) : x < emitted + 1)
                  => Ascending(r, h, n + 1)
        BY <2>1, <2>6, RingAppend
      <3> HIDE DEF r
      <3>2. event_queue' = r
        BY <2>3 DEF r
      <3>3. QueuedEvents = InRing(q, h, n) /\ QueuedEvents' = InRing(r, h, n + 1)
        BY <1>1, <2>3, <2>4, <3>2, RingForm
      <3> QED
        BY <3>1, <3>2, <3>3
    <2>8. Ascending(q, h, n)
      BY <1>1, RingForm DEF SinkInv, EventsAccounted
    <2>9. \A j, k \in 0 .. event_queue_count' - 1 :
             j < k => event_queue'[SlotAt(j)'] < event_queue'[SlotAt(k)']
      BY <1>1, <1>5, <1>7, <2>3, <2>4, <2>7, <2>8, RingForm
    <2>10. \A d \in delivered', x \in QueuedEvents' : d < x
      BY <1>1, <1>5, <1>7, <2>7 DEF SinkInv, EventsAccounted
    <2>11. lost' \cap (delivered' \cup QueuedEvents') = {}
      <3>1. emitted + 1 \notin lost
        BY <1>1, <1>5, <1>7 DEF SinkCounters
      <3> QED
        BY <1>1, <2>3, <2>7, <3>1 DEF SinkInv, EventsAccounted
    <2>12. delivered' \cup QueuedEvents' \cup lost' = since' + 1 .. emitted'
      BY <1>1, <1>2, <1>4, <1>7, <2>3, <2>7
    <2>13. \A g \in owners' : g = event_sink_handle' /\ (PollsEmpty(g)' => lost' = reported')
      BY <1>1, <2>3 DEF SinkInv, EventsAccounted, SinkCounters, PollsEmpty
    <2> QED
      BY <2>4, <2>5, <2>9, <2>10, <2>11, <2>12, <2>13 DEF SinkInv, EventsAccounted
  <1> QED
    BY <1>3, <1>6, <1>7

(* The owner takes the event at the head. *)
LEMMA PollEventKeeps ==
    ASSUME SinkInv, NEW owner \in owners, PollEvent(owner),
           UNCHANGED <<event_sink_handle, sinks, owners, since, emitted>>
    PROVE  SinkInv'
  <1> USE SinkConstants
  <1> DEFINE q == event_queue
             h == event_queue_head
             n == event_queue_count
             g == (h + 1) % SinkCapacity
  <1>1. /\ SinkTypeOK /\ SinkCounters
        /\ h \in Positions /\ n \in 1 .. SinkCapacity
        /\ event_sink_handle # 0
    BY DEF SinkInv, EventsAccounted, SinkTypeOK, SinkCounters, PollEvent
  <1>2. /\ event_queue_head' = g /\ event_queue' = q /\ event_queue_count' = n - 1
        /\ delivered' = delivered \cup {q[h]}
        /\ UNCHANGED <<event_queue_overflow, lost, reported>>
    BY DEF PollEvent
  <1>3. /\ g \in Positions
        /\ InRing(q, h, n) = InRing(q, g, n - 1) \cup {q[h]}
        /\ Ascending(q, h, n)
        /\ Ascending(q, g, n - 1)
        /\ \A x \in InRing(q, g, n - 1) : q[h] < x
    BY <1>1, RingTake, RingForm DEF SinkInv, EventsAccounted
  <1> HIDE DEF g
  <1>4. delivered \cup QueuedEvents \cup lost = since + 1 .. emitted
    BY <1>1 DEF SinkInv, EventsAccounted
  <1>5. QueuedEvents = InRing(q, g, n - 1) \cup {q[h]}
    BY <1>1, <1>3, RingForm
  <1>6. q[h] \in 1 .. emitted
    BY <1>1, <1>4, <1>5 DEF SinkCounters
  <1>7. SinkTypeOK'
    <2>1. event_queue_count' \in 0 .. SinkCapacity
      BY <1>1, <1>2
    <2>2. delivered' \subseteq 1 .. emitted'
      BY <1>1, <1>2, <1>6 DEF SinkTypeOK
    <2> QED
      BY <1>1, <1>2, <1>3, <2>1, <2>2 DEF SinkTypeOK
  <1>8. /\ QueuedEvents' = InRing(q, g, n - 1)
        /\ \A j, k \in 0 .. event_queue_count' - 1 :
              j < k => event_queue'[SlotAt(j)'] < event_queue'[SlotAt(k)']
    BY <1>2, <1>3, <1>7, RingForm
  <1>9. \A d \in delivered', x \in QueuedEvents' : d < x
    BY <1>2, <1>3, <1>5, <1>8 DEF SinkInv, EventsAccounted
  <1>10. lost' \cap (delivered' \cup QueuedEvents') = {}
    BY <1>2, <1>5, <1>8 DEF SinkInv, EventsAccounted
  <1>11. delivered' \cup QueuedEvents' \cup lost' = since' + 1 .. emitted'
    BY <1>2, <1>4, <1>5, <1>8
  <1>12. /\ SinkCounters'
         /\ \A o \in owners' : o = event_sink_handle' /\ (PollsEmpty(o)' => lost' = reported')
    BY <1>1, <1>2 DEF SinkInv, EventsAccounted, SinkCounters, PollsEmpty
  <1> QED
    BY <1>7, <1>8, <1>9, <1>10, <1>11, <1>12 DEF SinkInv, EventsAccounted

(* The owner of an empty ring is told of what was lost. *)
LEMMA PollOverflowKeeps ==
    ASSUME SinkInv, NEW h \in owners, PollOverflow(h),
           UNCHANGED <<event_sink_handle, sinks, owners, since, emitted>>
    PROVE  SinkInv'
  <1>1. QueuedEvents' = QueuedEvents
    BY DEF PollOverflow, QueuedEvents, SlotAt
  <1>2. SinkTypeOK' /\ SinkCounters'
    BY DEF PollOverflow, SinkInv, EventsAccounted, SinkTypeOK, SinkCounters
  <1> QED
    BY <1>1, <1>2 DEF PollOverflow, SinkInv, EventsAccounted, SlotAt, PollsEmpty

(* Every step keeps the invariant. *)
LEMMA SinkInvNext == SinkInv /\ [SinkNext]_sinkVars => SinkInv'
  <1> SUFFICES ASSUME SinkInv, [SinkNext]_sinkVars PROVE SinkInv'
    OBVIOUS
  <1>1. CASE UNCHANGED sinkVars
    BY <1>1
    DEF sinkVars, ringVars, historyVars, SinkInv, EventsAccounted, SinkTypeOK, SinkCounters,
        QueuedEvents, SlotAt, PollsEmpty
  <1>2. ASSUME NEW ok \in BOOLEAN, event_sink_create(ok) \/ raw_event_callback(ok) PROVE SinkInv'
    BY <1>2, CreateKeeps, CallbackKeeps
  <1>3. ASSUME NEW h \in owners, event_sink_destroy(h) \/ event_sink_poll(h) PROVE SinkInv'
    BY <1>3, DestroyKeeps, PollEventKeeps, PollOverflowKeeps DEF event_sink_poll
  <1> QED
    BY <1>1, <1>2, <1>3 DEF SinkNext

(* For every capacity of the ring, any number of events and sinks, and any   *)
(* mix of overflows and polls: what the owner polls arrives in the order of  *)
(* emission, once, and is of its own sink; when a poll answers that there is *)
(* nothing, every event was delivered or is covered by a reported loss.      *)
THEOREM SinkAccountsForEvents == SinkSpec => []EventsAccounted
  <1>1. SinkInv => EventsAccounted
    BY DEF SinkInv
  <1> QED
    BY SinkInvInit, SinkInvNext, <1>1, PTL DEF SinkSpec

-----------------------------------------------------------------------------
(* Text buffers.                                                             *)

(* set_text remembers a block exactly when it remembers its entry. *)
StorageHasEntry == text_memory_id = NoEntry <=> text_storage = NoBlock

(* Only blocks that were allocated are registered, and none of them twice. *)
BlocksOnce ==
    /\ \A e \in Entries : registry[e] \in 0 .. allocated \cup {NativeBlock}
    /\ \A e, f \in Entries : registry[e] = registry[f] /\ registry[e] \in Blocks => e = f

(* The inductive invariant. *)
TextInv ==
    /\ TextTypeOK
    /\ TextMemoryRooted
    /\ StorageAgrees
    /\ StorageHasEntry
    /\ BlocksOnce

(* What the registry hands out is the least of its free entries: there is  *)
(* one when any entry is free.                                             *)
LEMMA FreshIsFree ==
    ASSUME NEW reg
    PROVE  FreshEntry(reg) # NoEntry => FreshEntry(reg) \in FreeEntries(reg)
  <1> SUFFICES ASSUME FreeEntries(reg) # {} PROVE FreshEntry(reg) \in FreeEntries(reg)
    BY DEF FreshEntry
  <1>1. FreeEntries(reg) \subseteq Nat
    BY TextConstants DEF FreeEntries, Entries
  <1> DEFINE Less == OpToRel(<, Nat)
  <1>2. IsWellFoundedOn(Less, Nat)
    BY NatLessThanWellFounded
  <1>3. ASSUME NEW f \in Nat, NEW g \in Nat, <<f, g>> \notin Less PROVE g <= f
    BY <1>3 DEF OpToRel
  <1> HIDE DEF Less
  <1>4. PICK e \in FreeEntries(reg) : \A f \in FreeEntries(reg) : ~(<<f, e>> \in Less)
    BY <1>1, <1>2, WFMin
  <1>5. \A f \in FreeEntries(reg) : e <= f
    BY <1>1, <1>3, <1>4
  <1> QED
    BY <1>5 DEF FreshEntry

(* A free entry is neither part of the text nor the entry of set_text. *)
LEMMA FreshIsUnused ==
    ASSUME TextInv, NEW e \in FreeEntries(registry)
    PROVE  /\ e \in Entries
           /\ e \notin text
           /\ e # text_memory_id
  <1>1. e \in Entries /\ registry[e] = NoBlock
    BY DEF FreeEntries
  <1>2. e \notin text
    BY <1>1, TextConstants
       DEF TextInv, TextTypeOK, TextMemoryRooted, Rooted, Blocks, NoBlock, NativeBlock
  <1>3. e # text_memory_id
    BY <1>1, TextConstants DEF TextInv, StorageAgrees, StorageHasEntry, Entries, NoEntry
  <1> QED
    BY <1>1, <1>2, <1>3

(* A buffer starts without text. *)
LEMMA TextInvInit == TextInit => TextInv
  BY TextConstants
     DEF TextInit, TextInv, TextTypeOK, TextMemoryRooted, StorageAgrees, StorageHasEntry,
         BlocksOnce, Entries, Blocks, NoEntry, NoBlock, NativeBlock

(* append registers a block that is already retained. *)
LEMMA AppendKeeps ==
    ASSUME TextInv, NEW done \in BOOLEAN, text_buffer_append(done)
    PROVE  TextInv'
  <1> DEFINE e == FreshEntry(registry)
  <1>1. CASE done /\ e # NoEntry
    <2>1. e \in Entries /\ e \notin text /\ e # text_memory_id
      BY <1>1, FreshIsFree, FreshIsUnused
    <2>2. /\ registry' = [registry EXCEPT ![e] = allocated + 1]
          /\ text' = text \cup {e}
          /\ allocated' = allocated + 1 /\ allocated < MaxBlocks
          /\ retained' = retained \cup {allocated + 1}
          /\ UNCHANGED <<buffer, text_storage, text_memory_id>>
      BY <1>1 DEF text_buffer_append, stable_copy
    <2> HIDE DEF e
    <2>3. TextTypeOK'
      BY <2>1, <2>2, TextConstants DEF TextInv, TextTypeOK, Blocks, NativeBlock
    <2>4. TextMemoryRooted'
      BY <2>1, <2>2 DEF TextInv, TextTypeOK, TextMemoryRooted, Rooted
    <2>5. StorageAgrees' /\ StorageHasEntry'
      BY <2>1, <2>2 DEF TextInv, TextTypeOK, StorageAgrees, StorageHasEntry
    <2>6. BlocksOnce'
      BY <2>1, <2>2, TextConstants DEF TextInv, TextTypeOK, BlocksOnce, Blocks, NativeBlock
    <2> QED
      BY <2>3, <2>4, <2>5, <2>6 DEF TextInv
  <1>2. CASE ~(done /\ e # NoEntry)
    <2>1. /\ allocated' = allocated + 1 /\ allocated < MaxBlocks
          /\ retained' = retained \cup {allocated + 1}
          /\ UNCHANGED <<buffer, registry, text, text_storage, text_memory_id>>
      BY <1>2 DEF text_buffer_append, stable_copy, nativeTextVars
    <2> QED
      BY <2>1, TextConstants
         DEF TextInv, TextTypeOK, TextMemoryRooted, Rooted, StorageAgrees, StorageHasEntry,
             BlocksOnce, Blocks, NativeBlock
  <1> QED
    BY <1>1, <1>2

(* set_text replaces its own entry, whose block nothing else is made of, or  *)
(* takes a free one and retains the block it replaces.                       *)
LEMMA SetTextKeeps ==
    ASSUME TextInv, NEW replaced \in BOOLEAN, text_buffer_set_text(replaced)
    PROVE  TextInv'
  <1> DEFINE e == text_buffer_register_mem_buffer(replaced)
  <1>1. CASE e # NoEntry
    <2>1. /\ e \in Entries
          /\ e # text_memory_id => e \notin text
      <3>1. CASE text_buffer_replace_mem_buffer(replaced)
        BY <3>1, TextConstants
           DEF text_buffer_register_mem_buffer, text_buffer_replace_mem_buffer, TextInv, TextTypeOK,
               Entries, NoEntry
      <3>2. CASE ~text_buffer_replace_mem_buffer(replaced)
        BY <1>1, <3>2, FreshIsFree, FreshIsUnused DEF text_buffer_register_mem_buffer
      <3> QED
        BY <3>1, <3>2
    <2>2. /\ registry' = [registry EXCEPT ![e] = allocated + 1]
          /\ allocated' = allocated + 1 /\ allocated < MaxBlocks
          /\ retained' = IF text_memory_id \notin {NoEntry, e} /\ text_storage # NoBlock
                         THEN retained \cup {text_storage} ELSE retained
          /\ text_storage' = allocated + 1
          /\ text_memory_id' = e
          /\ text' = {e} \/ text' = {} \/ text' = text
          /\ buffer' = buffer
      BY <1>1 DEF text_buffer_set_text, text_buffer_set_text_from_mem, RetainedBySetText,
                  stable_copy
    <2> HIDE DEF e
    <2>3. TextTypeOK'
      <3>1. retained' \subseteq Blocks
        BY <2>2, TextConstants DEF TextInv, TextTypeOK, Blocks, NoBlock
      <3>2. registry' \in [Entries -> 0 .. NativeBlock] /\ text' \subseteq Entries
        BY <2>1, <2>2, TextConstants DEF TextInv, TextTypeOK, NativeBlock
      <3>3. allocated' \in 0 .. MaxBlocks /\ text_storage' \in 0 .. MaxBlocks
        BY <2>2, TextConstants DEF TextInv, TextTypeOK
      <3>4. text_memory_id' \in 0 .. RegistrySize /\ buffer' \in {"none", "open", "closed"}
        BY <2>1, <2>2, TextConstants DEF TextInv, TextTypeOK, Entries
      <3> QED
        BY <3>1, <3>2, <3>3, <3>4 DEF TextTypeOK, Entries, Blocks, NativeBlock
    <2>4. TextMemoryRooted'
      <3> SUFFICES ASSUME NEW f \in text' PROVE registry'[f] \in Rooted' \cup {NativeBlock'}
        BY DEF TextMemoryRooted
      <3>1. CASE f = e
        BY <2>1, <2>2, <3>1 DEF TextInv, TextTypeOK, Rooted, NoBlock
      <3>2. CASE f # e
        <4>1. f \in text /\ f \in Entries /\ registry'[f] = registry[f]
          BY <2>1, <2>2, <3>2 DEF TextInv, TextTypeOK
        <4>2. registry[f] \in retained \cup ({text_storage} \ {NoBlock}) \cup {NativeBlock}
          BY <4>1 DEF TextInv, TextMemoryRooted, Rooted
        <4>3. CASE registry[f] = text_storage /\ text_storage # NoBlock
          <5>1. text_memory_id # NoEntry /\ text_memory_id \in Entries
            BY <4>3, TextConstants DEF TextInv, StorageHasEntry, TextTypeOK, Entries, NoEntry
          <5>2. registry[text_memory_id] = registry[f] /\ registry[f] \in Blocks
            BY <4>3, <5>1, TextConstants DEF TextInv, StorageAgrees, TextTypeOK, Blocks, NoBlock
          <5>3. text_memory_id = f
            BY <4>1, <5>1, <5>2 DEF TextInv, BlocksOnce
          <5> QED
            BY <2>2, <3>2, <4>1, <4>3, <5>1, <5>3 DEF Rooted
        <4>4. CASE registry[f] \in retained \cup {NativeBlock}
          BY <2>2, <4>1, <4>4 DEF Rooted, NativeBlock
        <4> QED
          BY <4>2, <4>3, <4>4
      <3> QED
        BY <3>1, <3>2
    <2>5. StorageAgrees' /\ StorageHasEntry'
      BY <2>1, <2>2, <1>1, TextConstants
         DEF TextInv, TextTypeOK, StorageAgrees, StorageHasEntry, Entries, NoEntry, NoBlock
    <2>6. BlocksOnce'
      BY <2>1, <2>2, TextConstants DEF TextInv, TextTypeOK, BlocksOnce, Blocks, NativeBlock
    <2> QED
      BY <2>3, <2>4, <2>5, <2>6 DEF TextInv
  <1>2. CASE e = NoEntry
    <2>1. /\ allocated' = allocated + 1 /\ allocated < MaxBlocks
          /\ UNCHANGED <<buffer, registry, text, retained, text_storage, text_memory_id>>
      BY <1>2 DEF text_buffer_set_text, stable_copy, nativeTextVars, storageVars
    <2> QED
      BY <2>1, TextConstants
         DEF TextInv, TextTypeOK, TextMemoryRooted, Rooted, StorageAgrees, StorageHasEntry,
             BlocksOnce, Blocks, NativeBlock
  <1> QED
    BY <1>1, <1>2

(* Text that the native buffer owns itself takes a free entry. *)
LEMMA NativeTextKeeps ==
    ASSUME TextInv, NEW e \in FreeEntries(registry),
           registry' = [registry EXCEPT ![e] = NativeBlock],
           text' = {e},
           UNCHANGED <<buffer, allocated, retained>>,
           \/ UNCHANGED <<text_storage, text_memory_id>>
           \/ text_storage' = NoBlock /\ text_memory_id' = NoEntry
    PROVE  TextInv'
  <1>1. e \in Entries /\ e \notin text /\ e # text_memory_id
    BY FreshIsUnused
  <1>2. TextTypeOK'
    BY <1>1, TextConstants DEF TextInv, TextTypeOK, NativeBlock, NoBlock, NoEntry
  <1>3. TextMemoryRooted'
    BY <1>1 DEF TextInv, TextTypeOK, TextMemoryRooted, NativeBlock
  <1>4. StorageAgrees' /\ StorageHasEntry'
    BY <1>1 DEF TextInv, TextTypeOK, StorageAgrees, StorageHasEntry, NoEntry, NoBlock
  <1>5. BlocksOnce'
    BY <1>1, TextConstants DEF TextInv, TextTypeOK, BlocksOnce, Blocks, NativeBlock
  <1> QED
    BY <1>2, <1>3, <1>4, <1>5 DEF TextInv

(* Without a text nothing has to be rooted. *)
LEMMA EmptyTextKeeps ==
    ASSUME TextInv, text' = {},
           UNCHANGED <<buffer, registry, allocated, retained, text_storage, text_memory_id>>
    PROVE  TextInv'
  BY DEF TextInv, TextTypeOK, TextMemoryRooted, StorageAgrees, StorageHasEntry, BlocksOnce,
         Entries, Blocks, NativeBlock

(* The registry goes with everything it borrowed. *)
LEMMA ReleaseKeeps ==
    ASSUME TextInv, ReleaseAll, buffer' \in {"open", "closed"}
    PROVE  TextInv'
  BY TextConstants
     DEF ReleaseAll, TextInv, TextTypeOK, TextMemoryRooted, StorageAgrees, StorageHasEntry,
         BlocksOnce, Entries, Blocks, NoEntry, NoBlock, NativeBlock

(* Every operation, and a stuttering step, preserves the invariant. *)
LEMMA TextInvNext == TextInv /\ [TextNext]_textVars => TextInv'
  <1> SUFFICES ASSUME TextInv, [TextNext]_textVars PROVE TextInv'
    OBVIOUS
  <1>1. CASE text_buffer_create
    BY <1>1 DEF text_buffer_create, nativeTextVars, storageVars, TextInv, TextTypeOK,
                TextMemoryRooted, Rooted, StorageAgrees, StorageHasEntry, BlocksOnce
  <1>2. ASSUME NEW done \in BOOLEAN, text_buffer_append(done) PROVE TextInv'
    BY <1>2, AppendKeeps
  <1>3. ASSUME NEW done \in BOOLEAN, text_buffer_set_text(done) PROVE TextInv'
    BY <1>3, SetTextKeeps
  <1>4. CASE text_buffer_clear
    BY <1>4, EmptyTextKeeps DEF text_buffer_clear, storageVars
  <1>5. ASSUME NEW chunks, text_buffer_set_styled_text(chunks) PROVE TextInv'
    <2>1. CASE chunks = "empty" \/ FreshEntry(registry) = NoEntry
      BY <1>5, <2>1, EmptyTextKeeps DEF text_buffer_set_styled_text, storageVars
    <2>2. CASE ~(chunks = "empty" \/ FreshEntry(registry) = NoEntry)
      BY <1>5, <2>2, FreshIsFree, NativeTextKeeps DEF text_buffer_set_styled_text, storageVars
    <2> QED
      BY <2>1, <2>2
  <1>6. CASE text_buffer_load_file
    BY <1>6, FreshIsFree, NativeTextKeeps DEF text_buffer_load_file
  <1>7. CASE text_buffer_reset
    BY <1>7, ReleaseKeeps DEF text_buffer_reset
  <1>8. CASE text_buffer_destroy
    BY <1>8, ReleaseKeeps DEF text_buffer_destroy
  <1>9. CASE UNCHANGED textVars
    BY <1>9 DEF textVars, nativeTextVars, storageVars, TextInv, TextTypeOK,
                TextMemoryRooted, Rooted, StorageAgrees, StorageHasEntry, BlocksOnce
  <1> QED
    BY <1>1, <1>2, <1>3, <1>4, <1>5, <1>6, <1>7, <1>8, <1>9 DEF TextNext

(* The invariant holds in every state of every behaviour. *)
LEMMA TextInvariant == TextSpec => []TextInv
  BY TextInvInit, TextInvNext, PTL DEF TextSpec

(* The registry's entries, the OCaml fields and the block counter stay in  *)
(* their ranges, for every size of the registry.                           *)
THEOREM TextTypeCorrect == TextSpec => []TextTypeOK
  <1>1. TextInv => TextTypeOK
    BY DEF TextInv
  <1> QED
    BY TextInvariant, <1>1, PTL

(* Whatever the native calls of append, set_text, set_styled_text and        *)
(* load_file do, the text is made of memory that the buffer keeps alive.     *)
THEOREM TextKeepsMemoryRooted == TextSpec => []TextMemoryRooted
  <1>1. TextInv => TextMemoryRooted
    BY DEF TextInv
  <1> QED
    BY TextInvariant, <1>1, PTL

(* The entry that the next set_text will replace is the one the last one     *)
(* wrote, whatever was appended, styled or loaded in between.                *)
THEOREM TextStorageAgrees == TextSpec => []StorageAgrees
  <1>1. TextInv => StorageAgrees
    BY DEF TextInv
  <1> QED
    BY TextInvariant, <1>1, PTL

-----------------------------------------------------------------------------
(* Image loading.                                                            *)

(* A fiber that reads for the source in force holds the lease of the widget, *)
(* and there is no fiber of a source that was not set yet.                   *)
ReaderHoldsLease ==
    \A g \in Generations :
        /\ g > generation => fibers[g].pc = "none"
        /\ is_current(g) /\ fibers[g].pc = "reading" => in_flight = g

(* The state a read would go back to, should it end without a result, fits   *)
(* the image on display.                                                     *)
PreviousFits ==
    in_flight # NoLease =>
        /\ source = in_flight
        /\ fibers[in_flight].previous = "empty" => image = NoImage
        /\ fibers[in_flight].previous = "ready" => image # NoImage

DestroyedIsEmpty == destroyed => load_state = "empty"

(* The inductive invariant. *)
ImageInv ==
    /\ ImagesOwned
    /\ LatestSourceShown
    /\ ReaderHoldsLease
    /\ PreviousFits
    /\ DestroyedIsEmpty

(* The widget starts without a source. *)
LEMMA ImageInvInit == ImageInit => ImageInv
  <1> SUFFICES ASSUME ImageInit PROVE ImageInv
    OBVIOUS
  <1> USE ImageConstants DEF ImageInit, NoImage, NoSource, NoLease
  <1>1. ImageTypeOK
    <2>1. NoFiber \in [pc : {"none", "reading", "delivering", "ended"},
                       previous : {"empty", "ready", "failed"}, cancelled : BOOLEAN]
      BY DEF NoFiber
    <2>2. fibers \in [Generations ->
             [pc : {"none", "reading", "delivering", "ended"},
              previous : {"empty", "ready", "failed"}, cancelled : BOOLEAN]]
      BY <2>1
    <2>3. destroyed \in BOOLEAN /\ path_switch \in BOOLEAN
      OBVIOUS
    <2>4. /\ images \in 0 .. MaxImages /\ image \in 0 .. images
          /\ source \in 0 .. generation /\ shown_from \in 0 .. generation
          /\ generation \in 0 .. MaxSources /\ in_flight \in 0 .. generation
          /\ load_state \in {"empty", "loading", "ready", "failed"}
      OBVIOUS
    <2>5. opened \subseteq 1 .. images /\ users \subseteq 1 .. images
      OBVIOUS
    <2> QED
      BY <2>2, <2>3, <2>4, <2>5 DEF ImageTypeOK
  <1>2. ImagesOwned
    BY <1>1 DEF ImagesOwned, draw_image
  <1>3. LatestSourceShown
    BY DEF LatestSourceShown
  <1>4. ReaderHoldsLease
    BY DEF ReaderHoldsLease, NoFiber, is_current
  <1> QED
    BY <1>2, <1>3, <1>4 DEF ImageInv, PreviousFits, DestroyedIsEmpty

(* Cancelling the read in flight leaves every fiber where it is. *)
LEMMA CancelledStay ==
    ASSUME ImageInv
    PROVE  /\ CancelledFibers \in [Generations ->
                 [pc : {"none", "reading", "delivering", "ended"},
                  previous : {"empty", "ready", "failed"}, cancelled : BOOLEAN]]
           /\ \A g \in Generations : /\ CancelledFibers[g].pc = fibers[g].pc
                                     /\ CancelledFibers[g].previous = fibers[g].previous
  BY DEF CancelledFibers, ImageInv, ImagesOwned, ImageTypeOK

(* The application makes, names and closes images. *)
LEMMA ApplicationKeeps ==
    ASSUME ImageInv,
           \/ image_create
           \/ get_image
           \/ \E x \in users : image_destroy(x)
           \/ path_switch_fail
    PROVE  ImageInv'
  <1> USE ImageConstants
      DEF ImageInv, ImagesOwned, ImageTypeOK, LatestSourceShown, ReaderHoldsLease,
          PreviousFits, DestroyedIsEmpty, draw_image, is_current, Generations, NoImage,
          NoSource, NoLease, ownerVars, widgetVars
  <1>1. CASE image_create
    BY <1>1 DEF image_create, NewImage
  <1>2. CASE get_image
    BY <1>2 DEF get_image
  <1>3. ASSUME NEW x \in users, image_destroy(x) PROVE ImageInv'
    BY <1>3 DEF image_destroy
  <1>4. CASE path_switch_fail
    BY <1>4 DEF path_switch_fail
  <1> QED
    BY <1>1, <1>2, <1>3, <1>4

(* A source that is dropped, and the end of the widget. *)
LEMMA EmptyingKeeps ==
    ASSUME ImageInv, set_source_none \/ cleanup
    PROVE  ImageInv'
  <1> USE ImageConstants
      DEF ImageInv, ImagesOwned, ImageTypeOK, LatestSourceShown, ReaderHoldsLease,
          PreviousFits, DestroyedIsEmpty, draw_image, is_current, Generations, NoImage,
          NoSource, NoLease
  <1>1. CASE set_source_none
    BY <1>1, CancelledStay DEF set_source_none, Supersede
  <1>2. CASE cleanup
    BY <1>2, CancelledStay DEF cleanup
  <1> QED
    BY <1>1, <1>2

(* A source that is loaded at once. *)
LEMMA SynchronousKeeps ==
    ASSUME ImageInv, set_source_sync \/ \E x \in users : set_source_native(x)
    PROVE  ImageInv'
  <1> USE ImageConstants
      DEF ImageInv, ImagesOwned, ImageTypeOK, LatestSourceShown, ReaderHoldsLease,
          PreviousFits, DestroyedIsEmpty, draw_image, is_current, Generations, NoImage,
          NoSource, NoLease
  <1>1. /\ Supersede
        /\ source' = generation + 1 /\ in_flight' = NoLease /\ fibers' = CancelledFibers
        /\ apply_loaded(generation + 1) \/ \E failure \in Failures : apply_failed(failure)
    BY DEF set_source_sync, set_source_native, apply_load_result, Failures
  <1>2. CASE apply_loaded(generation + 1)
    BY <1>1, <1>2, CancelledStay DEF Supersede, apply_loaded, NewImage
  <1>3. ASSUME NEW failure \in Failures, apply_failed(failure) PROVE ImageInv'
    BY <1>1, <1>3, CancelledStay DEF Supersede, apply_failed, deliver_error, NewImage
  <1> QED
    BY <1>1, <1>2, <1>3

(* A source that a fiber reads. *)
LEMMA PathKeeps ==
    ASSUME ImageInv, set_source_path
    PROVE  ImageInv'
  <1> USE ImageConstants
      DEF ImageInv, ImagesOwned, ImageTypeOK, LatestSourceShown, ReaderHoldsLease,
          PreviousFits, DestroyedIsEmpty, draw_image, is_current, Generations, NoImage,
          NoSource, NoLease
  <1> DEFINE g == generation + 1
             fiber == [pc |-> "reading", previous |-> settled_load_state, cancelled |-> FALSE]
  <1>1. /\ g \in Generations
        /\ fibers' = [CancelledFibers EXCEPT ![g] = fiber]
        /\ settled_load_state \in {"empty", "ready", "failed"}
        /\ settled_load_state = "empty" => image = NoImage
        /\ settled_load_state = "ready" => image # NoImage
    BY DEF set_source_path, Supersede, settled_load_state
  <1>2. /\ fibers'[g] = fiber
        /\ \A h \in Generations \ {g} : fibers'[h] = CancelledFibers[h]
    BY <1>1, CancelledStay
  <1>3. ImageTypeOK'
    BY <1>1, CancelledStay DEF set_source_path, Supersede
  <1>4. ImagesOwned' /\ PreviousFits' /\ LatestSourceShown' /\ DestroyedIsEmpty'
    BY <1>1, <1>2, <1>3 DEF set_source_path, Supersede
  <1>5. ReaderHoldsLease'
    BY <1>1, <1>2, CancelledStay DEF set_source_path, Supersede
  <1> QED
    BY <1>4, <1>5

(* The fiber of a path has its bytes and delivers, or is too late. *)
LEMMA ReadKeeps ==
    ASSUME ImageInv, NEW g \in Generations, NEW failed \in BOOLEAN, fiber_read(g, failed)
    PROVE  ImageInv'
  <1> USE ImageConstants
      DEF ImageInv, ImagesOwned, ImageTypeOK, LatestSourceShown, ReaderHoldsLease,
          PreviousFits, DestroyedIsEmpty, draw_image, is_current, Generations, NoImage,
          NoSource, NoLease, ReleasedLease
  <1>1. CASE ~is_current(g)
    BY <1>1, SMTT(40) DEF fiber_read
  <1>2. CASE is_current(g) /\ failed
    BY <1>2, SMTT(40) DEF fiber_read, deliver_error
  <1>3. CASE is_current(g) /\ apply_loaded(g)
    BY <1>3, SMTT(40) DEF fiber_read, apply_loaded, NewImage
  <1>4. ASSUME is_current(g), NEW failure \in Failures, apply_failed(failure) PROVE ImageInv'
    BY <1>4 DEF fiber_read, apply_failed, deliver_error, NewImage
  <1> QED
    BY <1>1, <1>2, <1>3, <1>4 DEF fiber_read, apply_load_result

(* The fiber of a path ends. *)
LEMMA EndKeeps ==
    ASSUME ImageInv, NEW g \in Generations, fiber_finalize(g) \/ fiber_raise(g)
    PROVE  ImageInv'
  <1> USE ImageConstants
      DEF ImageInv, ImagesOwned, ImageTypeOK, LatestSourceShown, ReaderHoldsLease,
          PreviousFits, DestroyedIsEmpty, draw_image, is_current, Generations, NoImage,
          NoSource, NoLease, ReleasedLease, restore_path_state, ownerVars
  <1>1. CASE fiber_finalize(g)
    BY <1>1, SMTT(40) DEF fiber_finalize
  <1>2. CASE fiber_raise(g)
    BY <1>2, SMTT(40) DEF fiber_raise
  <1> QED
    BY <1>1, <1>2

(* Every step keeps the invariant. *)
LEMMA ImageInvNext == ImageInv /\ [ImageNext]_imageVars => ImageInv'
  <1> SUFFICES ASSUME ImageInv, [ImageNext]_imageVars PROVE ImageInv'
    OBVIOUS
  <1>1. CASE UNCHANGED imageVars
    BY <1>1
    DEF imageVars, ownerVars, widgetVars, ImageInv, ImagesOwned, ImageTypeOK, LatestSourceShown,
        ReaderHoldsLease, PreviousFits, DestroyedIsEmpty, draw_image, is_current
  <1>2. CASE image_create \/ get_image \/ path_switch_fail
    BY <1>2, ApplicationKeeps
  <1>3. ASSUME NEW x \in users, image_retain(x) \/ image_destroy(x) \/ set_source_native(x)
        PROVE  ImageInv'
    BY <1>3, ApplicationKeeps, SynchronousKeeps DEF image_retain
  <1>4. ASSUME NEW x \in users, NEW copied \in BOOLEAN, take_raw(x, copied) PROVE ImageInv'
    BY <1>4, ApplicationKeeps DEF take_raw
  <1>5. ASSUME NEW inputs \in SUBSET users, image_operation(inputs) PROVE ImageInv'
    BY <1>5, ApplicationKeeps DEF image_operation
  <1>6. CASE set_source_none \/ set_source_sync \/ set_source_path \/ cleanup
    BY <1>6, EmptyingKeeps, SynchronousKeeps, PathKeeps
  <1>7. ASSUME NEW g \in Generations,
               \/ \E failed \in BOOLEAN : fiber_read(g, failed)
               \/ fiber_finalize(g)
               \/ fiber_raise(g)
        PROVE  ImageInv'
    BY <1>7, ReadKeeps, EndKeeps
  <1> QED
    BY <1>1, <1>2, <1>3, <1>4, <1>5, <1>6, <1>7 DEF ImageNext

(* The invariant holds in every state of every behaviour. *)
LEMMA ImageInvariant == ImageSpec => []ImageInv
  BY ImageInvInit, ImageInvNext, PTL DEF ImageSpec

(* However many images and sources there are, and in whatever order loads    *)
(* are superseded, cancelled, fail or finish, every native image that is     *)
(* open has an owner, and none is closed behind its owner.                   *)
THEOREM ImagesAreOwned == ImageSpec => []ImagesOwned
  <1>1. ImageInv => ImagesOwned
    BY DEF ImageInv
  <1> QED
    BY ImageInvariant, <1>1, PTL

(* However late a load ends, the widget is loading exactly while the fiber   *)
(* of the latest source reads, and ready only with the image of that source. *)
THEOREM ImageShowsLatest == ImageSpec => []LatestSourceShown
  <1>1. ImageInv => LatestSourceShown
    BY DEF ImageInv
  <1> QED
    BY ImageInvariant, <1>1, PTL
=============================================================================
