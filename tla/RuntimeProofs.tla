---------------------------- MODULE RuntimeProofs ---------------------------
(***************************************************************************)
(* Proofs about three components between the native library and the Eio    *)
(* runtime: the background executor, for any finite set of jobs and any    *)
(* number of workers; the input pipeline, for every length of the input    *)
(* and every size of the buffers; and the span feeds, for every capacity   *)
(* of the tables and every generation limit.                               *)
(***************************************************************************)
EXTENDS Background, InputPipeline, SpanFeed, InductionLemmas

-----------------------------------------------------------------------------
(* The background executor.                                                  *)

(* A job that has not been submitted has no delivery fiber. *)
NoFiberBeforeSubmit ==
    \A j \in Jobs : job[j] = "none" => fiber[j] = "none"

(* The inductive invariant. *)
BackgroundInv ==
    /\ BackgroundTypeOK
    /\ CancelExcludesDelivery
    /\ NoFiberBeforeSubmit

(* The set of running jobs is finite, and so is what is left of it. *)
LEMMA RunningFinite ==
    ASSUME NEW S, S \subseteq Jobs
    PROVE  IsFiniteSet(S)
  BY BackgroundAssumption, FS_Subset

(* A step that starts no work leaves no more jobs running. *)
LEMMA NoMoreRunning ==
    ASSUME Cardinality(Running) <= Workers, Running' \subseteq Running
    PROVE  Cardinality(Running') <= Workers
  <1>1. IsFiniteSet(Running)
    BY RunningFinite DEF Running
  <1>2. /\ Cardinality(Running') <= Cardinality(Running)
        /\ IsFiniteSet(Running')
    BY <1>1, FS_Subset
  <1>3. Cardinality(Running') \in Nat /\ Cardinality(Running) \in Nat
    BY <1>1, <1>2, FS_CardinalityType
  <1> QED
    BY <1>2, <1>3, BackgroundAssumption

(* Initially nothing is submitted. *)
LEMMA BackgroundInvInit == BackgroundInit => BackgroundInv
  <1> SUFFICES ASSUME BackgroundInit PROVE BackgroundInv
    OBVIOUS
  <1>1. Running = {}
    BY DEF BackgroundInit, Running
  <1>2. Cardinality(Running) <= Workers
    BY <1>1, FS_EmptySet, BackgroundAssumption
  <1> QED
    BY <1>2 DEF BackgroundInit, BackgroundInv, BackgroundTypeOK, JobStates,
       WorkStates, FiberStates, CancelExcludesDelivery, NoFiberBeforeSubmit

(* The part of the invariant that is about single jobs. *)
JobsInv ==
    /\ job \in [Jobs -> JobStates]
    /\ work \in [Jobs -> WorkStates]
    /\ fiber \in [Jobs -> FiberStates]
    /\ open \in BOOLEAN
    /\ CancelExcludesDelivery
    /\ NoFiberBeforeSubmit

(* Every action keeps the state of each job consistent. *)
LEMMA JobsInvStep == JobsInv /\ [BackgroundNext]_backgroundVars => JobsInv'
  <1> SUFFICES ASSUME JobsInv, [BackgroundNext]_backgroundVars PROVE JobsInv'
    OBVIOUS
  <1> USE DEF JobsInv, JobStates, WorkStates, FiberStates,
              CancelExcludesDelivery, NoFiberBeforeSubmit
  <1>1. ASSUME NEW j \in Jobs, Submit(j) PROVE JobsInv'
    BY <1>1 DEF Submit
  <1>2. ASSUME NEW j \in Jobs, Cancel(j) PROVE JobsInv'
    BY <1>2 DEF Cancel
  <1>3. ASSUME NEW j \in Jobs, PoolStart(j) PROVE JobsInv'
    BY <1>3 DEF PoolStart
  <1>4. ASSUME NEW j \in Jobs, PoolFinish(j) PROVE JobsInv'
    BY <1>4 DEF PoolFinish
  <1>5. ASSUME NEW j \in Jobs, HelperResumes(j) PROVE JobsInv'
    BY <1>5 DEF HelperResumes
  <1>6. ASSUME NEW j \in Jobs, FirstReturns(j) PROVE JobsInv'
    BY <1>6 DEF FirstReturns
  <1>7. ASSUME NEW j \in Jobs, BeginDelivery(j) PROVE JobsInv'
    BY <1>7 DEF BeginDelivery
  <1>8. ASSUME NEW j \in Jobs, EndDelivery(j) PROVE JobsInv'
    BY <1>8 DEF EndDelivery
  <1>9. ASSUME NEW j \in Jobs, RaiseDelivery(j) PROVE JobsInv'
    BY <1>9 DEF RaiseDelivery
  <1>10. ASSUME CloseSwitch PROVE JobsInv'
    BY <1>10 DEF CloseSwitch
  <1>11. ASSUME UNCHANGED backgroundVars PROVE JobsInv'
    BY <1>11 DEF backgroundVars
  <1> QED
    BY <1>1, <1>2, <1>3, <1>4, <1>5, <1>6, <1>7, <1>8, <1>9, <1>10, <1>11
       DEF BackgroundNext, BackgroundStep

(* No action oversubscribes the pool: only PoolStart makes a job running,    *)
(* and only while a worker is free.                                          *)
LEMMA PoolStep ==
    ASSUME JobsInv, Cardinality(Running) <= Workers,
           [BackgroundNext]_backgroundVars
    PROVE  Cardinality(Running') <= Workers
  <1>1. ASSUME NEW j \in Jobs, PoolStart(j)
        PROVE  Cardinality(Running') <= Workers
    <2>1. Running' = Running \cup {j} /\ j \notin Running
      BY <1>1 DEF PoolStart, Running, JobsInv
    <2>2. IsFiniteSet(Running)
      BY RunningFinite DEF Running
    <2>3. Cardinality(Running') = Cardinality(Running) + 1
      BY <2>1, <2>2, FS_AddElement
    <2> QED
      BY <1>1, <2>2, <2>3, FS_CardinalityType, BackgroundAssumption DEF PoolStart
  <1>2. CASE ~ \E j \in Jobs : PoolStart(j)
    <2>1. Running' \subseteq Running
      BY <1>2 DEF BackgroundNext, BackgroundStep, Submit, Cancel, PoolFinish,
         HelperResumes, FirstReturns, BeginDelivery, EndDelivery, RaiseDelivery,
         CloseSwitch, backgroundVars, Running, JobsInv
    <2> QED
      BY <2>1, NoMoreRunning
  <1> QED
    BY <1>1, <1>2

(* The inductive invariant holds in every reachable state. *)
THEOREM BackgroundInvariant == BackgroundSpec => []BackgroundInv
  <1>1. BackgroundInit => BackgroundInv
    BY BackgroundInvInit
  <1>2. BackgroundInv /\ [BackgroundNext]_backgroundVars => BackgroundInv'
    BY JobsInvStep, PoolStep DEF BackgroundInv, BackgroundTypeOK, JobsInv
  <1> QED
    BY <1>1, <1>2, PTL DEF BackgroundSpec

(* submit, cancel, the helper and the delivery fiber keep every variable in  *)
(* its type and never run more jobs than there are workers.                  *)
THEOREM BackgroundTypeCorrect == BackgroundSpec => []BackgroundTypeOK
  BY BackgroundInvariant, PTL DEF BackgroundInv

(* A job that cancel won is never in its completion callback.                *)
THEOREM BackgroundCancelExcludesDelivery ==
    BackgroundSpec => []CancelExcludesDelivery
  BY BackgroundInvariant, PTL DEF BackgroundInv

(* cancelled and delivered are final, and a delivery fiber that has exited   *)
(* never runs again: on_complete is called at most once, and never after a   *)
(* cancel that took effect.                                                  *)
THEOREM BackgroundSettledForGood == BackgroundSpec => SettledForGood
  <1>1. ASSUME BackgroundInv, [BackgroundNext]_backgroundVars, NEW j \in Jobs
        PROVE  /\ job[j] \in {"cancelled", "delivered"} => job'[j] = job[j]
               /\ fiber[j] = "exited" => fiber'[j] = "exited"
    BY <1>1 DEF BackgroundInv, BackgroundTypeOK, CancelExcludesDelivery,
       NoFiberBeforeSubmit, BackgroundNext, BackgroundStep, Submit, Cancel,
       PoolStart, PoolFinish, HelperResumes, FirstReturns, BeginDelivery,
       EndDelivery, RaiseDelivery, CloseSwitch, backgroundVars
  <1>2. BackgroundInv /\ [BackgroundNext]_backgroundVars =>
          [\A j \in Jobs :
             /\ job[j] \in {"cancelled", "delivered"} => job'[j] = job[j]
             /\ fiber[j] = "exited" => fiber'[j] = "exited"]_backgroundVars
    BY <1>1
  <1> QED
    BY <1>2, BackgroundInvariant, PTL DEF BackgroundSpec, SettledForGood

-----------------------------------------------------------------------------
(* The input pipeline: where every byte is, between the terminal and the     *)
(* handler.  What the parser makes of a chunk is a recursive function of its *)
(* bytes; ParseKeeps is the induction over them.                             *)

(* H is the line of events past the coordinator, W the events before it, P   *)
(* the bytes of the prefix, R those of the read buffer, D the bytes          *)
(* discarded and n how many were read.                                       *)

AnyEvents == ResizeEvents \cup MotionEvents \cup KeyEvents

IsLossless(e) == e.kind \in {"key", "sequence"}
IsMotion(e) == e.kind = "motion"

(* An event of the parser: the bytes in order, and a motion in one motion byte. *)
Decoded(kinds, e) ==
    /\ e \in KeyEvents \cup MotionEvents
    /\ Len(e.bytes) \in 1 .. 2 /\ Ascending(e.bytes)
    /\ IsMotion(e) => Len(e.bytes) = 1 /\ kinds[e.bytes[1]] = "motion"

DecodedSeq(kinds, s) ==
    s \in Seq(AnyEvents) /\ \A k \in 1 .. Len(s) : Decoded(kinds, s[k])

EventSeq(kinds, s) ==
    /\ s \in Seq(AnyEvents)
    /\ \A k \in 1 .. Len(s) : s[k] \in ResizeEvents \/ Decoded(kinds, s[k])

(* Every byte of S is before every byte of T. *)
Before(S, T) == \A a \in S, b \in T : a < b

InOrder(s) == \A k, l \in 1 .. Len(s) : k < l => Before(ToSet(s[k].bytes), ToSet(s[l].bytes))

LosslessInOrder(s) ==
    \A k, l \in 1 .. Len(s) :
        k < l /\ IsLossless(s[k]) /\ IsLossless(s[l]) =>
            Before(ToSet(s[k].bytes), ToSet(s[l].bytes))

KeptBytes(s) == UNION {ToSet(s[k].bytes) : k \in {l \in 1 .. Len(s) : IsLossless(s[l])}}

(* A newer motion than b has left the coordinator. *)
Newer(kinds, s, b) ==
    kinds[b] = "motion" /\ \E k \in 1 .. Len(s) : IsMotion(s[k]) /\ b <= s[k].bytes[1]

Ordered(H, W, P, R) ==
    /\ LosslessInOrder(H) /\ InOrder(W)
    /\ Before(BytesOf(H), BytesOf(W) \cup P \cup R)
    /\ Before(BytesOf(W), P \cup R) /\ Before(P, R)

Placed(kinds, H, W, P, R, D, n) ==
    /\ BytesOf(H) \cup BytesOf(W) \cup P \cup R \cup D \subseteq 1 .. n
    /\ (BytesOf(H) \cup BytesOf(W) \cup P \cup R) \cap D = {}
    /\ \A b \in 1 .. n : \/ b \in D \cup KeptBytes(H) \cup BytesOf(W) \cup P \cup R
                         \/ Newer(kinds, H, b)

Kept(kinds, H, W, P, R, D, n) ==
    /\ n \in 0 .. InputLength
    /\ EventSeq(kinds, H) /\ DecodedSeq(kinds, W)
    /\ Ordered(H, W, P, R) /\ Placed(kinds, H, W, P, R, D, n)

(* An element of a sequence. *)
LEMMA ElementTyped ==
    ASSUME NEW S, NEW s \in Seq(S), NEW k \in 1 .. Len(s)
    PROVE  s[k] \in S
  OBVIOUS

(* The elements of a sequence. *)
LEMMA ElementsOf ==
    ASSUME NEW S, NEW s \in Seq(S)
    PROVE  /\ DOMAIN s = 1 .. Len(s) /\ ToSet(s) = {s[i] : i \in 1 .. Len(s)}
           /\ ToSet(s) \subseteq S
  BY DEF ToSet

(* The bytes of events are bytes of the input. *)
LEMMA EventBytes ==
    ASSUME NEW e \in AnyEvents
    PROVE  /\ e.bytes \in Seq(1 .. InputLength) /\ DOMAIN e.bytes = 1 .. Len(e.bytes)
           /\ ToSet(e.bytes) = {e.bytes[i] : i \in 1 .. Len(e.bytes)}
           /\ ToSet(e.bytes) \subseteq 1 .. InputLength
           /\ e \in ResizeEvents => /\ ToSet(e.bytes) = {} /\ ~IsLossless(e) /\ ~IsMotion(e)
<1>1. e.bytes \in Seq(1 .. InputLength) /\ (e \in ResizeEvents => e.bytes = <<>>)
  <2>1. CASE e \in ResizeEvents
    <3>1. e.bytes = <<>>
      BY <2>1 DEF ResizeEvents
    <3> QED BY <3>1
  <2>2. CASE e \in MotionEvents
    <3>1. e.bytes \in Seq(1 .. InputLength) /\ e.kind = "motion"
      BY <2>2 DEF MotionEvents
    <3> QED BY <3>1 DEF ResizeEvents
  <2>3. CASE e \in KeyEvents
    <3>1. e.bytes \in Seq(1 .. InputLength) /\ e.kind \in {"key", "sequence"}
      BY <2>3 DEF KeyEvents
    <3> QED BY <3>1 DEF ResizeEvents
  <2> QED BY <2>1, <2>2, <2>3 DEF AnyEvents
<1>2. DOMAIN e.bytes = 1 .. Len(e.bytes) /\ ToSet(e.bytes) = {e.bytes[i] : i \in 1 .. Len(e.bytes)}
      /\ ToSet(e.bytes) \subseteq 1 .. InputLength
  BY <1>1, ElementsOf
<1>3. e \in ResizeEvents => ToSet(e.bytes) = {} /\ ~IsLossless(e) /\ ~IsMotion(e)
  BY <1>1, <1>2 DEF ResizeEvents, IsLossless, IsMotion
<1> QED BY <1>1, <1>2, <1>3

(* The bytes of a sequence of events, and of the lossless among them. *)
LEMMA BytesMember ==
    ASSUME NEW s \in Seq(AnyEvents)
    PROVE  /\ \A b : b \in BytesOf(s) <=> \E k \in 1 .. Len(s) : b \in ToSet(s[k].bytes)
           /\ \A b : b \in KeptBytes(s) <=>
                        \E k \in 1 .. Len(s) : IsLossless(s[k]) /\ b \in ToSet(s[k].bytes)
           /\ BytesOf(s) \subseteq 1 .. InputLength
<1>1. DOMAIN s = 1 .. Len(s)
  OBVIOUS
<1>2. \A b : b \in BytesOf(s) <=> \E k \in 1 .. Len(s) : b \in ToSet(s[k].bytes)
  BY <1>1, Zenon DEF BytesOf
<1>3. \A b : b \in KeptBytes(s) <=>
                \E k \in 1 .. Len(s) : IsLossless(s[k]) /\ b \in ToSet(s[k].bytes)
  BY Zenon DEF KeptBytes
<1>4. \A k \in 1 .. Len(s) : ToSet(s[k].bytes) \subseteq 1 .. InputLength
  BY EventBytes
<1> QED BY <1>2, <1>3, <1>4

(* s is e followed by t; t is s followed by e. *)
Led(s, e, t) == /\ s \in Seq(AnyEvents) /\ t \in Seq(AnyEvents) /\ Len(s) = Len(t) + 1
                /\ s[1] = e /\ \A k \in 1 .. Len(t) : s[k + 1] = t[k]
Ended(t, s, e) == /\ s \in Seq(AnyEvents) /\ t \in Seq(AnyEvents) /\ Len(t) = Len(s) + 1
                  /\ t[Len(t)] = e /\ \A k \in 1 .. Len(s) : t[k] = s[k]

(* The bytes of a sequence are those of its head and of the rest. *)
LEMMA LedBytes ==
    ASSUME NEW s, NEW e, NEW t, Led(s, e, t)
    PROVE  BytesOf(s) = ToSet(e.bytes) \cup BytesOf(t)
<1>1. s \in Seq(AnyEvents) /\ t \in Seq(AnyEvents) /\ Len(t) \in Nat /\ Len(s) = Len(t) + 1
      /\ s[1] = e /\ \A k \in 1 .. Len(t) : s[k + 1] = t[k]
  BY DEF Led
<1>2. ASSUME NEW b PROVE b \in BytesOf(s) <=> b \in ToSet(e.bytes) \/ b \in BytesOf(t)
  <2>1. b \in BytesOf(s) <=> \E k \in 1 .. Len(s) : b \in ToSet(s[k].bytes)
    BY <1>1, BytesMember
  <2>2. b \in BytesOf(t) <=> \E k \in 1 .. Len(t) : b \in ToSet(t[k].bytes)
    BY <1>1, BytesMember
  <2>3. ASSUME NEW k \in 1 .. Len(s), b \in ToSet(s[k].bytes), k # 1
        PROVE  b \in BytesOf(t)
    <3>1. k - 1 \in 1 .. Len(t) /\ (k - 1) + 1 = k
      BY <1>1, <2>3
    <3>2. s[k] = t[k - 1]
      BY <1>1, <3>1
    <3> QED BY <2>2, <2>3, <3>1, <3>2
  <2>4. ASSUME NEW k \in 1 .. Len(t), b \in ToSet(t[k].bytes) PROVE b \in BytesOf(s)
    <3>1. k + 1 \in 1 .. Len(s) /\ s[k + 1] = t[k]
      BY <1>1
    <3> QED BY <2>1, <2>4, <3>1
  <2>5. 1 \in 1 .. Len(s)
    BY <1>1
  <2> QED BY <1>1, <2>1, <2>2, <2>3, <2>4, <2>5
<1> QED BY <1>2

(* An event at the end adds its bytes. *)
LEMMA EndedBytes ==
    ASSUME NEW s, NEW e, NEW t, Ended(t, s, e)
    PROVE  /\ BytesOf(t) = BytesOf(s) \cup ToSet(e.bytes)
           /\ IsLossless(e) => KeptBytes(t) = KeptBytes(s) \cup ToSet(e.bytes)
           /\ ~IsLossless(e) => KeptBytes(t) = KeptBytes(s)
<1>1. s \in Seq(AnyEvents) /\ t \in Seq(AnyEvents) /\ Len(s) \in Nat /\ Len(t) = Len(s) + 1
      /\ t[Len(t)] = e /\ \A k \in 1 .. Len(s) : t[k] = s[k]
  BY DEF Ended
<1>2. \A k \in 1 .. Len(t) : k = Len(t) \/ k \in 1 .. Len(s)
  BY <1>1
<1>3. Len(t) \in 1 .. Len(t) /\ \A k \in 1 .. Len(s) : k \in 1 .. Len(t)
  BY <1>1
<1>4. ASSUME NEW b PROVE b \in BytesOf(t) <=> b \in BytesOf(s) \/ b \in ToSet(e.bytes)
  <2>1. b \in BytesOf(t) <=> \E k \in 1 .. Len(t) : b \in ToSet(t[k].bytes)
    BY <1>1, BytesMember
  <2>2. b \in BytesOf(s) <=> \E k \in 1 .. Len(s) : b \in ToSet(s[k].bytes)
    BY <1>1, BytesMember
  <2> QED BY <1>1, <1>2, <1>3, <2>1, <2>2, Zenon
<1>5. ASSUME NEW b
      PROVE  b \in KeptBytes(t) <=> b \in KeptBytes(s) \/ (IsLossless(e) /\ b \in ToSet(e.bytes))
  <2>1. b \in KeptBytes(t) <=> \E k \in 1 .. Len(t) : IsLossless(t[k]) /\ b \in ToSet(t[k].bytes)
    BY <1>1, BytesMember
  <2>2. b \in KeptBytes(s) <=> \E k \in 1 .. Len(s) : IsLossless(s[k]) /\ b \in ToSet(s[k].bytes)
    BY <1>1, BytesMember
  <2> QED BY <1>1, <1>2, <1>3, <2>1, <2>2, Zenon
<1> QED BY <1>4, <1>5

(* The rest of a sequence of events in order is in order, after the first. *)
LEMMA LedOrder ==
    ASSUME NEW kinds, NEW s, NEW e, NEW t, Led(s, e, t), DecodedSeq(kinds, s), InOrder(s)
    PROVE  /\ Decoded(kinds, e) /\ DecodedSeq(kinds, t) /\ InOrder(t)
           /\ Before(ToSet(e.bytes), BytesOf(t))
<1>1. s \in Seq(AnyEvents) /\ t \in Seq(AnyEvents) /\ Len(t) \in Nat /\ Len(s) = Len(t) + 1
      /\ s[1] = e /\ \A k \in 1 .. Len(t) : s[k + 1] = t[k]
  BY DEF Led
<1>2. 1 \in 1 .. Len(s) /\ \A k \in 1 .. Len(t) : k + 1 \in 1 .. Len(s) /\ 1 < k + 1
  BY <1>1
<1>3. Decoded(kinds, e) /\ \A k \in 1 .. Len(t) : Decoded(kinds, t[k])
  BY <1>1, <1>2 DEF DecodedSeq
<1>4. DecodedSeq(kinds, t)
  BY <1>1, <1>3 DEF DecodedSeq
<1>5. InOrder(t)
  <2> SUFFICES ASSUME NEW k \in 1 .. Len(t), NEW l \in 1 .. Len(t), k < l
               PROVE  Before(ToSet(t[k].bytes), ToSet(t[l].bytes))
    BY DEF InOrder
  <2>1. k + 1 < l + 1 /\ s[k + 1] = t[k] /\ s[l + 1] = t[l]
    BY <1>1
  <2> QED BY <1>2, <2>1 DEF InOrder
<1>6. ASSUME NEW b \in BytesOf(t) PROVE \A a \in ToSet(e.bytes) : a < b
  <2>1. PICK k \in 1 .. Len(t) : b \in ToSet(t[k].bytes)
    BY <1>1, BytesMember
  <2>2. s[k + 1] = t[k] /\ k + 1 \in 1 .. Len(s) /\ 1 < k + 1 /\ 1 \in 1 .. Len(s)
    BY <1>1, <1>2
  <2>3. Before(ToSet(s[1].bytes), ToSet(s[k + 1].bytes))
    BY <2>2 DEF InOrder
  <2> QED BY <1>1, <2>1, <2>2, <2>3 DEF Before
<1> QED BY <1>3, <1>4, <1>5, <1>6 DEF Before

(* An event after all others keeps the order. *)
LEMMA EndedOrder ==
    ASSUME NEW s, NEW e, NEW t, Ended(t, s, e), Before(BytesOf(s), ToSet(e.bytes))
    PROVE  /\ LosslessInOrder(s) => LosslessInOrder(t)
           /\ InOrder(s) => InOrder(t)
<1>1. s \in Seq(AnyEvents) /\ t \in Seq(AnyEvents) /\ Len(s) \in Nat /\ Len(t) = Len(s) + 1
      /\ t[Len(t)] = e /\ \A k \in 1 .. Len(s) : t[k] = s[k]
  BY DEF Ended
<1>2. ASSUME NEW k \in 1 .. Len(t), NEW l \in 1 .. Len(t), k < l
      PROVE  /\ k \in 1 .. Len(s) /\ t[k] = s[k]
             /\ \/ l \in 1 .. Len(s) /\ t[l] = s[l]
                \/ Before(ToSet(t[k].bytes), ToSet(t[l].bytes))
  <2>1. k \in 1 .. Len(s) /\ (l = Len(t) \/ l \in 1 .. Len(s))
    BY <1>1, <1>2
  <2>2. ToSet(s[k].bytes) \subseteq BytesOf(s)
    BY <1>1, <2>1, BytesMember
  <2>3. Before(ToSet(s[k].bytes), ToSet(e.bytes))
    BY <2>2 DEF Before
  <2> QED BY <1>1, <2>1, <2>3
<1>3. LosslessInOrder(s) => LosslessInOrder(t)
  BY <1>2 DEF LosslessInOrder
<1>4. InOrder(s) => InOrder(t)
  BY <1>2 DEF InOrder
<1> QED BY <1>3, <1>4

(* The oldest waiting event enters the queue: nothing is lost or reordered. *)
LEMMA EmitKeeps ==
    ASSUME NEW kinds, NEW H, NEW W, NEW P, NEW R, NEW D, NEW n, Kept(kinds, H, W, P, R, D, n),
           NEW e, NEW V, Led(W, e, V), NEW G, Ended(G, H, e)
    PROVE  Kept(kinds, G, V, P, R, D, n)
<1>1. /\ n \in 0 .. InputLength /\ EventSeq(kinds, H) /\ DecodedSeq(kinds, W)
      /\ Ordered(H, W, P, R) /\ Placed(kinds, H, W, P, R, D, n)
  BY DEF Kept
<1>2. /\ Decoded(kinds, e) /\ DecodedSeq(kinds, V) /\ InOrder(V)
      /\ Before(ToSet(e.bytes), BytesOf(V))
  BY <1>1, LedOrder DEF Ordered
<1>3. BytesOf(W) = ToSet(e.bytes) \cup BytesOf(V)
  BY LedBytes
<1>4. /\ BytesOf(G) = BytesOf(H) \cup ToSet(e.bytes)
      /\ IsLossless(e) => KeptBytes(G) = KeptBytes(H) \cup ToSet(e.bytes)
      /\ ~IsLossless(e) => KeptBytes(G) = KeptBytes(H)
  BY EndedBytes
<1>5. /\ G \in Seq(AnyEvents) /\ Len(H) \in Nat /\ Len(G) = Len(H) + 1
      /\ G[Len(G)] = e /\ \A k \in 1 .. Len(H) : G[k] = H[k]
  BY DEF Ended
<1>6. EventSeq(kinds, G)
  BY <1>1, <1>2, <1>5 DEF EventSeq
<1>7. Ordered(G, V, P, R)
  <2>1. Before(BytesOf(H), ToSet(e.bytes))
    BY <1>1, <1>3 DEF Ordered, Before
  <2>2. LosslessInOrder(G)
    BY <1>1, <2>1, EndedOrder DEF Ordered
  <2>3. Before(BytesOf(G), BytesOf(V) \cup P \cup R) /\ Before(BytesOf(V), P \cup R)
    BY <1>1, <1>2, <1>3, <1>4 DEF Ordered, Before
  <2> QED BY <1>1, <1>2, <2>2, <2>3 DEF Ordered
<1>8. ASSUME NEW b \in 1 .. n
      PROVE  b \in D \cup KeptBytes(G) \cup BytesOf(V) \cup P \cup R \/ Newer(kinds, G, b)
  <2>1. CASE Newer(kinds, H, b)
    <3>1. PICK k \in 1 .. Len(H) : IsMotion(H[k]) /\ b <= H[k].bytes[1]
      BY <2>1 DEF Newer
    <3>2. k \in 1 .. Len(G) /\ G[k] = H[k]
      BY <1>5
    <3> QED BY <2>1, <3>1, <3>2 DEF Newer
  <2>2. CASE b \in ToSet(e.bytes) /\ IsMotion(e)
    <3>1. e.bytes \in Seq(1 .. InputLength) /\ Len(e.bytes) = 1 /\ kinds[e.bytes[1]] = "motion"
          /\ ToSet(e.bytes) = {e.bytes[i] : i \in 1 .. Len(e.bytes)}
      BY <1>2, <2>2, EventBytes DEF Decoded, AnyEvents
    <3>2. b = e.bytes[1] /\ b \in Nat
      BY <2>2, <3>1
    <3>3. Len(G) \in 1 .. Len(G) /\ b <= e.bytes[1] /\ kinds[b] = "motion"
      BY <1>5, <3>1, <3>2
    <3> QED BY <1>5, <2>2, <3>3 DEF Newer
  <2>3. CASE b \in ToSet(e.bytes) /\ IsLossless(e)
    BY <1>4, <2>3
  <2>4. IsMotion(e) \/ IsLossless(e)
    BY <1>2 DEF Decoded, MotionEvents, KeyEvents, IsMotion, IsLossless
  <2>5. b \in D \cup KeptBytes(H) \cup BytesOf(W) \cup P \cup R \/ Newer(kinds, H, b)
    BY <1>1 DEF Placed
  <2>6. KeptBytes(H) \subseteq KeptBytes(G)
    BY <1>4
  <2> QED BY <1>3, <2>1, <2>2, <2>3, <2>4, <2>5, <2>6
<1>9. Placed(kinds, G, V, P, R, D, n)
  BY <1>1, <1>3, <1>4, <1>8 DEF Placed
<1> QED BY <1>1, <1>2, <1>6, <1>7, <1>9 DEF Kept

(* t is s with another event at place k. *)
Exchanged(t, s, k, e) ==
    /\ s \in Seq(AnyEvents) /\ t \in Seq(AnyEvents) /\ Len(t) = Len(s) /\ k \in 1 .. Len(s)
    /\ t[k] = e /\ \A l \in 1 .. Len(s) : l # k => t[l] = s[l]

(* Exchanging an event that may be lost keeps the bytes that may not. *)
LEMMA ExchangedFacts ==
    ASSUME NEW s, NEW t, NEW k, NEW e, Exchanged(t, s, k, e), ~IsLossless(e), ~IsLossless(s[k])
    PROVE  /\ BytesOf(t) \subseteq BytesOf(s) \cup ToSet(e.bytes) /\ KeptBytes(t) = KeptBytes(s)
           /\ LosslessInOrder(s) => LosslessInOrder(t)
<1>1. /\ s \in Seq(AnyEvents) /\ t \in Seq(AnyEvents) /\ Len(t) = Len(s) /\ k \in 1 .. Len(s)
      /\ t[k] = e /\ \A l \in 1 .. Len(s) : l # k => t[l] = s[l]
  BY DEF Exchanged
<1>2. ASSUME NEW b \in BytesOf(t) PROVE b \in BytesOf(s) \cup ToSet(e.bytes)
  <2>1. PICK l \in 1 .. Len(t) : b \in ToSet(t[l].bytes)
    BY <1>1, BytesMember
  <2>2. l # k => b \in BytesOf(s)
    BY <1>1, <2>1, BytesMember
  <2> QED BY <1>1, <2>1, <2>2
<1>3. ASSUME NEW b PROVE b \in KeptBytes(t) <=> b \in KeptBytes(s)
  <2>1. b \in KeptBytes(t) <=> \E l \in 1 .. Len(t) : IsLossless(t[l]) /\ b \in ToSet(t[l].bytes)
    BY <1>1, BytesMember
  <2>2. b \in KeptBytes(s) <=> \E l \in 1 .. Len(s) : IsLossless(s[l]) /\ b \in ToSet(s[l].bytes)
    BY <1>1, BytesMember
  <2>3. \A l \in 1 .. Len(s) : /\ IsLossless(t[l]) => l # k /\ t[l] = s[l]
                              /\ IsLossless(s[l]) => l # k /\ t[l] = s[l]
    BY <1>1
  <2> QED BY <1>1, <2>1, <2>2, <2>3, Zenon
<1>4. LosslessInOrder(s) => LosslessInOrder(t)
  BY <1>1 DEF LosslessInOrder
<1> QED BY <1>2, <1>3, <1>4

(* A motion takes the place of an older one: the newest position is kept. *)
LEMMA CoalesceKeeps ==
    ASSUME NEW kinds, NEW H, NEW W, NEW P, NEW R, NEW D, NEW n, Kept(kinds, H, W, P, R, D, n),
           NEW e, NEW V, Led(W, e, V), NEW G, NEW k, Exchanged(G, H, k, e),
           IsMotion(e), IsMotion(H[k])
    PROVE  Kept(kinds, G, V, P, R, D, n)
<1>1. /\ n \in 0 .. InputLength /\ EventSeq(kinds, H) /\ DecodedSeq(kinds, W)
      /\ Ordered(H, W, P, R) /\ Placed(kinds, H, W, P, R, D, n)
  BY DEF Kept
<1>2. /\ Decoded(kinds, e) /\ DecodedSeq(kinds, V) /\ InOrder(V)
      /\ Before(ToSet(e.bytes), BytesOf(V))
  BY <1>1, LedOrder DEF Ordered
<1>3. BytesOf(W) = ToSet(e.bytes) \cup BytesOf(V)
  BY LedBytes
<1>4. /\ H \in Seq(AnyEvents) /\ G \in Seq(AnyEvents) /\ Len(G) = Len(H) /\ k \in 1 .. Len(H)
      /\ G[k] = e /\ \A l \in 1 .. Len(H) : l # k => G[l] = H[l]
  BY DEF Exchanged
<1>5. /\ BytesOf(G) \subseteq BytesOf(H) \cup ToSet(e.bytes) /\ KeptBytes(G) = KeptBytes(H)
      /\ LosslessInOrder(G)
  <2>1. ~IsLossless(e) /\ ~IsLossless(H[k])
    BY DEF IsMotion, IsLossless
  <2>2. LosslessInOrder(H)
    BY <1>1 DEF Ordered
  <2> QED BY <2>1, <2>2, ExchangedFacts
<1>6. EventSeq(kinds, G)
  BY <1>1, <1>2, <1>4 DEF EventSeq
<1>7. Ordered(G, V, P, R)
  <2>1. Before(BytesOf(G), BytesOf(V) \cup P \cup R) /\ Before(BytesOf(V), P \cup R)
    BY <1>1, <1>2, <1>3, <1>5 DEF Ordered, Before
  <2> QED BY <1>1, <1>2, <1>5, <2>1 DEF Ordered
<1>8. /\ e.bytes \in Seq(1 .. InputLength) /\ Len(e.bytes) = 1 /\ kinds[e.bytes[1]] = "motion"
      /\ ToSet(e.bytes) = {e.bytes[i] : i \in 1 .. Len(e.bytes)}
  BY <1>2, EventBytes DEF Decoded, AnyEvents
<1>9. /\ H[k].bytes \in Seq(1 .. InputLength) /\ Len(H[k].bytes) = 1
      /\ ToSet(H[k].bytes) = {H[k].bytes[i] : i \in 1 .. Len(H[k].bytes)}
  <2>1. H[k] \notin ResizeEvents /\ H[k] \in AnyEvents
    BY <1>4, EventBytes
  <2>2. Decoded(kinds, H[k])
    BY <1>1, <1>4, <2>1 DEF EventSeq
  <2> QED BY <2>1, <2>2, EventBytes DEF Decoded
<1>10. H[k].bytes[1] < e.bytes[1] /\ e.bytes[1] \in Nat /\ H[k].bytes[1] \in Nat
  <2> DEFINE x == e.bytes
             y == H[k].bytes
  <2>1. x \in Seq(1 .. InputLength) /\ Len(x) = 1 /\ y \in Seq(1 .. InputLength) /\ Len(y) = 1
        /\ ToSet(x) = {x[i] : i \in 1 .. Len(x)} /\ ToSet(y) = {y[i] : i \in 1 .. Len(y)}
    BY <1>8, <1>9
  <2>2. ToSet(y) \subseteq BytesOf(H) /\ ToSet(x) \subseteq BytesOf(W)
    BY <1>3, <1>4, BytesMember
  <2>3. Before(BytesOf(H), BytesOf(W))
    BY <1>1 DEF Ordered, Before
  <2> HIDE DEF x, y
  <2>4. x[1] \in ToSet(x) /\ y[1] \in ToSet(y) /\ x[1] \in Nat /\ y[1] \in Nat
    <3>1. 1 \in 1 .. Len(x) /\ 1 \in 1 .. Len(y)
      BY <2>1
    <3>2. x[1] \in 1 .. InputLength /\ y[1] \in 1 .. InputLength
      BY <2>1, <3>1, ElementTyped
    <3> QED BY <2>1, <3>1, <3>2, SizesAssumption
  <2>5. y[1] < x[1]
    BY <2>2, <2>3, <2>4 DEF Before
  <2> QED BY <2>4, <2>5 DEF x, y
<1>11. ASSUME NEW b \in 1 .. n
       PROVE  b \in D \cup KeptBytes(G) \cup BytesOf(V) \cup P \cup R \/ Newer(kinds, G, b)
  <2>1. CASE Newer(kinds, H, b)
    <3>1. PICK l \in 1 .. Len(H) : IsMotion(H[l]) /\ b <= H[l].bytes[1]
      BY <2>1 DEF Newer
    <3>2. CASE l = k
      <4>1. b <= e.bytes[1]
        BY <1>10, <3>1, <3>2
      <4> QED BY <1>4, <2>1, <4>1 DEF Newer
    <3>3. CASE l # k
      BY <1>4, <2>1, <3>1, <3>3 DEF Newer
    <3> QED BY <3>2, <3>3
  <2>2. CASE b \in ToSet(e.bytes)
    <3>1. b = e.bytes[1]
      BY <1>8, <2>2
    <3>2. b <= e.bytes[1] /\ kinds[b] = "motion"
      BY <1>8, <3>1
    <3> QED BY <1>4, <3>2 DEF Newer
  <2>3. b \in D \cup KeptBytes(H) \cup BytesOf(W) \cup P \cup R \/ Newer(kinds, H, b)
    BY <1>1 DEF Placed
  <2> QED BY <1>3, <1>5, <2>1, <2>2, <2>3
<1>12. Placed(kinds, G, V, P, R, D, n)
  BY <1>1, <1>3, <1>5, <1>11 DEF Placed
<1> QED BY <1>1, <1>2, <1>6, <1>7, <1>12 DEF Kept

(* A resize, queued or put in the place of an older one, touches no byte. *)
LEMMA ResizeKeeps ==
    ASSUME NEW kinds, NEW H, NEW W, NEW P, NEW R, NEW D, NEW n, Kept(kinds, H, W, P, R, D, n),
           NEW e \in ResizeEvents, NEW G,
           Ended(G, H, e) \/ \E k \in 1 .. Len(H) : H[k] \in ResizeEvents /\ Exchanged(G, H, k, e)
    PROVE  Kept(kinds, G, W, P, R, D, n)
<1>1. /\ n \in 0 .. InputLength /\ EventSeq(kinds, H) /\ DecodedSeq(kinds, W)
      /\ Ordered(H, W, P, R) /\ Placed(kinds, H, W, P, R, D, n)
  BY DEF Kept
<1>2. e \in AnyEvents /\ ToSet(e.bytes) = {} /\ ~IsLossless(e) /\ ~IsMotion(e)
  BY EventBytes DEF AnyEvents
<1>3. LosslessInOrder(H)
  BY <1>1 DEF Ordered
<1>4. /\ BytesOf(G) \subseteq BytesOf(H) /\ KeptBytes(G) = KeptBytes(H)
      /\ LosslessInOrder(G) /\ EventSeq(kinds, G)
      /\ \A b : Newer(kinds, H, b) => Newer(kinds, G, b)
  <2>1. CASE Ended(G, H, e)
    <3>1. BytesOf(G) = BytesOf(H) /\ KeptBytes(G) = KeptBytes(H)
      BY <1>2, <2>1, EndedBytes, ZenonT(60)
    <3>2. LosslessInOrder(G)
      <4>1. Before(BytesOf(H), ToSet(e.bytes))
        BY <1>2 DEF Before
      <4> QED BY <1>3, <2>1, <4>1, EndedOrder
    <3>3. EventSeq(kinds, G) /\ \A b : Newer(kinds, H, b) => Newer(kinds, G, b)
      <4>1. /\ G \in Seq(AnyEvents) /\ Len(H) \in Nat /\ Len(G) = Len(H) + 1
            /\ G[Len(G)] = e /\ \A k \in 1 .. Len(H) : G[k] = H[k]
        BY <2>1 DEF Ended
      <4>2. EventSeq(kinds, G)
        BY <1>1, <4>1 DEF EventSeq
      <4>3. \A k \in 1 .. Len(H) : k \in 1 .. Len(G)
        BY <4>1
      <4> QED BY <4>1, <4>2, <4>3 DEF Newer
    <3> QED BY <3>1, <3>2, <3>3
  <2>2. CASE \E k \in 1 .. Len(H) : H[k] \in ResizeEvents /\ Exchanged(G, H, k, e)
    <3>1. PICK k \in 1 .. Len(H) : H[k] \in ResizeEvents /\ Exchanged(G, H, k, e)
      BY <2>2
    <3>2. ~IsLossless(H[k]) /\ ~IsMotion(H[k])
      BY <3>1, EventBytes DEF AnyEvents
    <3>3. BytesOf(G) \subseteq BytesOf(H) /\ KeptBytes(G) = KeptBytes(H) /\ LosslessInOrder(G)
      BY <1>2, <1>3, <3>1, <3>2, ExchangedFacts
    <3>4. /\ G \in Seq(AnyEvents) /\ Len(G) = Len(H)
          /\ G[k] = e /\ \A l \in 1 .. Len(H) : l # k => G[l] = H[l]
      BY <3>1 DEF Exchanged
    <3>5. EventSeq(kinds, G)
      BY <1>1, <3>4 DEF EventSeq
    <3>6. ASSUME NEW b, Newer(kinds, H, b) PROVE Newer(kinds, G, b)
      <4>1. PICK l \in 1 .. Len(H) : IsMotion(H[l]) /\ b <= H[l].bytes[1]
        BY <3>6 DEF Newer
      <4>2. G[l] = H[l]
        BY <3>2, <3>4, <4>1
      <4> QED BY <3>4, <3>6, <4>1, <4>2 DEF Newer
    <3> QED BY <3>3, <3>5, <3>6
  <2> QED BY <2>1, <2>2
<1>5. Ordered(G, W, P, R)
  BY <1>1, <1>4 DEF Ordered, Before
<1>6. Placed(kinds, G, W, P, R, D, n)
  BY <1>1, <1>4 DEF Placed
<1> QED BY <1>1, <1>4, <1>5, <1>6 DEF Kept

(* The parser and the coordinator hold the same bytes in another form. *)
LEMMA RegroupKeeps ==
    ASSUME NEW kinds, NEW H, NEW W, NEW P, NEW R, NEW D, NEW n, Kept(kinds, H, W, P, R, D, n),
           NEW V, NEW Q, NEW S, DecodedSeq(kinds, V), InOrder(V),
           Before(BytesOf(V), Q \cup S), Before(Q, S),
           BytesOf(V) \cup Q \cup S = BytesOf(W) \cup P \cup R
    PROVE  Kept(kinds, H, V, Q, S, D, n)
<1>1. Ordered(H, V, Q, S)
  BY DEF Kept, Ordered, Before
<1>2. Placed(kinds, H, V, Q, S, D, n)
  BY DEF Kept, Placed
<1> QED BY <1>1, <1>2 DEF Kept

(* No event has no bytes. *)
LEMMA NoEvents ==
    ASSUME NEW kinds
    PROVE  /\ DecodedSeq(kinds, <<>>) /\ EventSeq(kinds, <<>>)
           /\ InOrder(<<>>) /\ LosslessInOrder(<<>>)
           /\ BytesOf(<<>>) = {} /\ KeptBytes(<<>>) = {}
<1>1. <<>> \in Seq(AnyEvents) /\ Len(<<>>) = 0
  OBVIOUS
<1>2. DecodedSeq(kinds, <<>>) /\ EventSeq(kinds, <<>>) /\ InOrder(<<>>) /\ LosslessInOrder(<<>>)
  BY <1>1 DEF DecodedSeq, EventSeq, InOrder, LosslessInOrder
<1>3. \A b : b \notin BytesOf(<<>>) /\ b \notin KeptBytes(<<>>)
  <2>1. PICK s : s = <<>>
    OBVIOUS
  <2>2. s \in Seq(AnyEvents) /\ \A k \in 1 .. Len(s) : FALSE
    BY <1>1, <2>1
  <2>3. \A b : b \notin BytesOf(s) /\ b \notin KeptBytes(s)
    BY <2>2, BytesMember
  <2> QED BY <2>1, <2>3
<1> QED BY <1>2, <1>3

(* reset discards what has not reached the queue. *)
LEMMA ResetKeeps ==
    ASSUME NEW kinds, NEW H, NEW W, NEW P, NEW R, NEW D, NEW n, Kept(kinds, H, W, P, R, D, n)
    PROVE  Kept(kinds, H, <<>>, {}, {}, D \cup BytesOf(W) \cup P \cup R, n)
<1>1. /\ DecodedSeq(kinds, <<>>) /\ InOrder(<<>>) /\ BytesOf(<<>>) = {}
  BY NoEvents
<1>2. Ordered(H, <<>>, {}, {})
  BY <1>1 DEF Kept, Ordered, Before
<1>3. BytesOf(H) \cap (BytesOf(W) \cup P \cup R) = {}
  <2>1. Before(BytesOf(H), BytesOf(W) \cup P \cup R) /\ BytesOf(H) \subseteq 1 .. n /\ n \in Nat
    BY DEF Kept, Ordered, Placed
  <2>2. \A a \in BytesOf(H) : ~(a < a)
    BY <2>1
  <2> QED BY <2>1, <2>2 DEF Before
<1>4. Placed(kinds, H, <<>>, {}, {}, D \cup BytesOf(W) \cup P \cup R, n)
  BY <1>1, <1>3 DEF Kept, Placed
<1> QED BY <1>1, <1>2, <1>4 DEF Kept

(* A read brings the next bytes. *)
LEMMA ReadKeeps ==
    ASSUME NEW kinds, NEW H, NEW W, NEW P, NEW D, NEW n, Kept(kinds, H, W, P, {}, D, n),
           NEW c \in Nat, n + c <= InputLength, NEW S, S = (n + 1) .. (n + c)
    PROVE  Kept(kinds, H, W, P, S, D, n + c)
<1> USE SizesAssumption
<1>1. n \in Nat /\ n + c \in 0 .. InputLength /\ \A a \in 1 .. n, b \in S : a < b /\ b \notin 1 .. n
  BY DEF Kept
<1>2. 1 .. (n + c) = 1 .. n \cup S
  BY <1>1
<1>3. BytesOf(H) \cup BytesOf(W) \cup P \cup D \subseteq 1 .. n
  BY DEF Kept, Placed
<1>4. Ordered(H, W, P, S)
  BY <1>1, <1>3 DEF Kept, Ordered, Before
<1>5. Placed(kinds, H, W, P, S, D, n + c)
  <2>1. BytesOf(H) \cup BytesOf(W) \cup P \cup S \cup D \subseteq 1 .. (n + c)
    BY <1>2, <1>3
  <2>2. (BytesOf(H) \cup BytesOf(W) \cup P \cup S) \cap D = {}
    BY <1>1, <1>3 DEF Kept, Placed
  <2>3. ASSUME NEW b \in 1 .. (n + c)
        PROVE  b \in D \cup KeptBytes(H) \cup BytesOf(W) \cup P \cup S \/ Newer(kinds, H, b)
    BY <1>2 DEF Kept, Placed
  <2> QED BY <2>1, <2>2, <2>3 DEF Placed
<1> QED BY <1>1, <1>4, <1>5 DEF Kept

-----------------------------------------------------------------------------
(* The parser: after a byte, and after a chunk of them.                      *)

Bytes == 1 .. InputLength
Parsers == [prefix : Seq(Bytes), parsed : Seq(AnyEvents)]

(* The parser p holds the bytes X, at most one of them pending. *)
Holds(kinds, p, X) ==
    /\ p \in Parsers /\ Len(p.prefix) <= 1
    /\ DecodedSeq(kinds, p.parsed) /\ InOrder(p.parsed)
    /\ Before(BytesOf(p.parsed), ToSet(p.prefix))
    /\ BytesOf(p.parsed) \cup ToSet(p.prefix) = X

(* Sequences of at most two bytes. *)
LEMMA ShortSequences ==
    ASSUME NEW b \in Bytes
    PROVE  /\ <<>> \in Seq(Bytes) /\ Len(<<>>) = 0 /\ ToSet(<<>>) = {}
           /\ <<b>> \in Seq(Bytes) /\ Len(<<b>>) = 1 /\ ToSet(<<b>>) = {b} /\ Ascending(<<b>>)
           /\ <<b>>[1] = b
           /\ \A s \in Seq(Bytes) : Len(s) <= 1 /\ s # <<>> =>
                 /\ Append(s, b) \in Seq(Bytes) /\ Len(Append(s, b)) = 2
                 /\ ToSet(Append(s, b)) = ToSet(s) \cup {b}
                 /\ Before(ToSet(s), {b}) => Ascending(Append(s, b))
<1>1. <<>> \in Seq(Bytes) /\ Len(<<>>) = 0 /\ ToSet(<<>>) = {}
  BY DEF ToSet
<1>2. <<b>> \in Seq(Bytes) /\ Len(<<b>>) = 1 /\ <<b>>[1] = b /\ DOMAIN <<b>> = 1 .. 1
  OBVIOUS
<1>3. ToSet(<<b>>) = {b} /\ Ascending(<<b>>)
  BY <1>2 DEF ToSet, Ascending
<1>4. ASSUME NEW s \in Seq(Bytes), Len(s) <= 1, s # <<>>
      PROVE  /\ Append(s, b) \in Seq(Bytes) /\ Len(Append(s, b)) = 2
             /\ ToSet(Append(s, b)) = ToSet(s) \cup {b}
             /\ Before(ToSet(s), {b}) => Ascending(Append(s, b))
  <2> DEFINE t == Append(s, b)
  <2>1. Len(s) = 1 /\ DOMAIN s = 1 .. 1
    <3>1. Len(s) \in Nat /\ Len(s) # 0
      BY <1>4
    <3>2. Len(s) <= 1
      BY <1>4
    <3>3. \A n \in Nat : n # 0 /\ n <= 1 => n = 1
      OBVIOUS
    <3>4. Len(s) = 1
      BY <3>1, <3>2, <3>3
    <3> QED BY <3>4
  <2>2. t \in Seq(Bytes) /\ Len(t) = 2 /\ t[1] = s[1] /\ t[2] = b /\ DOMAIN t = 1 .. 2
    <3>1. t \in Seq(Bytes) /\ Len(t) = Len(s) + 1
      OBVIOUS
    <3>2. t[Len(s) + 1] = b /\ \A k \in 1 .. Len(s) : t[k] = s[k]
      OBVIOUS
    <3> HIDE DEF t
    <3>3. Len(t) = 2 /\ t[2] = b /\ t[1] = s[1]
      BY <2>1, <3>1, <3>2
    <3>4. DOMAIN t = 1 .. Len(t)
      BY <3>1
    <3> QED BY <3>1, <3>3, <3>4
  <2> HIDE DEF t
  <2>3. ToSet(t) = {t[1], t[2]} /\ ToSet(s) = {s[1]}
    BY <2>1, <2>2 DEF ToSet
  <2>4. Before(ToSet(s), {b}) => t[1] < t[2]
    BY <2>2, <2>3 DEF Before
  <2>5. Before(ToSet(s), {b}) => Ascending(t)
    BY <2>2, <2>4 DEF Ascending
  <2> QED BY <2>2, <2>3, <2>5 DEF t
<1> QED BY <1>1, <1>2, <1>3, <1>4

(* Another decoded event, after all others. *)
LEMMA DecodeEnds ==
    ASSUME NEW kinds, NEW s, DecodedSeq(kinds, s), InOrder(s), NEW e, Decoded(kinds, e),
           Before(BytesOf(s), ToSet(e.bytes)), NEW t, Ended(t, s, e)
    PROVE  DecodedSeq(kinds, t) /\ InOrder(t) /\ BytesOf(t) = BytesOf(s) \cup ToSet(e.bytes)
<1>1. InOrder(t) /\ BytesOf(t) = BytesOf(s) \cup ToSet(e.bytes)
  BY EndedOrder, EndedBytes
<1>2. /\ t \in Seq(AnyEvents) /\ Len(s) \in Nat /\ Len(t) = Len(s) + 1
      /\ t[Len(t)] = e /\ \A k \in 1 .. Len(s) : t[k] = s[k]
  BY DEF Ended
<1>3. DecodedSeq(kinds, t)
  BY <1>2 DEF DecodedSeq
<1> QED BY <1>1, <1>3

(* The same for the parser, which appends the event. *)
LEMMA DecodeKeeps ==
    ASSUME NEW kinds, NEW s, DecodedSeq(kinds, s), InOrder(s), NEW e, Decoded(kinds, e),
           Before(BytesOf(s), ToSet(e.bytes))
    PROVE  /\ DecodedSeq(kinds, Append(s, e)) /\ InOrder(Append(s, e))
           /\ BytesOf(Append(s, e)) = BytesOf(s) \cup ToSet(e.bytes)
<1> DEFINE t == Append(s, e)
<1>1. s \in Seq(AnyEvents) /\ e \in AnyEvents
  BY DEF DecodedSeq, Decoded, AnyEvents
<1>2. Ended(t, s, e)
  BY <1>1 DEF Ended
<1> HIDE DEF t
<1>3. DecodedSeq(kinds, t) /\ InOrder(t) /\ BytesOf(t) = BytesOf(s) \cup ToSet(e.bytes)
  BY <1>2, DecodeEnds
<1> QED BY <1>3 DEF t

(* One byte: the parser holds it too, whatever was pending. *)
LEMMA ByteKeeps ==
    ASSUME input \in [Bytes -> Kinds], NEW p, NEW X, Holds(input, p, X),
           NEW byte \in Bytes, Before(X, {byte})
    PROVE  Holds(input, ParseByte(p, byte), X \cup {byte})
<1> DEFINE q == ParseByte(p, byte)
<1>1. p \in Parsers /\ p.prefix \in Seq(Bytes) /\ Len(p.prefix) <= 1 /\ p.parsed \in Seq(AnyEvents)
      /\ DecodedSeq(input, p.parsed) /\ InOrder(p.parsed)
      /\ Before(BytesOf(p.parsed), ToSet(p.prefix))
      /\ BytesOf(p.parsed) \cup ToSet(p.prefix) = X
  BY DEF Holds, Parsers
<1>2. Before(BytesOf(p.parsed), {byte}) /\ Before(ToSet(p.prefix), {byte})
  BY <1>1 DEF Before
<1>3. CASE p.prefix # <<>>
  <2> DEFINE bs == Append(p.prefix, byte)
             e == Event("sequence", bs)
  <2>1. /\ bs \in Seq(Bytes) /\ Len(bs) = 2 /\ ToSet(bs) = ToSet(p.prefix) \cup {byte}
        /\ Ascending(bs)
    BY <1>1, <1>2, <1>3, ShortSequences
  <2>2. q = [prefix |-> <<>>, parsed |-> Append(p.parsed, e)]
    BY <1>3 DEF ParseByte
  <2> HIDE DEF bs
  <2>3. e.bytes = bs /\ e.kind = "sequence" /\ e \in KeyEvents
    BY <2>1 DEF Event, KeyEvents, Bytes
  <2>4. Decoded(input, e)
    BY <2>1, <2>3 DEF Decoded, IsMotion
  <2>5. Before(BytesOf(p.parsed), ToSet(e.bytes))
    BY <1>1, <1>2, <2>1, <2>3 DEF Before
  <2> HIDE DEF e
  <2>6. /\ DecodedSeq(input, Append(p.parsed, e)) /\ InOrder(Append(p.parsed, e))
        /\ BytesOf(Append(p.parsed, e)) = BytesOf(p.parsed) \cup ToSet(e.bytes)
    <3>1. DecodedSeq(input, p.parsed) /\ InOrder(p.parsed)
      BY <1>1
    <3> QED BY <2>4, <2>5, <3>1, DecodeKeeps
  <2>7. <<>> \in Seq(Bytes) /\ Len(<<>>) = 0 /\ ToSet(<<>>) = {}
    BY ShortSequences
  <2>8. q.prefix = <<>> /\ q.parsed = Append(p.parsed, e) /\ q \in Parsers
    BY <2>2, <2>6, <2>7 DEF Parsers, DecodedSeq
  <2>9. Before(BytesOf(q.parsed), ToSet(q.prefix))
    BY <2>7, <2>8 DEF Before
  <2>10. BytesOf(q.parsed) \cup ToSet(q.prefix) = X \cup {byte}
    BY <1>1, <2>1, <2>3, <2>6, <2>7, <2>8
  <2> HIDE DEF q
  <2>11. Holds(input, q, X \cup {byte})
    BY <2>6, <2>7, <2>8, <2>9, <2>10 DEF Holds
  <2> QED BY <2>11 DEF q
<1>4. CASE p.prefix = <<>> /\ input[byte] = "escape"
  <2>1. q = [p EXCEPT !.prefix = <<byte>>]
    BY <1>4 DEF ParseByte
  <2>2. <<byte>> \in Seq(Bytes) /\ Len(<<byte>>) = 1 /\ ToSet(<<byte>>) = {byte} /\ ToSet(<<>>) = {}
    BY ShortSequences
  <2>3. q.prefix = <<byte>> /\ q.parsed = p.parsed /\ q \in Parsers
    BY <1>1, <2>1, <2>2 DEF Parsers
  <2> HIDE DEF q
  <2>4. BytesOf(q.parsed) \cup ToSet(q.prefix) = X \cup {byte}
    BY <1>1, <1>4, <2>2, <2>3
  <2>5. Before(BytesOf(q.parsed), ToSet(q.prefix)) /\ Len(q.prefix) <= 1
    <3>1. Before(BytesOf(q.parsed), ToSet(q.prefix))
      BY <1>2, <2>2, <2>3
    <3>2. Len(q.prefix) = 1
      BY <2>2, <2>3
    <3> QED BY <3>1, <3>2
  <2>6. DecodedSeq(input, q.parsed) /\ InOrder(q.parsed)
    BY <1>1, <2>3
  <2>7. Holds(input, q, X \cup {byte})
    BY <2>3, <2>4, <2>5, <2>6 DEF Holds
  <2> QED BY <2>7 DEF q
<1>5. CASE p.prefix = <<>> /\ input[byte] # "escape"
  <2> DEFINE bs == <<byte>>
             e == Event(input[byte], bs)
  <2>1. /\ bs \in Seq(Bytes) /\ Len(bs) = 1 /\ ToSet(bs) = {byte} /\ Ascending(bs) /\ bs[1] = byte
        /\ ToSet(<<>>) = {}
    BY ShortSequences
  <2>2. q = [p EXCEPT !.parsed = Append(@, e)] /\ input[byte] \in {"key", "motion"}
    BY <1>5 DEF ParseByte, Kinds
  <2> HIDE DEF bs
  <2>3. e.bytes = bs /\ e.kind = input[byte] /\ e \in KeyEvents \cup MotionEvents
    BY <2>1, <2>2 DEF Event, KeyEvents, MotionEvents, Bytes
  <2> HIDE DEF e
  <2>4. Decoded(input, e)
    BY <2>1, <2>3 DEF Decoded, IsMotion
  <2>5. Before(BytesOf(p.parsed), ToSet(e.bytes))
    BY <1>2, <2>1, <2>3 DEF Before
  <2>6. /\ DecodedSeq(input, Append(p.parsed, e)) /\ InOrder(Append(p.parsed, e))
        /\ BytesOf(Append(p.parsed, e)) = BytesOf(p.parsed) \cup ToSet(e.bytes)
    <3>1. DecodedSeq(input, p.parsed) /\ InOrder(p.parsed)
      BY <1>1
    <3> QED BY <2>4, <2>5, <3>1, DecodeKeeps
  <2>7. q.prefix = <<>> /\ q.parsed = Append(p.parsed, e) /\ q \in Parsers
    BY <1>1, <1>5, <2>2, <2>6 DEF Parsers, DecodedSeq
  <2>8. Before(BytesOf(q.parsed), ToSet(q.prefix))
    BY <2>1, <2>7 DEF Before
  <2>9. BytesOf(q.parsed) \cup ToSet(q.prefix) = X \cup {byte}
    BY <1>1, <1>5, <2>1, <2>3, <2>6, <2>7
  <2>10. Len(q.prefix) <= 1
    BY <1>1, <1>5, <2>7
  <2> HIDE DEF q
  <2>11. Holds(input, q, X \cup {byte})
    BY <2>6, <2>7, <2>8, <2>9, <2>10 DEF Holds
  <2> QED BY <2>11 DEF q
<1> QED BY <1>3, <1>4, <1>5

(* What ParseByte makes of a parser is a parser. *)
LEMMA ByteTyped ==
    ASSUME input \in [Bytes -> Kinds], NEW p \in Parsers, NEW byte \in Bytes
    PROVE  ParseByte(p, byte) \in Parsers
<1>1. p.prefix \in Seq(Bytes) /\ p.parsed \in Seq(AnyEvents)
  BY DEF Parsers
<1>2. ASSUME NEW kind \in {"key", "motion", "sequence"}, NEW bs \in Seq(Bytes)
      PROVE  Event(kind, bs) \in AnyEvents
  BY <1>2 DEF Event, AnyEvents, KeyEvents, MotionEvents, Bytes
<1>3. CASE p.prefix # <<>>
  <2> DEFINE e == Event("sequence", Append(p.prefix, byte))
  <2>1. e \in AnyEvents
    <3>1. Append(p.prefix, byte) \in Seq(Bytes)
      BY <1>1
    <3> QED BY <1>2, <3>1
  <2> HIDE DEF e
  <2>2. [prefix |-> <<>>, parsed |-> Append(p.parsed, e)] \in Parsers
    BY <1>1, <2>1 DEF Parsers
  <2> QED BY <1>3, <2>2 DEF ParseByte, e
<1>4. CASE p.prefix = <<>> /\ input[byte] = "escape"
  <2>1. <<byte>> \in Seq(Bytes)
    OBVIOUS
  <2>2. [p EXCEPT !.prefix = <<byte>>] \in Parsers
    BY <1>1, <2>1 DEF Parsers
  <2> QED BY <1>4, <2>2 DEF ParseByte
<1>5. CASE p.prefix = <<>> /\ input[byte] # "escape"
  <2> DEFINE e == Event(input[byte], <<byte>>)
  <2>1. e \in AnyEvents
    <3>1. input[byte] \in {"key", "motion", "sequence"} /\ <<byte>> \in Seq(Bytes)
      BY <1>5 DEF Kinds
    <3> QED BY <1>2, <3>1
  <2> HIDE DEF e
  <2>2. Append(p.parsed, e) \in Seq(AnyEvents)
    BY <1>1, <2>1
  <2>3. [p EXCEPT !.parsed = Append(@, e)] \in Parsers
    BY <2>2 DEF Parsers
  <2> QED BY <1>5, <2>3 DEF ParseByte, e
<1> QED BY <1>3, <1>4, <1>5

(* A chunk of later bytes, parsed one by one. *)
LEMMA ParseKeeps ==
    ASSUME input \in [Bytes -> Kinds], NEW X,
           Holds(input, [prefix |-> prefix, parsed |-> parsed], X),
           NEW bytes \in Seq(Bytes), Ascending(bytes), Before(X, ToSet(bytes))
    PROVE  Holds(input, Parse(bytes), X \cup ToSet(bytes))
<1> DEFINE x == [prefix |-> prefix, parsed |-> parsed]
           step == [byte \in Bytes |-> [p \in Parsers |-> ParseByte(p, byte)]]
           Step(g) == [n \in 0 .. Len(bytes) |-> IF n = 0 THEN x ELSE ParseByte(g[n - 1], bytes[n])]
           g == CHOOSE g : g = [n \in 0 .. Len(bytes) |->
                    IF n = 0 THEN [prefix |-> prefix, parsed |-> parsed]
                             ELSE ParseByte(g[n - 1], bytes[n])]
<1>1. Len(bytes) \in Nat /\ \A n \in 1 .. Len(bytes) : bytes[n] \in Bytes
  OBVIOUS
<1>2. x \in Parsers /\ Holds(input, x, X)
  BY DEF Holds
<1>3. step \in [Bytes -> [Parsers -> Parsers]]
  BY ByteTyped
<1>4. \A byte \in Bytes, p \in Parsers : step[byte][p] = ParseByte(p, byte)
  OBVIOUS
<1> HIDE DEF step
<1>5. \E f : f = Step(f)
  <2> HIDE DEF x
  <2>1. PICK f : Runs(Parsers, step, bytes, f) /\ f[0] = x
    BY <1>2, <1>3, RunExists
  <2>2. /\ f \in [0 .. Len(bytes) -> Parsers]
        /\ \A n \in 1 .. Len(bytes) : f[n] = step[bytes[n]][f[n - 1]]
    BY <2>1 DEF Runs
  <2>3. ASSUME NEW n \in 1 .. Len(bytes) PROVE f[n] = ParseByte(f[n - 1], bytes[n])
    <3>1. n - 1 \in 0 .. Len(bytes)
      BY <1>1
    <3>2. f[n - 1] \in Parsers /\ bytes[n] \in Bytes
      BY <1>1, <2>2, <3>1
    <3> QED BY <1>4, <2>2, <3>2
  <2>4. \A n \in 0 .. Len(bytes) : n # 0 => n \in 1 .. Len(bytes)
    BY <1>1
  <2>5. f = Step(f)
    BY <2>1, <2>2, <2>3, <2>4
  <2> QED BY <2>5
<1>6. g = Step(g)
  BY <1>5, Zenon
<1>7. Parse(bytes) = g[Len(bytes)]
  BY DEF Parse
<1> HIDE DEF g, x
<1>8. g[0] = x /\ \A n \in 1 .. Len(bytes) : g[n] = ParseByte(g[n - 1], bytes[n])
  <2>1. \A n \in 0 .. Len(bytes) : g[n] = IF n = 0 THEN x ELSE ParseByte(g[n - 1], bytes[n])
    BY <1>6
  <2>2. 0 \in 0 .. Len(bytes) /\ \A n \in 1 .. Len(bytes) : n \in 0 .. Len(bytes) /\ n # 0
    BY <1>1
  <2> QED BY <2>1, <2>2
<1> DEFINE Y(n) == X \cup {bytes[i] : i \in 1 .. n}
           A == {n \in Nat : n <= Len(bytes) => Holds(input, g[n], Y(n))}
<1>9. 0 \in A
  <2>1. Y(0) = X
    OBVIOUS
  <2> QED BY <1>2, <1>8, <2>1
<1>10. ASSUME NEW n \in Nat, n \in A PROVE n + 1 \in A
  <2>1. CASE n + 1 <= Len(bytes)
    <3>1. n <= Len(bytes) /\ n + 1 \in 1 .. Len(bytes) /\ (n + 1) - 1 = n
      BY <1>1, <2>1
    <3>2. Holds(input, g[n], Y(n)) /\ g[n + 1] = ParseByte(g[n], bytes[n + 1])
      BY <1>8, <1>10, <3>1
    <3>3. Before(Y(n), {bytes[n + 1]})
      <4>1. bytes[n + 1] \in ToSet(bytes) /\ DOMAIN bytes = 1 .. Len(bytes)
        BY <1>1, <3>1 DEF ToSet
      <4>2. \A i \in 1 .. n : i \in 1 .. Len(bytes) /\ i < n + 1
        BY <1>1, <3>1
      <4>3. \A i \in 1 .. n : bytes[i] < bytes[n + 1]
        BY <3>1, <4>1, <4>2 DEF Ascending
      <4> QED BY <4>1, <4>3 DEF Before
    <3>4. Y(n + 1) = Y(n) \cup {bytes[n + 1]}
      <4>1. \A i : i \in 1 .. (n + 1) <=> i \in 1 .. n \/ i = n + 1
        OBVIOUS
      <4> QED BY <4>1
    <3>5. bytes[n + 1] \in Bytes
      BY <1>1, <3>1
    <3> HIDE DEF Y
    <3>6. Holds(input, g[n + 1], Y(n + 1))
      BY <3>2, <3>3, <3>4, <3>5, ByteKeeps
    <3> QED BY <3>6
  <2> QED BY <2>1
<1> HIDE DEF A
<1>11. Nat \subseteq A
  BY <1>9, <1>10, InductionOnSet
<1>12. Holds(input, g[Len(bytes)], Y(Len(bytes)))
  <2>1. Len(bytes) \in A
    BY <1>1, <1>11
  <2> HIDE DEF Y
  <2>2. Len(bytes) <= Len(bytes) => Holds(input, g[Len(bytes)], Y(Len(bytes)))
    BY <2>1 DEF A
  <2> QED BY <1>1, <2>2
<1>13. Y(Len(bytes)) = X \cup ToSet(bytes)
  BY ElementsOf
<1> QED BY <1>7, <1>12, <1>13

-----------------------------------------------------------------------------
(* The ring as a sequence of events.                                         *)

RingPlaces == 0 .. (QueueCapacity - 1)
PlaceAt(h, k) == IF h + k < QueueCapacity THEN h + k ELSE h + k - QueueCapacity

Ring(s, h, t, n) ==
    /\ s \in [RingPlaces -> AnyEvents \cup {None}]
    /\ h \in RingPlaces /\ t \in RingPlaces /\ n \in 0 .. QueueCapacity
    /\ t = PlaceAt(h, n)
    /\ \A k \in 0 .. (n - 1) : s[PlaceAt(h, k)] \in AnyEvents

RingEvents(s, h, n) == [k \in 1 .. n |-> s[PlaceAt(h, k - 1)]]

QueueShape == Ring(slots, head, tail, length)

(* The ring as a sequence, element by element. *)
LEMMA RingEventsAre ==
    ASSUME NEW s, NEW h, NEW t, NEW n, Ring(s, h, t, n), NEW r, r = RingEvents(s, h, n)
    PROVE  /\ r \in Seq(AnyEvents) /\ Len(r) = n
           /\ \A k \in 1 .. n : r[k] = s[PlaceAt(h, k - 1)]
<1>1. n \in Nat /\ \A k \in 1 .. n : k - 1 \in 0 .. (n - 1)
  BY SizesAssumption DEF Ring
<1>2. \A k \in 1 .. n : s[PlaceAt(h, k - 1)] \in AnyEvents
  BY <1>1 DEF Ring
<1> QED BY <1>1, <1>2 DEF RingEvents

(* The events in the queue, oldest first, *)
LEMMA PendingIs ==
    ASSUME QueueShape
    PROVE  /\ Queue!Pending \in Seq(AnyEvents) /\ Len(Queue!Pending) = length
           /\ \A k \in 1 .. length : Queue!Pending[k] = slots[PlaceAt(head, k - 1)]
<1>1. Queue!Pending = RingEvents(slots, head, length)
  BY DEF Queue!Pending, Queue!At, PlaceAt, RingEvents
<1> QED BY <1>1, RingEventsAre DEF QueueShape

(* and after a step. *)
LEMMA PendingNext ==
    ASSUME QueueShape'
    PROVE  /\ Queue!Pending' \in Seq(AnyEvents) /\ Len(Queue!Pending') = length'
           /\ \A k \in 1 .. length' : Queue!Pending'[k] = slots'[PlaceAt(head', k - 1)]
<1>1. Queue!Pending' = RingEvents(slots', head', length')
  BY DEF Queue!Pending, Queue!At, PlaceAt, RingEvents
<1> QED BY <1>1, RingEventsAre DEF QueueShape

(* Enqueue puts the event at the end. *)
LEMMA EnqueueEnds ==
    ASSUME QueueShape, NEW e \in AnyEvents, Queue!Enqueue(e)
    PROVE  QueueShape' /\ Ended(Queue!Pending', Queue!Pending, e)
<1> USE SizesAssumption
<1>1. /\ slots \in [RingPlaces -> AnyEvents \cup {None}]
      /\ head \in RingPlaces /\ tail \in RingPlaces /\ length \in 0 .. QueueCapacity
      /\ tail = PlaceAt(head, length) /\ head' = head /\ length # QueueCapacity
      /\ length' = length + 1 /\ slots' = [slots EXCEPT ![tail] = e]
      /\ tail' = IF tail + 1 = QueueCapacity THEN 0 ELSE tail + 1
  BY DEF QueueShape, Ring, Queue!Enqueue, Queue!Advance
<1>2. tail' = PlaceAt(head, length + 1) /\ tail' \in RingPlaces /\ length' \in 0 .. QueueCapacity
  BY <1>1 DEF PlaceAt, RingPlaces
<1>3. \A k \in 0 .. (length - 1) : PlaceAt(head, k) # tail /\ PlaceAt(head, k) \in RingPlaces
  BY <1>1 DEF PlaceAt, RingPlaces
<1>4. slots' \in [RingPlaces -> AnyEvents \cup {None}] /\ slots'[tail] = e
  BY <1>1
<1>5. \A k \in 0 .. (length - 1) : slots'[PlaceAt(head, k)] = slots[PlaceAt(head, k)]
  BY <1>1, <1>3
<1>6. \A k \in 0 .. (length' - 1) : k = length \/ k \in 0 .. (length - 1)
  BY <1>1
<1>7. \A k \in 0 .. (length' - 1) : slots'[PlaceAt(head, k)] \in AnyEvents
  BY <1>1, <1>4, <1>5, <1>6 DEF QueueShape, Ring
<1>8. QueueShape'
  BY <1>1, <1>2, <1>4, <1>7 DEF QueueShape, Ring
<1>9. /\ Queue!Pending' \in Seq(AnyEvents) /\ Len(Queue!Pending') = length'
      /\ \A k \in 1 .. length' : Queue!Pending'[k] = slots'[PlaceAt(head', k - 1)]
  BY <1>8, PendingNext
<1>10. /\ Queue!Pending \in Seq(AnyEvents) /\ Len(Queue!Pending) = length
       /\ \A k \in 1 .. length : Queue!Pending[k] = slots[PlaceAt(head, k - 1)]
  BY PendingIs
<1>11. ASSUME NEW k \in 1 .. length PROVE Queue!Pending'[k] = Queue!Pending[k]
  <2>1. k \in 1 .. length' /\ k - 1 \in 0 .. (length - 1)
    BY <1>1
  <2> QED BY <1>1, <1>5, <1>9, <1>10, <2>1
<1>12. Queue!Pending'[length'] = e
  <2>1. length' \in 1 .. length' /\ length' - 1 = length
    BY <1>1
  <2> QED BY <1>1, <1>4, <1>9, <2>1
<1> QED BY <1>1, <1>8, <1>9, <1>10, <1>11, <1>12 DEF Ended

(* ReplacePending exchanges one event of the class. *)
LEMMA ReplaceExchanges ==
    ASSUME QueueShape, NEW e \in AnyEvents, NEW class, Queue!ReplacePending(class, e)
    PROVE  /\ QueueShape'
           /\ \E k \in 1 .. Len(Queue!Pending) :
                 Queue!Pending[k] \in class /\ Exchanged(Queue!Pending', Queue!Pending, k, e)
<1> USE SizesAssumption
<1>1. PICK j \in 0 .. (length - 1) :
         /\ slots[PlaceAt(head, j)] \in class
         /\ slots' = [slots EXCEPT ![PlaceAt(head, j)] = e]
  BY DEF Queue!ReplacePending, Queue!FirstPending, Queue!At, PlaceAt
<1>2. /\ slots \in [RingPlaces -> AnyEvents \cup {None}] /\ head' = head /\ tail' = tail
      /\ head \in RingPlaces /\ tail \in RingPlaces /\ length \in 0 .. QueueCapacity
      /\ tail = PlaceAt(head, length) /\ length' = length
  BY DEF QueueShape, Ring, Queue!ReplacePending
<1>3. \A k \in 0 .. (length - 1) : PlaceAt(head, k) \in RingPlaces
                                  /\ (k # j => PlaceAt(head, k) # PlaceAt(head, j))
  BY <1>1, <1>2 DEF PlaceAt, RingPlaces
<1>4. slots' \in [RingPlaces -> AnyEvents \cup {None}] /\ slots'[PlaceAt(head, j)] = e
  BY <1>1, <1>2, <1>3
<1>5. \A k \in 0 .. (length - 1) : k # j => slots'[PlaceAt(head, k)] = slots[PlaceAt(head, k)]
  BY <1>1, <1>2, <1>3
<1>6. QueueShape'
  <2>1. \A k \in 0 .. (length' - 1) : slots'[PlaceAt(head, k)] \in AnyEvents
    BY <1>2, <1>4, <1>5 DEF QueueShape, Ring
  <2> QED BY <1>2, <1>4, <2>1 DEF QueueShape, Ring
<1>7. /\ Queue!Pending' \in Seq(AnyEvents) /\ Len(Queue!Pending') = length'
      /\ \A k \in 1 .. length' : Queue!Pending'[k] = slots'[PlaceAt(head', k - 1)]
  BY <1>6, PendingNext
<1>8. /\ Queue!Pending \in Seq(AnyEvents) /\ Len(Queue!Pending) = length
      /\ \A k \in 1 .. length : Queue!Pending[k] = slots[PlaceAt(head, k - 1)]
  BY PendingIs
<1>9. j + 1 \in 1 .. length /\ (j + 1) - 1 = j
  BY <1>1, <1>2
<1>10. ASSUME NEW k \in 1 .. length, k # j + 1 PROVE Queue!Pending'[k] = Queue!Pending[k]
  <2>1. k - 1 \in 0 .. (length - 1) /\ k - 1 # j
    BY <1>1, <1>2, <1>10
  <2> QED BY <1>2, <1>5, <1>7, <1>8, <2>1
<1>11. Queue!Pending[j + 1] \in class /\ Queue!Pending'[j + 1] = e
  BY <1>1, <1>2, <1>4, <1>7, <1>8, <1>9
<1>12. Exchanged(Queue!Pending', Queue!Pending, j + 1, e)
  BY <1>2, <1>7, <1>8, <1>9, <1>10, <1>11 DEF Exchanged
<1> QED BY <1>6, <1>8, <1>9, <1>11, <1>12

(* ReadEvent takes the first event. *)
LEMMA ReadLeads ==
    ASSUME QueueShape, Queue!ReadEvent
    PROVE  /\ QueueShape' /\ slots[head] \in AnyEvents
           /\ Led(Queue!Pending, slots[head], Queue!Pending')
<1> USE SizesAssumption
<1>1. /\ slots \in [RingPlaces -> AnyEvents \cup {None}]
      /\ head \in RingPlaces /\ tail \in RingPlaces /\ length \in 0 .. QueueCapacity
      /\ tail = PlaceAt(head, length) /\ length # 0 /\ tail' = tail
      /\ length' = length - 1 /\ slots' = [slots EXCEPT ![head] = None]
      /\ head' = IF head + 1 = QueueCapacity THEN 0 ELSE head + 1
  BY DEF QueueShape, Ring, Queue!ReadEvent, Queue!Advance
<1>2. head' \in RingPlaces /\ length' \in 0 .. QueueCapacity /\ tail = PlaceAt(head', length')
      /\ PlaceAt(head, 0) = head
  BY <1>1 DEF PlaceAt, RingPlaces
<1>3. \A k \in 0 .. (length' - 1) : /\ PlaceAt(head', k) = PlaceAt(head, k + 1)
                                   /\ PlaceAt(head', k) # head /\ PlaceAt(head', k) \in RingPlaces
                                   /\ k + 1 \in 0 .. (length - 1)
  BY <1>1 DEF PlaceAt, RingPlaces
<1>4. slots' \in [RingPlaces -> AnyEvents \cup {None}]
  BY <1>1
<1>5. \A k \in 0 .. (length' - 1) : slots'[PlaceAt(head', k)] = slots[PlaceAt(head, k + 1)]
  BY <1>1, <1>3
<1>6. QueueShape'
  <2>1. \A k \in 0 .. (length' - 1) : slots'[PlaceAt(head', k)] \in AnyEvents
    BY <1>3, <1>5 DEF QueueShape, Ring
  <2> QED BY <1>1, <1>2, <1>4, <2>1 DEF QueueShape, Ring
<1>7. /\ Queue!Pending' \in Seq(AnyEvents) /\ Len(Queue!Pending') = length'
      /\ \A k \in 1 .. length' : Queue!Pending'[k] = slots'[PlaceAt(head', k - 1)]
  BY <1>6, PendingNext
<1>8. /\ Queue!Pending \in Seq(AnyEvents) /\ Len(Queue!Pending) = length
      /\ \A k \in 1 .. length : Queue!Pending[k] = slots[PlaceAt(head, k - 1)]
  BY PendingIs
<1>9. Queue!Pending[1] = slots[head] /\ slots[head] \in AnyEvents
  <2>1. 1 \in 1 .. length /\ 1 - 1 = 0 /\ 0 \in 0 .. (length - 1)
    BY <1>1
  <2> QED BY <1>2, <1>8, <2>1 DEF QueueShape, Ring
<1>10. ASSUME NEW k \in 1 .. length' PROVE Queue!Pending[k + 1] = Queue!Pending'[k]
  <2>1. k - 1 \in 0 .. (length' - 1) /\ (k - 1) + 1 = k /\ k + 1 \in 1 .. length /\ (k + 1) - 1 = k
    BY <1>1
  <2> QED BY <1>5, <1>7, <1>8, <2>1
<1>11. Len(Queue!Pending) = Len(Queue!Pending') + 1
  BY <1>1, <1>7, <1>8
<1> QED BY <1>6, <1>7, <1>8, <1>9, <1>10, <1>11 DEF Led

(* A sequence of two parts, when one of them changes. *)
LEMMA JoinedEnded ==
    ASSUME NEW p \in Seq(AnyEvents), NEW q, NEW r, Joined(AnyEvents, p, q, r),
           NEW t, NEW e, Ended(t, q, e), NEW u, Joined(AnyEvents, p, t, u)
    PROVE  Ended(u, r, e)
<1>1. /\ q \in Seq(AnyEvents) /\ r \in Seq(AnyEvents)
      /\ t \in Seq(AnyEvents) /\ u \in Seq(AnyEvents)
      /\ Len(p) \in Nat /\ Len(q) \in Nat /\ Len(r) = Len(p) + Len(q) /\ Len(t) = Len(q) + 1
      /\ Len(u) = Len(p) + Len(t)
  BY DEF Joined, Ended
<1>2. u[Len(u)] = e
  <2>1. Len(t) \in 1 .. Len(t)
    BY <1>1
  <2> QED BY <1>1, <2>1 DEF Joined, Ended
<1>3. ASSUME NEW k \in 1 .. Len(r) PROVE u[k] = r[k]
  <2>1. CASE k \in 1 .. Len(p)
    BY <2>1 DEF Joined
  <2>2. CASE k \notin 1 .. Len(p)
    <3>1. k - Len(p) \in 1 .. Len(q) /\ k - Len(p) \in 1 .. Len(t) /\ Len(p) + (k - Len(p)) = k
      BY <1>1, <2>2
    <3>2. r[k] = q[k - Len(p)] /\ u[k] = t[k - Len(p)]
      BY <3>1 DEF Joined
    <3> QED BY <3>1, <3>2 DEF Ended
  <2> QED BY <2>1, <2>2
<1>4. Len(u) = Len(r) + 1
  BY <1>1
<1> QED BY <1>1, <1>2, <1>3, <1>4 DEF Ended

(* An event of the second part is exchanged. *)
LEMMA JoinedExchanged ==
    ASSUME NEW p \in Seq(AnyEvents), NEW q, NEW r, Joined(AnyEvents, p, q, r),
           NEW t, NEW k, NEW e, Exchanged(t, q, k, e), NEW u, Joined(AnyEvents, p, t, u)
    PROVE  Len(p) + k \in 1 .. Len(r) /\ r[Len(p) + k] = q[k] /\ Exchanged(u, r, Len(p) + k, e)
<1>1. /\ q \in Seq(AnyEvents) /\ r \in Seq(AnyEvents)
      /\ t \in Seq(AnyEvents) /\ u \in Seq(AnyEvents)
      /\ Len(p) \in Nat /\ Len(q) \in Nat /\ Len(r) = Len(p) + Len(q) /\ Len(t) = Len(q)
      /\ Len(u) = Len(p) + Len(t) /\ k \in 1 .. Len(q)
  BY DEF Joined, Exchanged
<1>2. Len(p) + k \in 1 .. Len(r) /\ Len(u) = Len(r)
  BY <1>1
<1>3. r[Len(p) + k] = q[k] /\ u[Len(p) + k] = e
  BY <1>1 DEF Joined, Exchanged
<1>4. ASSUME NEW l \in 1 .. Len(r), l # Len(p) + k PROVE u[l] = r[l]
  <2>1. CASE l \in 1 .. Len(p)
    BY <2>1 DEF Joined
  <2>2. CASE l \notin 1 .. Len(p)
    <3>1. l - Len(p) \in 1 .. Len(q) /\ l - Len(p) # k /\ Len(p) + (l - Len(p)) = l
      BY <1>1, <1>4, <2>2
    <3>2. r[l] = q[l - Len(p)] /\ u[l] = t[l - Len(p)]
      BY <1>1, <3>1 DEF Joined
    <3> QED BY <3>1, <3>2 DEF Exchanged
  <2> QED BY <2>1, <2>2
<1> QED BY <1>1, <1>2, <1>3, <1>4 DEF Exchanged

(* An event that moves from the second part to the first changes nothing. *)
LEMMA JoinedMoves ==
    ASSUME NEW p, NEW q, NEW r, Joined(AnyEvents, p, q, r), NEW e, NEW v, Ended(v, p, e),
           NEW t, Led(q, e, t), NEW u, Joined(AnyEvents, v, t, u)
    PROVE  u = r
<1>1. /\ p \in Seq(AnyEvents) /\ q \in Seq(AnyEvents) /\ r \in Seq(AnyEvents)
      /\ v \in Seq(AnyEvents) /\ t \in Seq(AnyEvents) /\ u \in Seq(AnyEvents)
      /\ Len(p) \in Nat /\ Len(t) \in Nat /\ Len(q) = Len(t) + 1 /\ Len(v) = Len(p) + 1
      /\ Len(r) = Len(p) + Len(q) /\ Len(u) = Len(v) + Len(t)
  BY DEF Joined, Ended, Led
<1>2. Len(u) = Len(r)
  BY <1>1
<1>3. ASSUME NEW k \in 1 .. Len(r) PROVE u[k] = r[k]
  <2>1. CASE k \in 1 .. Len(p)
    <3>1. k \in 1 .. Len(v)
      BY <1>1, <2>1
    <3> QED BY <2>1, <3>1 DEF Joined, Ended
  <2>2. CASE k = Len(p) + 1
    <3>1. k \in 1 .. Len(v) /\ 1 \in 1 .. Len(q)
      BY <1>1, <2>2
    <3>2. u[k] = v[k] /\ v[k] = e
      BY <1>1, <2>2, <3>1 DEF Joined, Ended
    <3>3. r[k] = q[1] /\ q[1] = e
      BY <2>2, <3>1 DEF Joined, Led
    <3> QED BY <3>2, <3>3
  <2>3. CASE k > Len(p) + 1
    <3> DEFINE i == k - Len(v)
    <3>1. i \in 1 .. Len(t) /\ i + 1 \in 1 .. Len(q) /\ Len(v) + i = k /\ Len(p) + (i + 1) = k
      BY <1>1, <2>3
    <3> HIDE DEF i
    <3>2. u[k] = t[i] /\ r[k] = q[i + 1] /\ q[i + 1] = t[i]
      BY <3>1 DEF Joined, Led
    <3> QED BY <3>2
  <2> QED BY <1>1, <2>1, <2>2, <2>3
<1>4. u \in [1 .. Len(r) -> AnyEvents] /\ r \in [1 .. Len(r) -> AnyEvents]
  BY <1>1, <1>2
<1> QED BY <1>3, <1>4

-----------------------------------------------------------------------------
(* The pipeline.                                                             *)

(* The inductive invariant behind EventsKept. *)
KeptInv ==
    /\ input \in [Bytes -> Kinds] /\ QueueShape
    /\ prefix \in Seq(Bytes) /\ Len(prefix) <= 1
    /\ readBuffer \in Seq(Bytes) /\ Len(readBuffer) <= BufferSize /\ Ascending(readBuffer)
    /\ parsed \in Seq(AnyEvents) /\ pending \in AnyEvents \cup {None}
    /\ handled \in Seq(AnyEvents) /\ resizes \in 0 .. MaxResizes
    /\ reader \in {"ready", "reading", "ended"} /\ dispatcher \in {"loop", "handling", "waiting"}
    /\ drain = "beforeRead" \/ reader = "reading" => readBuffer = <<>>
    /\ Kept(input, Handed, Waiting, ToSet(prefix), ToSet(readBuffer), discarded, received)

(* The two parts of the line. *)
LEMMA HandedIs ==
    ASSUME QueueShape, handled \in Seq(AnyEvents)
    PROVE  Joined(AnyEvents, handled, Queue!Pending, Handed)
<1>1. Queue!Pending \in Seq(AnyEvents)
  BY PendingIs
<1> QED BY <1>1, Concatenated DEF Handed

(* The same after a step. *)
LEMMA HandedNext ==
    ASSUME QueueShape', handled' \in Seq(AnyEvents)
    PROVE  Joined(AnyEvents, handled', Queue!Pending', Handed')
<1>1. Queue!Pending' \in Seq(AnyEvents)
  BY PendingNext
<1>2. Handed' = handled' \o Queue!Pending'
  BY DEF Handed
<1> QED BY <1>1, <1>2, Concatenated

(* The refused event is the oldest that waits. *)
LEMMA WaitingIs ==
    ASSUME parsed \in Seq(AnyEvents), pending \in AnyEvents \cup {None}
    PROVE  /\ pending = None => Waiting = parsed
           /\ pending # None => Led(Waiting, pending, parsed)
<1>1. CASE pending = None
  BY <1>1 DEF Waiting
<1>2. CASE pending # None
  <2>1. Waiting = <<pending>> \o parsed /\ pending \in AnyEvents
    BY <1>2 DEF Waiting
  <2>2. <<pending>> \in Seq(AnyEvents) /\ Len(<<pending>>) = 1 /\ <<pending>>[1] = pending
    BY <2>1
  <2>3. Joined(AnyEvents, <<pending>>, parsed, Waiting)
    BY <2>1, <2>2, Concatenated
  <2>4. Waiting \in Seq(AnyEvents) /\ Len(Waiting) = 1 + Len(parsed) /\ Len(parsed) \in Nat
        /\ Waiting[1] = pending /\ \A k \in 1 .. Len(parsed) : Waiting[1 + k] = parsed[k]
    BY <2>2, <2>3 DEF Joined
  <2>5. Len(Waiting) = Len(parsed) + 1 /\ \A k \in 1 .. Len(parsed) : Waiting[k + 1] = parsed[k]
    BY <2>4
  <2> QED BY <1>2, <2>4, <2>5 DEF Led
<1> QED BY <1>1, <1>2

(* The line stays when queue and handler are left alone. *)
LEMMA HandedStays ==
    ASSUME UNCHANGED <<queue, handled>>
    PROVE  Handed' = Handed /\ (QueueShape => QueueShape')
  BY DEF queue, Handed, Queue!Pending, Queue!At, QueueShape

(* A step that touches no byte and no event. *)
LEMMA QuietKeeps ==
    ASSUME KeptInv,
           UNCHANGED <<input, received, readBuffer, prefix, parsed, pending, queue, handled,
                       discarded, resizes>>,
           reader' \in {"ready", "reading", "ended"},
           dispatcher' \in {"loop", "handling", "waiting"},
           drain' = "beforeRead" \/ reader' = "reading" => readBuffer = <<>>
    PROVE  KeptInv'
<1>1. Handed' = Handed /\ QueueShape'
  BY HandedStays DEF KeptInv
<1>2. Waiting' = Waiting
  BY DEF Waiting
<1>3. Kept(input, Handed, Waiting, ToSet(prefix), ToSet(readBuffer), discarded, received)'
  BY <1>1, <1>2 DEF KeptInv
<1> QED BY <1>1, <1>3 DEF KeptInv

(* The events the parser decodes are not None, and no resizes. *)
LEMMA DecodedIsEvent ==
    ASSUME NEW kinds, NEW e, Decoded(kinds, e)
    PROVE  /\ e # None /\ e \in AnyEvents /\ e \notin ResizeEvents
           /\ e \in MotionEvents <=> IsMotion(e)
  BY NoneAssumption DEF Decoded, AnyEvents, KeyEvents, MotionEvents, ResizeEvents, IsMotion

(* drain takes the next event: it waits as before. *)
LEMMA DrainTakeKept ==
    ASSUME KeptInv, DrainTake
    PROVE  KeptInv'
<1>1. /\ pending = None /\ parsed # <<>> /\ pending' = Head(parsed) /\ parsed' = Tail(parsed)
      /\ UNCHANGED <<input, received, readBuffer, prefix, queue, handled, discarded, resizes,
                     reader, drain, dispatcher>>
  BY DEF DrainTake, flow, control, dispatch
<1>2. parsed \in Seq(AnyEvents) /\ pending \in AnyEvents \cup {None} /\ Waiting = parsed
      /\ DecodedSeq(input, Waiting)
  BY <1>1, WaitingIs DEF KeptInv, Kept
<1>3. 1 \in 1 .. Len(parsed) /\ Head(parsed) = parsed[1] /\ Tail(parsed) \in Seq(AnyEvents)
  BY <1>1, <1>2
<1>4. Decoded(input, parsed[1])
  BY <1>2, <1>3 DEF DecodedSeq
<1>5. pending' # None /\ pending' \in AnyEvents
  BY <1>1, <1>3, <1>4, DecodedIsEvent
<1>6. Waiting' = Waiting
  <2>1. Waiting' = <<Head(parsed)>> \o Tail(parsed)
    BY <1>1, <1>5 DEF Waiting
  <2>2. <<Head(parsed)>> \o Tail(parsed) = parsed
    BY <1>1, <1>2
  <2> QED BY <1>2, <2>1, <2>2
<1>7. Handed' = Handed /\ QueueShape'
  BY <1>1, HandedStays DEF KeptInv
<1>8. Kept(input, Handed, Waiting, ToSet(prefix), ToSet(readBuffer), discarded, received)'
  BY <1>1, <1>6, <1>7 DEF KeptInv
<1> QED BY <1>1, <1>3, <1>5, <1>7, <1>8 DEF KeptInv

(* What a push does to the line. *)
LEMMA PushLine ==
    ASSUME QueueShape, handled \in Seq(AnyEvents), handled' = handled,
           NEW e \in AnyEvents, Queue!PushOk(e)
    PROVE  /\ QueueShape'
           /\ \/ Ended(Handed', Handed, e)
              \/ /\ e \in ResizeEvents
                 /\ \E k \in 1 .. Len(Handed) :
                       Handed[k] \in ResizeEvents /\ Exchanged(Handed', Handed, k, e)
              \/ /\ e \in MotionEvents
                 /\ \E k \in 1 .. Len(Handed) :
                       Handed[k] \in MotionEvents /\ Exchanged(Handed', Handed, k, e)
<1>1. Joined(AnyEvents, handled, Queue!Pending, Handed)
  BY HandedIs
<1>2. ASSUME QueueShape' PROVE Joined(AnyEvents, handled, Queue!Pending', Handed')
  <2>1. handled' \in Seq(AnyEvents)
    OBVIOUS
  <2>2. Joined(AnyEvents, handled', Queue!Pending', Handed')
    BY <1>2, <2>1, HandedNext
  <2> QED BY <2>2
<1>3. CASE Queue!Enqueue(e)
  <2>1. QueueShape' /\ Ended(Queue!Pending', Queue!Pending, e)
    BY <1>3, EnqueueEnds
  <2> QED BY <1>1, <1>2, <2>1, JoinedEnded
<1>4. ASSUME NEW class, Queue!ReplacePending(class, e)
      PROVE  /\ QueueShape'
             /\ \E k \in 1 .. Len(Handed) :
                   Handed[k] \in class /\ Exchanged(Handed', Handed, k, e)
  <2>1. /\ QueueShape'
        /\ \E k \in 1 .. Len(Queue!Pending) :
              Queue!Pending[k] \in class /\ Exchanged(Queue!Pending', Queue!Pending, k, e)
    BY <1>4, ReplaceExchanges
  <2>2. PICK k \in 1 .. Len(Queue!Pending) :
              Queue!Pending[k] \in class /\ Exchanged(Queue!Pending', Queue!Pending, k, e)
    BY <2>1
  <2>3. /\ Len(handled) + k \in 1 .. Len(Handed) /\ Handed[Len(handled) + k] = Queue!Pending[k]
        /\ Exchanged(Handed', Handed, Len(handled) + k, e)
    BY <1>1, <1>2, <2>1, <2>2, JoinedExchanged
  <2> QED BY <2>1, <2>2, <2>3
<1>5. \/ Queue!Enqueue(e)
      \/ e \in ResizeEvents /\ Queue!ReplacePending(ResizeEvents, e)
      \/ e \in MotionEvents /\ Queue!ReplacePending(MotionEvents, e)
  BY DEF Queue!PushOk
<1> QED BY <1>3, <1>4, <1>5

(* drain emits the refused event: queued at the end, or a motion coalesced. *)
LEMMA DrainEmitKept ==
    ASSUME KeptInv, DrainEmit
    PROVE  KeptInv'
<1> DEFINE P == ToSet(prefix)
           R == ToSet(readBuffer)
<1>1. /\ pending # None /\ Queue!PushOk(pending) /\ pending' = None
      /\ UNCHANGED <<input, received, readBuffer, prefix, parsed, handled, discarded, resizes,
                     reader, drain, dispatcher>>
  BY DEF DrainEmit, flow, parser, control, dispatch
<1>2. /\ parsed \in Seq(AnyEvents) /\ pending \in AnyEvents /\ QueueShape
      /\ handled \in Seq(AnyEvents) /\ Kept(input, Handed, Waiting, P, R, discarded, received)
  BY <1>1 DEF KeptInv
<1>3. Led(Waiting, pending, parsed) /\ Waiting' = parsed
  <2>1. Led(Waiting, pending, parsed)
    BY <1>1, <1>2, WaitingIs
  <2>2. Waiting' = <<>> \o parsed
    BY <1>1 DEF Waiting
  <2>3. Waiting' = parsed
    BY <1>2, <2>2
  <2> QED BY <2>1, <2>3
<1>4. Decoded(input, pending)
  <2>1. DecodedSeq(input, Waiting) /\ InOrder(Waiting)
    BY <1>2 DEF Kept, Ordered
  <2> QED BY <1>3, <2>1, LedOrder
<1>5. pending \notin ResizeEvents /\ (pending \in MotionEvents => IsMotion(pending))
  BY <1>4, DecodedIsEvent
<1>6. /\ QueueShape'
      /\ \/ Ended(Handed', Handed, pending)
         \/ /\ pending \in MotionEvents
            /\ \E k \in 1 .. Len(Handed) :
                  Handed[k] \in MotionEvents /\ Exchanged(Handed', Handed, k, pending)
  BY <1>1, <1>2, <1>5, PushLine
<1>7. Kept(input, Handed', parsed, P, R, discarded, received)
  <2> HIDE DEF P, R
  <2>1. CASE Ended(Handed', Handed, pending)
    BY <1>2, <1>3, <2>1, EmitKeeps
  <2>2. CASE pending \in MotionEvents
              /\ \E k \in 1 .. Len(Handed) :
                    Handed[k] \in MotionEvents /\ Exchanged(Handed', Handed, k, pending)
    <3>1. PICK k \in 1 .. Len(Handed) :
                Handed[k] \in MotionEvents /\ Exchanged(Handed', Handed, k, pending)
      BY <2>2
    <3>2. IsMotion(pending) /\ IsMotion(Handed[k])
      BY <1>5, <2>2, <3>1 DEF MotionEvents, IsMotion
    <3> QED BY <1>2, <1>3, <3>1, <3>2, CoalesceKeeps
  <2> QED BY <1>6, <2>1, <2>2
<1>8. Kept(input, Handed, Waiting, ToSet(prefix), ToSet(readBuffer), discarded, received)'
  BY <1>1, <1>3, <1>7
<1> QED BY <1>1, <1>2, <1>6, <1>8 DEF KeptInv

(* A resize is queued, coalesced or dropped. *)
LEMMA PushResizeKept ==
    ASSUME KeptInv, PushResize
    PROVE  KeptInv'
<1> DEFINE e == [kind |-> "resize", bytes |-> <<>>, size |-> resizes + 1]
           P == ToSet(prefix)
           R == ToSet(readBuffer)
<1>1. /\ resizes < MaxResizes /\ resizes' = resizes + 1
      /\ Queue!PushOk(e) \/ UNCHANGED queue
      /\ UNCHANGED <<input, received, readBuffer, prefix, parsed, pending, handled, discarded,
                     reader, drain, dispatcher>>
  BY DEF PushResize, flow, parser, control, dispatch
<1>2. resizes' \in 0 .. MaxResizes /\ e \in ResizeEvents /\ e \in AnyEvents
  <2>1. resizes + 1 \in 1 .. MaxResizes
    BY <1>1, SizesAssumption DEF KeptInv
  <2> QED BY <1>1, <2>1, SizesAssumption DEF ResizeEvents, AnyEvents
<1> HIDE DEF e
<1>3. /\ QueueShape /\ handled \in Seq(AnyEvents)
      /\ Kept(input, Handed, Waiting, P, R, discarded, received)
  BY DEF KeptInv
<1>4. Waiting' = Waiting
  BY <1>1 DEF Waiting
<1>5. QueueShape' /\ Kept(input, Handed', Waiting, P, R, discarded, received)
  <2> HIDE DEF P, R
  <2>1. CASE UNCHANGED queue
    <3>1. Handed' = Handed /\ QueueShape'
      BY <1>1, <1>3, <2>1, HandedStays
    <3> QED BY <1>3, <3>1
  <2>2. CASE Queue!PushOk(e)
    <3>1. e \notin MotionEvents
      BY <1>2 DEF ResizeEvents, MotionEvents
    <3>2. /\ QueueShape'
          /\ \/ Ended(Handed', Handed, e)
             \/ \E k \in 1 .. Len(Handed) :
                   Handed[k] \in ResizeEvents /\ Exchanged(Handed', Handed, k, e)
      BY <1>1, <1>2, <1>3, <2>2, <3>1, PushLine
    <3> QED BY <1>2, <1>3, <3>2, ResizeKeeps
  <2> QED BY <1>1, <2>1, <2>2
<1>6. Kept(input, Handed, Waiting, ToSet(prefix), ToSet(readBuffer), discarded, received)'
  BY <1>1, <1>4, <1>5
<1> QED BY <1>1, <1>2, <1>5, <1>6 DEF KeptInv

(* The dispatcher hands the oldest event over: the line is the same. *)
LEMMA DispatchReadKept ==
    ASSUME KeptInv, DispatchRead
    PROVE  KeptInv'
<1>1. /\ handled' = Append(handled, slots[head]) /\ Queue!ReadEvent /\ dispatcher' = "handling"
      /\ UNCHANGED <<input, received, readBuffer, prefix, parsed, pending, discarded, resizes,
                     reader, drain>>
  BY DEF DispatchRead, flow, parser, control
<1>2. QueueShape /\ handled \in Seq(AnyEvents)
  BY DEF KeptInv
<1>3. /\ QueueShape' /\ slots[head] \in AnyEvents
      /\ Led(Queue!Pending, slots[head], Queue!Pending')
  BY <1>1, <1>2, ReadLeads
<1>4. Ended(handled', handled, slots[head]) /\ handled' \in Seq(AnyEvents)
  BY <1>1, <1>2, <1>3 DEF Ended
<1>5. /\ Joined(AnyEvents, handled, Queue!Pending, Handed)
      /\ Joined(AnyEvents, handled', Queue!Pending', Handed')
  <2>1. Joined(AnyEvents, handled', Queue!Pending', Handed')
    BY <1>3, <1>4, HandedNext
  <2> QED BY <1>2, <2>1, HandedIs
<1>6. Handed' = Handed
  BY <1>3, <1>4, <1>5, JoinedMoves
<1>7. Waiting' = Waiting
  BY <1>1 DEF Waiting
<1>8. Kept(input, Handed, Waiting, ToSet(prefix), ToSet(readBuffer), discarded, received)'
  BY <1>1, <1>6, <1>7 DEF KeptInv
<1> QED BY <1>1, <1>3, <1>4, <1>8 DEF KeptInv

(* The places of the two parts of a sequence of length m. *)
LEMMA CutPlaces ==
    ASSUME NEW m \in Nat, NEW n \in 0 .. m
    PROVE  /\ \A k \in 1 .. n : k \in 1 .. m
           /\ \A k \in 1 .. (m - n) : n + k \in 1 .. m
           /\ \A k \in 1 .. n, l \in 1 .. (m - n) : k < n + l
           /\ \A k, l \in 1 .. (m - n) : k < l => n + k < n + l
           /\ \A k \in 1 .. m : k \in 1 .. n \/ (k - n \in 1 .. (m - n) /\ n + (k - n) = k)
  OBVIOUS

(* The two parts of a buffer in order. *)
Cut(s, n, a, b) ==
    /\ a \in Seq(Bytes) /\ Len(a) = n /\ \A k \in 1 .. n : a[k] = s[k]
    /\ b \in Seq(Bytes) /\ Len(b) = Len(s) - n /\ \A k \in 1 .. (Len(s) - n) : b[k] = s[n + k]

(* Both parts are in order, the first before the second. *)
LEMMA CutParts ==
    ASSUME NEW s \in Seq(Bytes), Ascending(s), NEW n \in 0 .. Len(s), NEW a, NEW b, Cut(s, n, a, b)
    PROVE  /\ Ascending(a) /\ Ascending(b)
           /\ ToSet(s) = ToSet(a) \cup ToSet(b) /\ Before(ToSet(a), ToSet(b))
<1>1. Len(s) \in Nat /\ n \in Nat /\ n <= Len(s)
  OBVIOUS
<1>2. a \in Seq(Bytes) /\ Len(a) = n /\ \A k \in 1 .. n : a[k] = s[k]
  BY DEF Cut
<1>3. b \in Seq(Bytes) /\ Len(b) = Len(s) - n /\ \A k \in 1 .. (Len(s) - n) : b[k] = s[n + k]
  BY DEF Cut
<1>4. /\ DOMAIN s = 1 .. Len(s) /\ ToSet(s) = {s[i] : i \in 1 .. Len(s)}
      /\ DOMAIN a = 1 .. n /\ ToSet(a) = {a[i] : i \in 1 .. n}
      /\ DOMAIN b = 1 .. (Len(s) - n) /\ ToSet(b) = {b[i] : i \in 1 .. (Len(s) - n)}
  <2>1. DOMAIN s = 1 .. Len(s) /\ ToSet(s) = {s[i] : i \in 1 .. Len(s)}
    BY ElementsOf
  <2>2. DOMAIN a = 1 .. Len(a) /\ ToSet(a) = {a[i] : i \in 1 .. Len(a)}
    BY <1>2, ElementsOf
  <2>3. DOMAIN b = 1 .. Len(b) /\ ToSet(b) = {b[i] : i \in 1 .. Len(b)}
    BY <1>3, ElementsOf
  <2> QED BY <1>2, <1>3, <2>1, <2>2, <2>3
<1>5. /\ \A k \in 1 .. n : k \in 1 .. Len(s)
      /\ \A k \in 1 .. (Len(s) - n) : n + k \in 1 .. Len(s)
      /\ \A k \in 1 .. n, l \in 1 .. (Len(s) - n) : k < n + l
      /\ \A k, l \in 1 .. (Len(s) - n) : k < l => n + k < n + l
      /\ \A k \in 1 .. Len(s) : k \in 1 .. n \/ (k - n \in 1 .. (Len(s) - n) /\ n + (k - n) = k)
  BY <1>1, CutPlaces
<1>6. Ascending(a)
  BY <1>2, <1>4, <1>5 DEF Ascending
<1>7. Ascending(b)
  <2> SUFFICES ASSUME NEW k \in 1 .. (Len(s) - n), NEW l \in 1 .. (Len(s) - n), k < l
               PROVE  b[k] < b[l]
    BY <1>4 DEF Ascending
  <2>1. n + k \in DOMAIN s /\ n + l \in DOMAIN s /\ n + k < n + l
    BY <1>4, <1>5
  <2>2. s[n + k] < s[n + l]
    BY <2>1 DEF Ascending
  <2> QED BY <1>3, <2>2
<1>8. Before(ToSet(a), ToSet(b))
  <2>1. ASSUME NEW k \in 1 .. n, NEW l \in 1 .. (Len(s) - n) PROVE a[k] < b[l]
    <3>1. k \in DOMAIN s /\ n + l \in DOMAIN s /\ k < n + l
      BY <1>4, <1>5
    <3>2. s[k] < s[n + l]
      BY <3>1 DEF Ascending
    <3> QED BY <1>2, <1>3, <3>2
  <2> QED BY <1>4, <2>1 DEF Before
<1>9. ToSet(s) = ToSet(a) \cup ToSet(b)
  <2>1. ToSet(a) \subseteq ToSet(s)
    BY <1>2, <1>4, <1>5
  <2>2. ToSet(b) \subseteq ToSet(s)
    BY <1>3, <1>4, <1>5
  <2>3. ASSUME NEW x \in ToSet(s) PROVE x \in ToSet(a) \cup ToSet(b)
    <3>1. PICK k \in 1 .. Len(s) : x = s[k]
      BY <1>4
    <3>2. CASE k \in 1 .. n
      BY <1>2, <1>4, <3>1, <3>2
    <3>3. CASE k \notin 1 .. n
      <4>1. PICK l \in 1 .. (Len(s) - n) : n + l = k
        BY <1>5, <3>3
      <4> QED BY <1>3, <1>4, <3>1, <4>1
    <3> QED BY <3>2, <3>3
  <2> QED BY <2>1, <2>2, <2>3
<1> QED BY <1>6, <1>7, <1>8, <1>9

(* A buffer in order, cut in two. *)
LEMMA CutBuffer ==
    ASSUME NEW s \in Seq(Bytes), Ascending(s), NEW n \in 0 .. Len(s)
    PROVE  LET a == SubSeq(s, 1, n)
               b == SubSeq(s, n + 1, Len(s))
           IN  /\ a \in Seq(Bytes) /\ Len(a) = n /\ Ascending(a)
               /\ b \in Seq(Bytes) /\ Len(b) = Len(s) - n /\ Ascending(b)
               /\ ToSet(s) = ToSet(a) \cup ToSet(b) /\ Before(ToSet(a), ToSet(b))
<1> DEFINE a == SubSeq(s, 1, n)
           b == SubSeq(s, n + 1, Len(s))
<1>1. Len(s) \in Nat /\ n \in Nat /\ n <= Len(s)
  OBVIOUS
<1>2. a \in Seq(Bytes) /\ Len(a) = n /\ \A k \in 1 .. n : a[k] = s[k]
  BY <1>1
<1>3. b \in Seq(Bytes) /\ Len(b) = Len(s) - n /\ \A k \in 1 .. (Len(s) - n) : b[k] = s[n + k]
  <2>1. b \in Seq(Bytes)
    BY <1>1
  <2>2. Len(b) = Len(s) - n
    BY <1>1
  <2>3. ASSUME NEW k \in 1 .. (Len(s) - n) PROVE b[k] = s[n + k]
    BY <1>1
  <2> QED BY <2>1, <2>2, <2>3
<1> HIDE DEF a, b
<1>4. /\ Ascending(a) /\ Ascending(b)
      /\ ToSet(s) = ToSet(a) \cup ToSet(b) /\ Before(ToSet(a), ToSet(b))
  <2>1. Cut(s, n, a, b)
    BY <1>2, <1>3 DEF Cut
  <2> QED BY <2>1, CutParts
<1> QED BY <1>2, <1>3, <1>4 DEF a, b

(* accept_push parses a chunk of the buffer. *)
LEMMA PushChunkKept ==
    ASSUME KeptInv, PushChunk
    PROVE  KeptInv'
<1> DEFINE take == IF Len(readBuffer) < ChunkSize THEN Len(readBuffer) ELSE ChunkSize
           a == SubSeq(readBuffer, 1, take)
           b == SubSeq(readBuffer, take + 1, Len(readBuffer))
           p == Parse(a)
           P == ToSet(prefix)
           R == ToSet(readBuffer)
<1>1. /\ pending = None /\ parsed = <<>> /\ readBuffer # <<>> /\ drain' = "chunk"
      /\ prefix' = p.prefix /\ parsed' = p.parsed /\ readBuffer' = b
      /\ UNCHANGED <<input, received, reader, pending, queue, handled, discarded, resizes,
                     dispatcher>>
  BY DEF PushChunk, Drained, dispatch
<1>2. /\ input \in [Bytes -> Kinds] /\ prefix \in Seq(Bytes) /\ Len(prefix) <= 1
      /\ readBuffer \in Seq(Bytes) /\ Len(readBuffer) <= BufferSize /\ Ascending(readBuffer)
      /\ reader # "reading" /\ Kept(input, Handed, Waiting, P, R, discarded, received)
  BY <1>1 DEF KeptInv
<1>3. take \in 0 .. Len(readBuffer)
  BY <1>2, SizesAssumption
<1> HIDE DEF take
<1>4. /\ a \in Seq(Bytes) /\ Len(a) = take /\ Ascending(a)
      /\ b \in Seq(Bytes) /\ Len(b) = Len(readBuffer) - take /\ Ascending(b)
      /\ R = ToSet(a) \cup ToSet(b) /\ Before(ToSet(a), ToSet(b))
  BY <1>2, <1>3, CutBuffer
<1> HIDE DEF a, b
<1>5. Waiting = <<>> /\ BytesOf(<<>>) = {} /\ DecodedSeq(input, <<>>) /\ InOrder(<<>>)
  BY <1>1, NoEvents DEF Waiting
<1>6. Before(P, R)
  BY <1>2 DEF Kept, Ordered
<1>7. Holds(input, [prefix |-> prefix, parsed |-> parsed], P)
  <2>1. [prefix |-> prefix, parsed |-> parsed] \in Parsers
    BY <1>1, <1>2 DEF Parsers
  <2> QED BY <1>1, <1>2, <1>5, <2>1 DEF Holds, Before
<1>8. Holds(input, p, P \cup ToSet(a))
  <2>1. Before(P, ToSet(a))
    BY <1>4, <1>6 DEF Before
  <2> HIDE DEF P
  <2> QED BY <1>2, <1>4, <1>7, <2>1, ParseKeeps
<1> HIDE DEF p
<1>9. /\ p.prefix \in Seq(Bytes) /\ p.parsed \in Seq(AnyEvents) /\ Len(p.prefix) <= 1
      /\ DecodedSeq(input, p.parsed) /\ InOrder(p.parsed)
      /\ Before(BytesOf(p.parsed), ToSet(p.prefix))
      /\ BytesOf(p.parsed) \cup ToSet(p.prefix) = P \cup ToSet(a)
  BY <1>8 DEF Holds, Parsers
<1>10. Before(BytesOf(p.parsed), ToSet(p.prefix) \cup ToSet(b)) /\ Before(ToSet(p.prefix), ToSet(b))
  BY <1>4, <1>6, <1>9 DEF Before
<1>11. BytesOf(p.parsed) \cup ToSet(p.prefix) \cup ToSet(b) = BytesOf(Waiting) \cup P \cup R
  BY <1>4, <1>5, <1>9
<1>12. Kept(input, Handed, p.parsed, ToSet(p.prefix), ToSet(b), discarded, received)
  <2> HIDE DEF P, R
  <2> QED BY <1>2, <1>9, <1>10, <1>11, RegroupKeeps
<1>13. Handed' = Handed /\ QueueShape'
  BY <1>1, HandedStays DEF KeptInv
<1>14. Waiting' = p.parsed
  <2>1. Waiting' = <<>> \o p.parsed
    BY <1>1 DEF Waiting
  <2> QED BY <1>9, <2>1
<1>15. Kept(input, Handed, Waiting, ToSet(prefix), ToSet(readBuffer), discarded, received)'
  BY <1>1, <1>12, <1>13, <1>14
<1>16. Len(b) <= BufferSize
  BY <1>2, <1>3, <1>4, SizesAssumption
<1> QED BY <1>1, <1>2, <1>4, <1>9, <1>13, <1>15, <1>16 DEF KeptInv

(* The prefix becomes an event, after all others. *)
LEMMA FlushKept ==
    ASSUME KeptInv, prefix # <<>>, prefix' = <<>>,
           parsed' = Append(parsed, Event("sequence", prefix)),
           UNCHANGED <<input, received, readBuffer, reader, pending, queue, handled, discarded,
                       resizes, dispatcher>>,
           drain' # "beforeRead"
    PROVE  KeptInv'
<1> DEFINE e == Event("sequence", prefix)
           P == ToSet(prefix)
           R == ToSet(readBuffer)
<1>1. /\ prefix \in Seq(Bytes) /\ Len(prefix) <= 1 /\ parsed \in Seq(AnyEvents)
      /\ pending \in AnyEvents \cup {None}
      /\ Kept(input, Handed, Waiting, P, R, discarded, received)
  BY DEF KeptInv
<1>2. Len(prefix) = 1 /\ Ascending(prefix)
  <2>1. Len(prefix) \in Nat /\ Len(prefix) # 0
    BY <1>1
  <2>2. \A n \in Nat : n # 0 /\ n <= 1 => n = 1
    OBVIOUS
  <2>3. Len(prefix) = 1
    BY <1>1, <2>1, <2>2
  <2>4. DOMAIN prefix = 1 .. 1
    BY <1>1, <2>3
  <2> QED BY <2>3, <2>4 DEF Ascending
<1>3. e.kind = "sequence" /\ e.bytes = prefix /\ e \in KeyEvents
  BY <1>1 DEF Event, KeyEvents, Bytes
<1>4. Decoded(input, e) /\ e \in AnyEvents
  BY <1>2, <1>3 DEF Decoded, IsMotion, AnyEvents
<1>5. parsed' = Append(parsed, e)
  OBVIOUS
<1> HIDE DEF e
<1>6. Ended(parsed', parsed, e)
  BY <1>1, <1>4, <1>5 DEF Ended
<1>7. Ended(Waiting', Waiting, e)
  <2>1. CASE pending = None
    <3>1. Waiting = <<>> \o parsed /\ Waiting' = <<>> \o parsed'
      BY <2>1 DEF Waiting
    <3>2. Waiting = parsed /\ Waiting' = parsed'
      BY <1>1, <1>6, <3>1 DEF Ended
    <3> QED BY <1>6, <3>2
  <2>2. CASE pending # None
    <3>1. Waiting = <<pending>> \o parsed /\ Waiting' = <<pending>> \o parsed'
      BY <2>2 DEF Waiting
    <3>2. <<pending>> \in Seq(AnyEvents) /\ parsed' \in Seq(AnyEvents)
      BY <1>1, <1>6, <2>2 DEF Ended
    <3>3. /\ Joined(AnyEvents, <<pending>>, parsed, Waiting)
          /\ Joined(AnyEvents, <<pending>>, parsed', Waiting')
      BY <1>1, <3>1, <3>2, Concatenated
    <3> QED BY <1>6, <3>2, <3>3, JoinedEnded
  <2> QED BY <2>1, <2>2
<1>8. /\ DecodedSeq(input, Waiting) /\ InOrder(Waiting)
      /\ Before(BytesOf(Waiting), P \cup R) /\ Before(P, R)
  BY <1>1 DEF Kept, Ordered
<1>9. Before(BytesOf(Waiting), ToSet(e.bytes))
  BY <1>3, <1>8 DEF Before
<1>10. /\ DecodedSeq(input, Waiting') /\ InOrder(Waiting')
       /\ BytesOf(Waiting') = BytesOf(Waiting) \cup ToSet(e.bytes)
  BY <1>4, <1>7, <1>8, <1>9, DecodeEnds
<1>11. Before(BytesOf(Waiting'), {} \cup R) /\ Before({}, R)
       /\ BytesOf(Waiting') \cup {} \cup R = BytesOf(Waiting) \cup P \cup R
  BY <1>3, <1>8, <1>10 DEF Before
<1>12. Kept(input, Handed, Waiting', {}, R, discarded, received)
  <2> HIDE DEF P, R
  <2> QED BY <1>1, <1>10, <1>11, RegroupKeeps
<1>13. Handed' = Handed /\ QueueShape'
  BY HandedStays DEF KeptInv
<1>14. prefix' \in Seq(Bytes) /\ Len(prefix') = 0 /\ ToSet(prefix') = {}
  BY DEF ToSet
<1>15. Kept(input, Handed, Waiting, ToSet(prefix), ToSet(readBuffer), discarded, received)'
  BY <1>12, <1>13, <1>14
<1>16. parsed' \in Seq(AnyEvents) /\ Len(prefix') <= 1
  BY <1>6, <1>14 DEF Ended
<1> QED BY <1>13, <1>14, <1>15, <1>16 DEF KeptInv

(* fire_timeout flushes the prefix, or defers. *)
LEMMA FlushTimeoutKept ==
    ASSUME KeptInv, FlushTimeout
    PROVE  KeptInv'
<1>1. /\ parsed = <<>> /\ drain' = "afterFlush"
      /\ UNCHANGED <<input, received, readBuffer, reader, pending, queue, handled, discarded,
                     resizes, dispatcher>>
  BY DEF FlushTimeout, Drained, flow, dispatch
<1>2. CASE UNCHANGED <<prefix, parsed>>
  BY <1>1, <1>2, QuietKeeps DEF KeptInv
<1>3. CASE prefix # <<>> /\ prefix' = <<>> /\ parsed' = <<Event("sequence", prefix)>>
  <2>1. parsed' = Append(parsed, Event("sequence", prefix))
    BY <1>1, <1>3
  <2> QED BY <1>1, <1>3, <2>1, FlushKept
<1>4. \/ UNCHANGED <<prefix, parsed>>
      \/ prefix # <<>> /\ prefix' = <<>> /\ parsed' = <<Event("sequence", prefix)>>
  <2>1. CASE deferring
    <3>1. UNCHANGED parser
      BY <2>1, Zenon DEF FlushTimeout
    <3>2. UNCHANGED <<prefix, parsed>>
      BY <3>1 DEF parser
    <3> QED BY <3>2
  <2>2. CASE ~deferring
    <3>1. prefix' = <<>> /\ parsed' = IF prefix = <<>> THEN <<>> ELSE <<Event("sequence", prefix)>>
      BY <2>2 DEF FlushTimeout, Flush
    <3>2. CASE prefix = <<>>
      <4>1. UNCHANGED <<prefix, parsed>>
        BY <1>1, <3>1, <3>2
      <4> QED BY <4>1
    <3>3. CASE prefix # <<>>
      BY <3>1, <3>3
    <3> QED BY <3>2, <3>3
  <2> QED BY <2>1, <2>2
<1> QED BY <1>2, <1>3, <1>4

(* update_protocol_context flushes the prefix. *)
LEMMA UpdateProtocolContextKept ==
    ASSUME KeptInv, UpdateProtocolContext
    PROVE  KeptInv'
<1>1. /\ drain' = "afterContext" /\ prefix' = <<>>
      /\ parsed' = IF prefix = <<>> THEN parsed ELSE Append(parsed, Event("sequence", prefix))
      /\ UNCHANGED <<input, received, readBuffer, reader, pending, queue, handled, discarded,
                     resizes, dispatcher>>
  BY DEF UpdateProtocolContext, Call, flow, dispatch
<1>2. CASE prefix = <<>>
  <2>1. UNCHANGED <<prefix, parsed>>
    BY <1>1, <1>2
  <2> QED BY <1>1, <2>1, QuietKeeps DEF KeptInv
<1>3. CASE prefix # <<>>
  BY <1>1, <1>3, FlushKept
<1> QED BY <1>2, <1>3

(* reset discards everything before the queue. *)
LEMMA ResetKept ==
    ASSUME KeptInv, Reset
    PROVE  KeptInv'
<1> DEFINE P == ToSet(prefix)
           R == ToSet(readBuffer)
<1>1. /\ discarded' = discarded \cup R \cup P \cup BytesOf(parsed)
                      \cup (IF pending = None THEN {} ELSE ToSet(pending.bytes))
      /\ readBuffer' = <<>> /\ prefix' = <<>> /\ parsed' = <<>> /\ pending' = None
      /\ UNCHANGED <<input, received, reader, drain, queue, handled, resizes, dispatcher>>
  <2>1. discarded' = discarded \cup R \cup P \cup BytesOf(parsed)
                     \cup (IF pending = None THEN {} ELSE ToSet(pending.bytes))
    BY DEF Reset
  <2> QED BY <2>1 DEF Reset, control, dispatch
<1>2. /\ parsed \in Seq(AnyEvents) /\ pending \in AnyEvents \cup {None}
      /\ Kept(input, Handed, Waiting, P, R, discarded, received)
  BY DEF KeptInv
<1>3. BytesOf(Waiting) = BytesOf(parsed) \cup (IF pending = None THEN {} ELSE ToSet(pending.bytes))
  <2>1. CASE pending = None
    BY <1>2, <2>1, WaitingIs
  <2>2. CASE pending # None
    <3>1. BytesOf(Waiting) = ToSet(pending.bytes) \cup BytesOf(parsed)
      BY <1>2, <2>2, WaitingIs, LedBytes
    <3> QED BY <2>2, <3>1
  <2> QED BY <2>1, <2>2
<1>4. discarded' = discarded \cup BytesOf(Waiting) \cup P \cup R
  BY <1>1, <1>3
<1>5. Kept(input, Handed, <<>>, {}, {}, discarded', received)
  <2> HIDE DEF P, R
  <2> QED BY <1>2, <1>4, ResetKeeps
<1>6. Handed' = Handed /\ QueueShape'
  BY <1>1, HandedStays DEF KeptInv
<1>7. Waiting' = <<>>
  BY <1>1 DEF Waiting
<1>8. ToSet(<<>>) = {} /\ <<>> \in Seq(Bytes) /\ <<>> \in Seq(AnyEvents) /\ Len(<<>>) = 0
      /\ Ascending(<<>>)
  BY DEF ToSet, Ascending
<1>9. Kept(input, Handed, Waiting, ToSet(prefix), ToSet(readBuffer), discarded, received)'
  BY <1>1, <1>5, <1>6, <1>7, <1>8
<1> QED BY <1>1, <1>6, <1>8, <1>9, SizesAssumption DEF KeptInv

(* single_read returns the next bytes into an empty buffer. *)
LEMMA ReadReturnsKept ==
    ASSUME KeptInv, ReadReturns
    PROVE  KeptInv'
<1> DEFINE P == ToSet(prefix)
<1>1. /\ reader = "reading" /\ reader' = "ready" /\ drain' = "admit"
      /\ UNCHANGED <<input, prefix, parsed, pending, queue, handled, discarded, resizes,
                     dispatcher>>
  BY DEF ReadReturns, Call, parser, dispatch
<1>2. PICK c \in 1 .. BufferSize :
         /\ received + c <= InputLength /\ received' = received + c
         /\ readBuffer' = [i \in 1 .. c |-> received + i]
  BY DEF ReadReturns
<1>3. Kept(input, Handed, Waiting, P, {}, discarded, received) /\ received \in Nat
  <2>1. readBuffer = <<>> /\ Kept(input, Handed, Waiting, P, ToSet(readBuffer), discarded, received)
    BY <1>1 DEF KeptInv
  <2>2. ToSet(<<>>) = {}
    BY DEF ToSet
  <2>3. received \in Nat
    BY <2>1, SizesAssumption DEF Kept
  <2> QED BY <2>1, <2>2, <2>3
<1>4. c \in Nat /\ c <= BufferSize
  BY <1>2, SizesAssumption
<1>5. /\ readBuffer' \in Seq(Bytes) /\ Len(readBuffer') = c /\ DOMAIN readBuffer' = 1 .. c
      /\ \A i \in 1 .. c : readBuffer'[i] = received + i
  <2>1. \A i \in 1 .. c : received + i \in Bytes
    BY <1>2, <1>3, <1>4, SizesAssumption DEF Bytes
  <2> QED BY <1>2, <1>4, <2>1
<1>6. Ascending(readBuffer')
  <2>1. \A i, j \in 1 .. c : i < j => received + i < received + j
    BY <1>3, <1>4
  <2> QED BY <1>5, <2>1 DEF Ascending
<1>7. ToSet(readBuffer') = (received + 1) .. (received + c)
  <2>1. ToSet(readBuffer') = {readBuffer'[i] : i \in 1 .. c}
    BY <1>5 DEF ToSet
  <2>2. ASSUME NEW x \in (received + 1) .. (received + c) PROVE x \in ToSet(readBuffer')
    <3>1. x - received \in 1 .. c /\ received + (x - received) = x
      BY <1>3, <1>4
    <3> QED BY <1>5, <2>1, <3>1
  <2>3. ASSUME NEW i \in 1 .. c PROVE readBuffer'[i] \in (received + 1) .. (received + c)
    BY <1>3, <1>4, <1>5
  <2> QED BY <2>1, <2>2, <2>3
<1>8. Kept(input, Handed, Waiting, P, ToSet(readBuffer'), discarded, received + c)
  <2> HIDE DEF P
  <2> QED BY <1>2, <1>3, <1>4, <1>7, ReadKeeps
<1>9. Handed' = Handed /\ QueueShape'
  BY <1>1, HandedStays DEF KeptInv
<1>10. Waiting' = Waiting
  BY <1>1 DEF Waiting
<1>11. Kept(input, Handed, Waiting, ToSet(prefix), ToSet(readBuffer), discarded, received)'
  BY <1>1, <1>2, <1>8, <1>9, <1>10
<1> QED BY <1>1, <1>4, <1>5, <1>6, <1>9, <1>11 DEF KeptInv

(* The steps that only move a fiber or a deadline. *)
LEMMA QuietSteps ==
    ASSUME KeptInv,
           \/ DrainFull \/ PushAccepted \/ Suspend \/ TimeoutReturns \/ ContextReturns \/ Tick
           \/ DispatchHandled \/ DispatchWait \/ DispatchWake \/ ReadOnce \/ FireTimeout
           \/ ReadEnds \/ UNCHANGED vars
    PROVE  KeptInv'
<1> USE DEF flow, parser, queue, control, dispatch, Return, Call
<1>1. None # "beforeRead"
  BY NoneAssumption DEF Drains
<1>2. UNCHANGED <<input, received, readBuffer, prefix, parsed, pending, queue, handled,
                  discarded, resizes>>
  <2>1. CASE DrainFull \/ PushAccepted \/ Suspend
    BY <2>1 DEF DrainFull, PushAccepted, Suspend
  <2>2. CASE TimeoutReturns \/ ContextReturns \/ Tick
    BY <2>2 DEF TimeoutReturns, ContextReturns, Tick
  <2>3. CASE DispatchHandled \/ DispatchWait \/ DispatchWake
    BY <2>3 DEF DispatchHandled, DispatchWait, DispatchWake
  <2>4. CASE ReadOnce \/ FireTimeout \/ ReadEnds
    BY <2>4 DEF ReadOnce, FireTimeout, ReadEnds
  <2>5. CASE UNCHANGED vars
    BY <2>5 DEF vars
  <2> QED BY <2>1, <2>2, <2>3, <2>4, <2>5
<1>3. reader' \in {"ready", "reading", "ended"} /\ dispatcher' \in {"loop", "handling", "waiting"}
  <2>1. CASE DrainFull \/ PushAccepted \/ Suspend
    BY <2>1 DEF DrainFull, PushAccepted, Suspend, KeptInv
  <2>2. CASE TimeoutReturns \/ ContextReturns \/ Tick
    BY <2>2 DEF TimeoutReturns, ContextReturns, Tick, KeptInv
  <2>3. CASE DispatchHandled \/ DispatchWait \/ DispatchWake
    BY <2>3 DEF DispatchHandled, DispatchWait, DispatchWake, KeptInv
  <2>4. CASE ReadOnce \/ FireTimeout \/ ReadEnds
    BY <2>4 DEF ReadOnce, FireTimeout, ReadEnds, KeptInv
  <2>5. CASE UNCHANGED vars
    BY <2>5 DEF vars, KeptInv
  <2> QED BY <2>1, <2>2, <2>3, <2>4, <2>5
<1>4. drain' = "beforeRead" \/ reader' = "reading" => readBuffer = <<>>
  <2>0. drain = "beforeRead" \/ reader = "reading" => readBuffer = <<>>
    BY DEF KeptInv
  <2>1. CASE DrainFull \/ PushAccepted \/ Suspend
    BY <1>1, <2>0, <2>1 DEF DrainFull, PushAccepted, Suspend
  <2>2. CASE TimeoutReturns \/ ContextReturns \/ Tick
    BY <1>1, <2>0, <2>2 DEF TimeoutReturns, ContextReturns, Tick
  <2>3. CASE DispatchHandled \/ DispatchWait \/ DispatchWake
    BY <2>0, <2>3 DEF DispatchHandled, DispatchWait, DispatchWake
  <2>4. CASE ReadOnce \/ FireTimeout \/ ReadEnds
    BY <2>0, <2>4 DEF ReadOnce, FireTimeout, ReadEnds
  <2>5. CASE UNCHANGED vars
    BY <2>0, <2>5 DEF vars
  <2> QED BY <2>1, <2>2, <2>3, <2>4, <2>5
<1> QED BY <1>2, <1>3, <1>4, QuietKeeps

(* Every step keeps the invariant. *)
LEMMA KeptStep ==
    ASSUME KeptInv, [Next]_vars
    PROVE  KeptInv'
<1>1. CASE \/ DrainFull \/ PushAccepted \/ Suspend \/ TimeoutReturns \/ ContextReturns \/ Tick
           \/ DispatchHandled \/ DispatchWait \/ DispatchWake \/ ReadOnce \/ FireTimeout
           \/ ReadEnds \/ UNCHANGED vars
  BY <1>1, QuietSteps
<1>2. CASE DrainTake \/ DrainEmit \/ PushChunk \/ FlushTimeout
  BY <1>2, DrainTakeKept, DrainEmitKept, PushChunkKept, FlushTimeoutKept
<1>3. CASE UpdateProtocolContext \/ Reset \/ ReadReturns
  BY <1>3, UpdateProtocolContextKept, ResetKept, ReadReturnsKept
<1>4. CASE PushResize \/ DispatchRead
  BY <1>4, PushResizeKept, DispatchReadKept
<1> QED BY <1>1, <1>2, <1>3, <1>4 DEF Next, CallStep, Reader, Dispatcher

(* Nothing has been read at first. *)
LEMMA KeptInit == Init => KeptInv
<1> SUFFICES ASSUME Init PROVE KeptInv
  OBVIOUS
<1> USE SizesAssumption
<1>1. /\ input \in [Bytes -> Kinds] /\ received = 0 /\ readBuffer = <<>> /\ reader = "ready"
      /\ prefix = <<>> /\ parsed = <<>> /\ pending = None /\ drain = None
      /\ dispatcher = "loop" /\ handled = <<>> /\ resizes = 0 /\ discarded = {}
      /\ slots = [k \in RingPlaces |-> None] /\ head = 0 /\ tail = 0 /\ length = 0
  BY DEF Init, Bytes, Queue!QueueInit, Queue!Indices, RingPlaces
<1>2. QueueShape
  BY <1>1 DEF QueueShape, Ring, RingPlaces, PlaceAt
<1>3. Handed = <<>> /\ Waiting = <<>>
  <2>1. Queue!Pending \in Seq(AnyEvents) /\ Len(Queue!Pending) = 0
    BY <1>1, <1>2, PendingIs
  <2>2. Queue!Pending = <<>>
    BY <2>1
  <2> QED BY <1>1, <2>2 DEF Handed, Waiting
<1>4. /\ DecodedSeq(input, <<>>) /\ EventSeq(input, <<>>) /\ InOrder(<<>>)
      /\ LosslessInOrder(<<>>) /\ BytesOf(<<>>) = {} /\ KeptBytes(<<>>) = {}
  BY NoEvents
<1>5. ToSet(<<>>) = {} /\ <<>> \in Seq(Bytes) /\ <<>> \in Seq(AnyEvents) /\ Len(<<>>) = 0
      /\ Ascending(<<>>)
  BY DEF ToSet, Ascending
<1>6. Kept(input, <<>>, <<>>, {}, {}, {}, 0)
  <2>1. Ordered(<<>>, <<>>, {}, {})
    BY <1>4 DEF Ordered, Before
  <2>2. Placed(input, <<>>, <<>>, {}, {}, {}, 0)
    BY <1>4 DEF Placed
  <2> QED BY <1>4, <2>1, <2>2 DEF Kept
<1>7. Kept(input, Handed, Waiting, ToSet(prefix), ToSet(readBuffer), discarded, received)
  BY <1>1, <1>3, <1>5, <1>6
<1>8. drain # "beforeRead"
  BY <1>1, NoneAssumption DEF Drains
<1> QED BY <1>1, <1>2, <1>5, <1>7, <1>8 DEF KeptInv

-----------------------------------------------------------------------------
(* What the invariant says of the whole line of events L.                    *)

KeptOnLine(kinds, L, P, R, D, n) ==
    /\ \A k \in 1 .. Len(L) :
          IsLossless(L[k]) => Decoded(kinds, L[k]) /\ Before(ToSet(L[k].bytes), P \cup R)
    /\ LosslessInOrder(L) /\ (KeptBytes(L) \cup P \cup R) \cap D = {}
    /\ \A b \in 1 .. n : \/ b \in D \/ kinds[b] = "motion"
                         \/ b \in KeptBytes(L) \cup P \cup R

(* The invariant, for handed and waiting events together. *)
LEMMA LineKept ==
    ASSUME NEW kinds, NEW H, NEW W, NEW P, NEW R, NEW D, NEW n, Kept(kinds, H, W, P, R, D, n),
           NEW L, Joined(AnyEvents, H, W, L)
    PROVE  KeptOnLine(kinds, L, P, R, D, n) /\ KeptBytes(H) \subseteq KeptBytes(L)
<1>1. /\ EventSeq(kinds, H) /\ DecodedSeq(kinds, W) /\ H \in Seq(AnyEvents) /\ W \in Seq(AnyEvents)
      /\ Ordered(H, W, P, R) /\ Placed(kinds, H, W, P, R, D, n)
  BY DEF Kept, EventSeq, DecodedSeq
<1>2. /\ L \in Seq(AnyEvents) /\ Len(L) = Len(H) + Len(W) /\ Len(H) \in Nat /\ Len(W) \in Nat
      /\ \A k \in 1 .. Len(H) : L[k] = H[k]
      /\ \A k \in 1 .. Len(W) : L[Len(H) + k] = W[k]
  BY <1>1 DEF Joined
<1>3. ASSUME NEW k \in 1 .. Len(L)
      PROVE  \/ k \in 1 .. Len(H) /\ L[k] = H[k]
             \/ k - Len(H) \in 1 .. Len(W) /\ L[k] = W[k - Len(H)]
  <2>1. CASE k \in 1 .. Len(H)
    BY <1>2, <2>1
  <2>2. CASE k \notin 1 .. Len(H)
    <3>1. k - Len(H) \in 1 .. Len(W) /\ Len(H) + (k - Len(H)) = k
      BY <1>2, <2>2
    <3> QED BY <1>2, <3>1
  <2> QED BY <2>1, <2>2
<1>4. /\ \A k \in 1 .. Len(H) : k \in 1 .. Len(L)
      /\ \A k \in 1 .. Len(W) : Len(H) + k \in 1 .. Len(L)
  BY <1>2
<1>5. /\ \A k \in 1 .. Len(H) : ToSet(H[k].bytes) \subseteq BytesOf(H)
      /\ \A k \in 1 .. Len(W) : ToSet(W[k].bytes) \subseteq BytesOf(W)
  BY <1>1, BytesMember
<1>6. ASSUME NEW k \in 1 .. Len(L), IsLossless(L[k])
      PROVE  Decoded(kinds, L[k]) /\ Before(ToSet(L[k].bytes), P \cup R)
  <2>1. CASE k \in 1 .. Len(H) /\ L[k] = H[k]
    <3>1. H[k] \notin ResizeEvents
      BY <1>6, <2>1 DEF IsLossless, ResizeEvents
    <3>2. Decoded(kinds, H[k])
      BY <1>1, <2>1, <3>1 DEF EventSeq
    <3>3. Before(ToSet(H[k].bytes), P \cup R)
      BY <1>1, <1>5, <2>1 DEF Ordered, Before
    <3> QED BY <2>1, <3>2, <3>3
  <2>2. CASE k - Len(H) \in 1 .. Len(W) /\ L[k] = W[k - Len(H)]
    <3> DEFINE l == k - Len(H)
    <3>1. l \in 1 .. Len(W) /\ L[k] = W[l]
      BY <2>2
    <3> HIDE DEF l
    <3>2. Decoded(kinds, W[l])
      BY <1>1, <3>1 DEF DecodedSeq
    <3>3. Before(ToSet(W[l].bytes), P \cup R)
      BY <1>1, <1>5, <3>1 DEF Ordered, Before
    <3> QED BY <3>1, <3>2, <3>3
  <2> QED BY <1>3, <2>1, <2>2
<1>7. LosslessInOrder(L)
  <2> SUFFICES ASSUME NEW k \in 1 .. Len(L), NEW l \in 1 .. Len(L), k < l,
                      IsLossless(L[k]), IsLossless(L[l])
               PROVE  Before(ToSet(L[k].bytes), ToSet(L[l].bytes))
    BY DEF LosslessInOrder
  <2>1. CASE l \in 1 .. Len(H)
    <3>1. k \in 1 .. Len(H)
      BY <1>2, <2>1
    <3> QED BY <1>1, <1>2, <2>1, <3>1 DEF Ordered, LosslessInOrder
  <2>2. CASE l \notin 1 .. Len(H) /\ k \in 1 .. Len(H)
    <3> DEFINE j == l - Len(H)
    <3>1. j \in 1 .. Len(W) /\ L[l] = W[j] /\ L[k] = H[k]
      BY <1>2, <1>3, <2>2
    <3> HIDE DEF j
    <3>2. Before(BytesOf(H), BytesOf(W))
      BY <1>1 DEF Ordered, Before
    <3> QED BY <1>5, <2>2, <3>1, <3>2 DEF Before
  <2>3. CASE k \notin 1 .. Len(H)
    <3> DEFINE i == k - Len(H)
               j == l - Len(H)
    <3>1. l \notin 1 .. Len(H)
      BY <1>2, <2>3
    <3>2. i \in 1 .. Len(W) /\ L[k] = W[i] /\ j \in 1 .. Len(W) /\ L[l] = W[j]
      BY <1>3, <2>3, <3>1
    <3>3. i < j
      BY <1>2
    <3> HIDE DEF i, j
    <3> QED BY <1>1, <3>2, <3>3 DEF Ordered, InOrder
  <2> QED BY <2>1, <2>2, <2>3
<1>8. KeptBytes(L) \subseteq BytesOf(H) \cup BytesOf(W)
  <2> SUFFICES ASSUME NEW b \in KeptBytes(L) PROVE b \in BytesOf(H) \cup BytesOf(W)
    OBVIOUS
  <2>1. PICK k \in 1 .. Len(L) : b \in ToSet(L[k].bytes)
    BY <1>2, BytesMember
  <2> QED BY <1>3, <1>5, <2>1
<1>9. (KeptBytes(L) \cup P \cup R) \cap D = {}
  BY <1>1, <1>8 DEF Placed
<1>10. KeptBytes(H) \subseteq KeptBytes(L)
  <2> SUFFICES ASSUME NEW b \in KeptBytes(H) PROVE b \in KeptBytes(L)
    OBVIOUS
  <2>1. PICK k \in 1 .. Len(H) : IsLossless(H[k]) /\ b \in ToSet(H[k].bytes)
    BY <1>1, BytesMember
  <2>2. k \in 1 .. Len(L) /\ IsLossless(L[k]) /\ b \in ToSet(L[k].bytes)
    BY <1>2, <1>4, <2>1
  <2> QED BY <1>2, <2>2, BytesMember
<1>11. ASSUME NEW b \in BytesOf(W) PROVE kinds[b] = "motion" \/ b \in KeptBytes(L)
  <2>1. PICK k \in 1 .. Len(W) : b \in ToSet(W[k].bytes)
    BY <1>1, BytesMember
  <2>2. Decoded(kinds, W[k]) /\ W[k] \in AnyEvents
    BY <1>1, ElementTyped DEF DecodedSeq
  <2>3. CASE IsMotion(W[k])
    <3> DEFINE x == W[k].bytes
    <3>1. x \in Seq(1 .. InputLength) /\ ToSet(x) = {x[i] : i \in 1 .. Len(x)} /\ Len(x) = 1
          /\ kinds[x[1]] = "motion" /\ b \in ToSet(x)
      BY <2>1, <2>2, <2>3, EventBytes DEF Decoded
    <3> HIDE DEF x
    <3>2. b = x[1]
      BY <3>1
    <3> QED BY <3>1, <3>2
  <2>4. CASE IsLossless(W[k])
    <3>1. Len(H) + k \in 1 .. Len(L) /\ L[Len(H) + k] = W[k]
      BY <1>2, <1>4
    <3> QED BY <1>2, <2>1, <2>4, <3>1, BytesMember
  <2>5. IsMotion(W[k]) \/ IsLossless(W[k])
    BY <2>2 DEF Decoded, MotionEvents, KeyEvents, IsMotion, IsLossless
  <2> QED BY <2>3, <2>4, <2>5
<1>12. \A b \in 1 .. n : \/ b \in D \/ kinds[b] = "motion"
                         \/ b \in KeptBytes(L) \cup P \cup R
  BY <1>1, <1>10, <1>11 DEF Placed, Newer
<1> QED BY <1>6, <1>7, <1>9, <1>10, <1>12 DEF KeptOnLine

(* The bytes that wait for the parser, and those that wait to be pushed. *)
LEMMA UnparsedKept ==
    ASSUME NEW p \in Seq(Bytes), NEW q \in Seq(Bytes), NEW r, r = p \o q,
           Len(p) <= 1, Ascending(q), Before(ToSet(p), ToSet(q))
    PROVE  /\ DOMAIN r = 1 .. Len(r) /\ Ascending(r)
           /\ \A k \in 1 .. Len(r) : r[k] \in ToSet(p) \cup ToSet(q)
<1>1. Joined(Bytes, p, q, r)
  BY Concatenated
<1>2. /\ r \in Seq(Bytes) /\ Len(r) = Len(p) + Len(q) /\ Len(p) \in Nat /\ Len(q) \in Nat
      /\ \A k \in 1 .. Len(p) : r[k] = p[k]
      /\ \A k \in 1 .. Len(q) : r[Len(p) + k] = q[k]
  BY <1>1 DEF Joined
<1>3. DOMAIN r = 1 .. Len(r) /\ DOMAIN q = 1 .. Len(q)
      /\ ToSet(p) = {p[i] : i \in 1 .. Len(p)} /\ ToSet(q) = {q[i] : i \in 1 .. Len(q)}
  BY <1>2, ElementsOf
<1>4. ASSUME NEW k \in 1 .. Len(r)
      PROVE  \/ k \in 1 .. Len(p) /\ r[k] = p[k] /\ r[k] \in ToSet(p)
             \/ /\ k \notin 1 .. Len(p) /\ k - Len(p) \in 1 .. Len(q)
                /\ r[k] = q[k - Len(p)] /\ r[k] \in ToSet(q)
  <2>1. CASE k \in 1 .. Len(p)
    BY <1>2, <1>3, <2>1
  <2>2. CASE k \notin 1 .. Len(p)
    <3>1. k - Len(p) \in 1 .. Len(q) /\ Len(p) + (k - Len(p)) = k
      BY <1>2, <2>2
    <3>2. r[k] = q[k - Len(p)]
      BY <1>2, <3>1
    <3> QED BY <1>3, <2>2, <3>1, <3>2
  <2> QED BY <2>1, <2>2
<1>5. Ascending(r)
  <2> SUFFICES ASSUME NEW k \in 1 .. Len(r), NEW l \in 1 .. Len(r), k < l PROVE r[k] < r[l]
    BY <1>3 DEF Ascending
  <2>1. l \notin 1 .. Len(p)
    BY <1>2
  <2>2. l - Len(p) \in 1 .. Len(q) /\ r[l] = q[l - Len(p)] /\ r[l] \in ToSet(q)
    BY <1>4, <2>1
  <2>3. CASE k \in 1 .. Len(p)
    <3>1. r[k] \in ToSet(p)
      BY <1>4, <2>3
    <3> QED BY <2>2, <3>1 DEF Before
  <2>4. CASE k \notin 1 .. Len(p)
    <3>1. k - Len(p) \in 1 .. Len(q) /\ r[k] = q[k - Len(p)] /\ k - Len(p) < l - Len(p)
      BY <1>2, <1>4, <2>4
    <3> QED BY <1>3, <2>2, <3>1 DEF Ascending
  <2> QED BY <2>3, <2>4
<1> QED BY <1>3, <1>4, <1>5

(* A decoded event whose bytes have been read. *)
LEMMA DecodedInput ==
    ASSUME NEW e, Decoded(input, e), ToSet(e.bytes) \subseteq 1 .. received
    PROVE  InputEvent(e)
<1>1. e \in AnyEvents /\ Len(e.bytes) \in 1 .. 2 /\ e.kind \in {"key", "motion", "sequence"}
  BY DEF Decoded, AnyEvents, KeyEvents, MotionEvents
<1>2. /\ DOMAIN e.bytes = 1 .. Len(e.bytes)
      /\ ToSet(e.bytes) = {e.bytes[i] : i \in 1 .. Len(e.bytes)}
  BY <1>1, EventBytes
<1>3. \A i \in DOMAIN e.bytes : e.bytes[i] \in 1 .. received
  BY <1>2
<1> QED BY <1>1, <1>3 DEF InputEvent

(* The part of the type invariant that is about events. *)
LEMMA KeptTypes ==
    ASSUME KeptInv
    PROVE  /\ received \in 0 .. InputLength /\ length \in 0 .. QueueCapacity
           /\ \A i \in DOMAIN parsed : InputEvent(parsed[i])
           /\ pending # None => InputEvent(pending)
<1>1. /\ received \in 0 .. InputLength /\ length \in 0 .. QueueCapacity
      /\ parsed \in Seq(AnyEvents) /\ pending \in AnyEvents \cup {None}
      /\ DecodedSeq(input, Waiting) /\ BytesOf(Waiting) \subseteq 1 .. received
  BY DEF KeptInv, Kept, Placed, QueueShape, Ring
<1>2. ASSUME NEW k \in 1 .. Len(Waiting) PROVE InputEvent(Waiting[k])
  <2>1. Waiting \in Seq(AnyEvents) /\ Decoded(input, Waiting[k])
    BY <1>1 DEF DecodedSeq
  <2>2. ToSet(Waiting[k].bytes) \subseteq 1 .. received
    BY <1>1, <2>1, BytesMember
  <2> QED BY <2>1, <2>2, DecodedInput
<1>3. DOMAIN parsed = 1 .. Len(parsed)
  BY <1>1
<1>4. CASE pending = None
  <2>1. Waiting = parsed
    BY <1>1, <1>4, WaitingIs
  <2> QED BY <1>1, <1>2, <1>3, <1>4, <2>1
<1>5. CASE pending # None
  <2>1. /\ Len(Waiting) = Len(parsed) + 1 /\ Len(parsed) \in Nat /\ Waiting[1] = pending
        /\ \A k \in 1 .. Len(parsed) : Waiting[k + 1] = parsed[k]
    BY <1>1, <1>5, WaitingIs DEF Led
  <2>2. 1 \in 1 .. Len(Waiting) /\ \A k \in 1 .. Len(parsed) : k + 1 \in 1 .. Len(Waiting)
    BY <2>1
  <2> QED BY <1>1, <1>2, <1>3, <2>1, <2>2
<1> QED BY <1>4, <1>5

(* The invariant implies the two properties of EventsKept. *)
LEMMA KeptImplies ==
    ASSUME KeptInv
    PROVE  KeptOnceInOrder /\ NewestMotionKept
<1> DEFINE P == ToSet(prefix)
           R == ToSet(readBuffer)
<1>1. /\ prefix \in Seq(Bytes) /\ Len(prefix) <= 1 /\ readBuffer \in Seq(Bytes)
      /\ Ascending(readBuffer) /\ Kept(input, Handed, Waiting, P, R, discarded, received)
  BY DEF KeptInv
<1>2. Handed \in Seq(AnyEvents) /\ Waiting \in Seq(AnyEvents) /\ received \in 0 .. InputLength
      /\ Before(P, R) /\ Placed(input, Handed, Waiting, P, R, discarded, received)
  BY <1>1 DEF Kept, EventSeq, DecodedSeq, Ordered
<1>3. Joined(AnyEvents, Handed, Waiting, Line)
  BY <1>2, Concatenated DEF Line
<1>4. Line \in Seq(AnyEvents) /\ DOMAIN Line = 1 .. Len(Line) /\ DOMAIN Handed = 1 .. Len(Handed)
  BY <1>2, <1>3 DEF Joined
<1>5. /\ KeptOnLine(input, Line, P, R, discarded, received)
      /\ KeptBytes(Handed) \subseteq KeptBytes(Line)
  <2> HIDE DEF P, R
  <2> QED BY <1>1, <1>3, LineKept
<1>6. Lossless = {k \in 1 .. Len(Line) : IsLossless(Line[k])}
  BY <1>4 DEF Lossless, IsLossless
<1>7. LosslessBytes = KeptBytes(Line) \cup P \cup R
  <2>1. ASSUME NEW b
        PROVE  b \in LosslessBytes <=>
                   (\E k \in Lossless : b \in ToSet(Line[k].bytes)) \/ b \in P \/ b \in R
    BY Zenon DEF LosslessBytes
  <2>2. ASSUME NEW b
        PROVE  b \in KeptBytes(Line) <=> \E k \in Lossless : b \in ToSet(Line[k].bytes)
    BY <1>4, <1>6, BytesMember
  <2> HIDE DEF P, R
  <2> QED BY <2>1, <2>2
<1>8. /\ DOMAIN (prefix \o readBuffer) = 1 .. Len(prefix \o readBuffer)
      /\ Ascending(prefix \o readBuffer)
      /\ \A k \in 1 .. Len(prefix \o readBuffer) : (prefix \o readBuffer)[k] \in P \cup R
  BY <1>1, <1>2, UnparsedKept
<1>9. ASSUME NEW k \in Lossless
      PROVE  /\ Ascending(Line[k].bytes) /\ Precedes(Line[k].bytes, prefix \o readBuffer)
             /\ \A l \in Lossless : k < l => Precedes(Line[k].bytes, Line[l].bytes)
  <2>1. k \in 1 .. Len(Line) /\ IsLossless(Line[k])
    BY <1>6
  <2>2. Ascending(Line[k].bytes) /\ Before(ToSet(Line[k].bytes), P \cup R)
    BY <1>5, <2>1 DEF KeptOnLine, Decoded
  <2>3. \A l \in 1 .. Len(Line) : \A i \in DOMAIN Line[l].bytes :
            Line[l].bytes[i] \in ToSet(Line[l].bytes)
    BY DEF ToSet
  <2>4. Precedes(Line[k].bytes, prefix \o readBuffer)
    BY <1>8, <2>1, <2>2, <2>3 DEF Precedes, Before
  <2>5. ASSUME NEW l \in Lossless, k < l PROVE Precedes(Line[k].bytes, Line[l].bytes)
    <3>1. l \in 1 .. Len(Line) /\ IsLossless(Line[l])
      BY <1>6
    <3>2. Before(ToSet(Line[k].bytes), ToSet(Line[l].bytes))
      BY <1>5, <2>1, <2>5, <3>1 DEF KeptOnLine, LosslessInOrder
    <3> QED BY <2>1, <2>3, <3>1, <3>2 DEF Precedes, Before
  <2> QED BY <2>2, <2>4, <2>5
<1>10. (1 .. received) \ (discarded \cup MotionBytes) \subseteq LosslessBytes
  <2> SUFFICES ASSUME NEW b \in 1 .. received, b \notin discarded, b \notin MotionBytes
               PROVE  b \in LosslessBytes
    OBVIOUS
  <2>1. b \in 1 .. InputLength
    BY <1>2, SizesAssumption
  <2>2. input[b] # "motion"
    BY <2>1 DEF MotionBytes
  <2> QED BY <1>5, <1>7, <2>2 DEF KeptOnLine
<1>11. KeptOnceInOrder
  BY <1>5, <1>7, <1>8, <1>9, <1>10 DEF KeptOnceInOrder, KeptOnLine
<1>12. NewestMotionKept
  <2> SUFFICES ASSUME NEW b \in MotionBytes \cap 1 .. received,
                      b \notin discarded \cup LosslessBytes \cup BytesOf(Waiting)
               PROVE  \E k \in DOMAIN Handed : Handed[k].kind = "motion" /\ b <= Handed[k].bytes[1]
    BY DEF NewestMotionKept
  <2>1. b \notin discarded \cup KeptBytes(Handed) \cup BytesOf(Waiting) \cup P \cup R
    BY <1>5, <1>7
  <2>2. Newer(input, Handed, b)
    <3> HIDE DEF P, R
    <3> QED BY <1>2, <2>1 DEF Placed
  <2> QED BY <1>4, <2>2 DEF Newer, IsMotion
<1> QED BY <1>11, <1>12

-----------------------------------------------------------------------------
(* The input pipeline: who waits for what, and when a prefix is flushed.     *)

(* The control of a call: it runs one drain at a time, and the drains around *)
(* a push belong to the three calls that push.                               *)
CallControl ==
    /\ call \in Calls \cup {None}
    /\ drain \in Drains \cup {None}
    /\ call = None <=> drain = None
    /\ drain \in {"admit", "chunk"} => call \in {"leftover", "fresh", "timeout"}

(* A deadline is stale only in the drains whose end, accepted or Full, sets  *)
(* it again; the update of the protocol context has no prefix to wait for.   *)
Armed ==
    /\ deadline \in 0 .. Timeout \cup {None}
    /\ drain \notin {"chunk", "afterFlush", "afterContext"} =>
          (deadline # None <=> prefix # <<>>)
    /\ drain = "afterContext" => prefix = <<>>

(* The flush comes after everything that was read. *)
PushedBeforeFlush == drain = "beforeFlush" => readBuffer = <<>>

(* The dispatcher waits only with an empty queue or with a notification on   *)
(* its way.                                                                  *)
Woken == dispatcher = "waiting" /\ length > 0 => notified

InputInv == CallControl /\ Armed /\ PushedBeforeFlush /\ Woken

USE DEF queue, parser, flow, control, dispatch

(* Nothing is read, pending or queued at first. *)
LEMMA InputInvInit == Init => InputInv
<1> SUFFICES ASSUME Init PROVE InputInv
  OBVIOUS
<1> USE NoneAssumption
<1>1. CallControl
  BY DEF Init, CallControl, Drains
<1>2. Armed
  BY DEF Init, Armed
<1>3. PushedBeforeFlush /\ Woken
  BY DEF Init, PushedBeforeFlush, Woken, Drains
<1> QED BY <1>1, <1>2, <1>3 DEF InputInv

(* Every step of a call keeps the invariant. *)
LEMMA CallStepKeeps == ASSUME InputInv, CallStep PROVE InputInv'
<1> USE NoneAssumption, SizesAssumption DEF InputInv
<1>1. CASE DrainTake
  BY <1>1 DEF DrainTake, CallControl, Armed, PushedBeforeFlush, Woken
<1>2. CASE DrainEmit
  BY <1>2 DEF DrainEmit, CallControl, Armed, PushedBeforeFlush, Woken
<1>3. CASE DrainFull
  <2>1. UNCHANGED <<prefix, readBuffer, dispatcher, length, notified>> /\ Return
    BY <1>3 DEF DrainFull
  <2>2. Armed'
    <3>1. CASE drain \in {"chunk", "afterFlush"}
      BY <1>3, <2>1, <3>1 DEF DrainFull, DeadlineAfterFull, Armed, Return, Drains
    <3>2. CASE drain = "afterContext"
      BY <1>3, <2>1, <3>2 DEF DrainFull, DeadlineAfterFull, Armed, Return, Drains
    <3>3. CASE drain \notin {"chunk", "afterFlush", "afterContext"}
      BY <1>3, <2>1, <3>3 DEF DrainFull, DeadlineAfterFull, Armed, Return, Drains
    <3> QED BY <3>1, <3>2, <3>3
  <2> QED BY <2>1, <2>2 DEF CallControl, PushedBeforeFlush, Woken, Return, Drains
<1>4. CASE PushChunk
  <2>1. /\ drain \in {"admit", "chunk"} /\ drain' = "chunk"
        /\ UNCHANGED <<call, deadline, dispatcher, length, notified>>
    BY <1>4 DEF PushChunk
  <2> QED BY <2>1 DEF CallControl, Armed, PushedBeforeFlush, Woken, Drains
<1>5. CASE PushAccepted
  <2>1. /\ drain = "chunk" /\ readBuffer = <<>> /\ RefreshDeadline
        /\ UNCHANGED <<prefix, readBuffer, dispatcher, length, notified>>
    BY <1>5 DEF PushAccepted
  <2>2. \/ call = "leftover" /\ drain' = "beforeRead" /\ call' = call
        \/ call = "fresh" /\ Return
        \/ call = "timeout" /\ drain' = "beforeFlush" /\ call' = call
    BY <1>5, <2>1 DEF PushAccepted, CallControl
  <2>3. CallControl'
    BY <2>2 DEF CallControl, Return, Drains, Calls
  <2>4. Armed'
    BY <2>1, <2>2 DEF Armed, RefreshDeadline, Return, Drains
  <2> QED BY <2>1, <2>3, <2>4 DEF PushedBeforeFlush, Woken
<1>6. CASE Suspend
  BY <1>6 DEF Suspend, Return, CallControl, Armed, PushedBeforeFlush, Woken, Drains
<1>7. CASE FlushTimeout
  <2>1. /\ drain' = "afterFlush" /\ drain = "beforeFlush"
        /\ UNCHANGED <<call, deadline, dispatcher, length, notified>>
    BY <1>7 DEF FlushTimeout
  <2> QED BY <2>1 DEF CallControl, Armed, PushedBeforeFlush, Woken, Drains
<1>8. CASE TimeoutReturns
  BY <1>8 DEF TimeoutReturns, RefreshDeadline, Return, CallControl, Armed,
              PushedBeforeFlush, Woken, Drains
<1>9. CASE ContextReturns
  BY <1>9 DEF ContextReturns, Return, CallControl, Armed, PushedBeforeFlush, Woken, Drains
<1> QED BY <1>1, <1>2, <1>3, <1>4, <1>5, <1>6, <1>7, <1>8, <1>9 DEF CallStep

(* So does every step of a fiber between the calls. *)
LEMMA FiberStepKeeps ==
    ASSUME InputInv,
           \/ Reader \/ Dispatcher \/ FireTimeout \/ UpdateProtocolContext
           \/ Reset \/ Tick \/ PushResize
    PROVE  InputInv'
<1> USE NoneAssumption, SizesAssumption DEF InputInv
<1>1. CASE ReadOnce \/ FireTimeout
  BY <1>1 DEF ReadOnce, FireTimeout, Call, Busy, CallControl, Armed, PushedBeforeFlush,
              Woken, Drains, Calls
<1>2. CASE ReadReturns
  BY <1>2 DEF ReadReturns, Call, Busy, CallControl, Armed, PushedBeforeFlush,
              Woken, Drains, Calls
<1>3. CASE ReadEnds
  BY <1>3 DEF ReadEnds, CallControl, Armed, PushedBeforeFlush, Woken
<1>4. CASE DispatchRead
  <2>1. UNCHANGED <<call, drain, deadline, prefix, readBuffer>> /\ dispatcher' = "handling"
    BY <1>4 DEF DispatchRead
  <2> QED BY <2>1 DEF CallControl, Armed, PushedBeforeFlush, Woken
<1>5. CASE DispatchHandled \/ DispatchWait \/ DispatchWake
  BY <1>5 DEF DispatchHandled, DispatchWait, DispatchWake, CallControl, Armed,
              PushedBeforeFlush, Woken
<1>6. CASE UpdateProtocolContext
  BY <1>6 DEF UpdateProtocolContext, Call, Busy, CallControl, Armed, PushedBeforeFlush,
              Woken, Drains, Calls
<1>7. CASE Reset
  BY <1>7 DEF Reset, Busy, CallControl, Armed, PushedBeforeFlush, Woken, Drains
<1>8. CASE Tick
  BY <1>8 DEF Tick, CallControl, Armed, PushedBeforeFlush, Woken
<1>9. CASE PushResize
  BY <1>9 DEF PushResize, CallControl, Armed, PushedBeforeFlush, Woken
<1> QED BY <1>1, <1>2, <1>3, <1>4, <1>5, <1>6, <1>7, <1>8, <1>9 DEF Reader, Dispatcher

(* The invariant holds in every reachable state. *)
LEMMA InputInvariant == Spec => []InputInv
<1>1. InputInv /\ UNCHANGED vars => InputInv'
  BY DEF InputInv, CallControl, Armed, PushedBeforeFlush, Woken, vars
<1>2. InputInv /\ [Next]_vars => InputInv'
  BY <1>1, CallStepKeeps, FiberStepKeeps DEF Next
<1> QED BY <1>2, InputInvInit, PTL DEF Spec

(* Nobody sleeps over work, for every size of the queue and of the buffers:  *)
(* a waiting dispatcher with an event to read has been notified, and between *)
(* calls a prefix is pending exactly when its timeout is armed, whichever    *)
(* drain a full queue cut short.                                             *)
THEOREM InputMissesNoEvent == Spec => []NoMissedEvent
<1>1. InputInv => NoMissedEvent
  <2> SUFFICES ASSUME InputInv PROVE NoMissedEvent
    OBVIOUS
  <2>1. ~Busy => (deadline # None <=> prefix # <<>>)
    BY NoneAssumption DEF InputInv, CallControl, Armed, Busy, Drains
  <2> QED BY <2>1 DEF InputInv, Woken, NoMissedEvent, TimeoutArmed
<1> QED BY <1>1, InputInvariant, PTL

(* Backpressure loses, duplicates and reorders nothing, for every input and  *)
(* every size of the buffers and of the queue: each byte read is in exactly  *)
(* one place and in the order it was typed, but for the coalesced motions,   *)
(* whose newest is kept, and what reset discarded.                           *)
THEOREM InputKeepsEvents == Spec => []EventsKept
<1>1. KeptInv /\ InputInv => EventsKept
  <2> SUFFICES ASSUME KeptInv, InputInv PROVE EventsKept
    OBVIOUS
  <2>1. InputTypeOK
    BY KeptTypes DEF InputTypeOK, KeptInv, InputInv, CallControl, Armed
  <2> QED BY <2>1, KeptImplies DEF EventsKept
<1>2. Spec => []KeptInv
  <2>1. KeptInv /\ [Next]_vars => KeptInv'
    BY KeptStep
  <2> QED BY <2>1, KeptInit, PTL DEF Spec
<1> QED BY <1>1, <1>2, InputInvariant, PTL

(* A timeout never splits a sequence whose next byte was already read.       *)
THEOREM InputSplitsNoSequence == Spec => NoSplitSequence
<1>1. ASSUME InputInv, Next, prefix # <<>>, prefix' = <<>>, drain' = "afterFlush"
      PROVE  readBuffer = <<>>
  <2> USE NoneAssumption DEF InputInv
  <2>1. CASE FlushTimeout
    BY <1>1, <2>1 DEF FlushTimeout, PushedBeforeFlush
  <2>2. CASE DrainTake \/ DrainEmit \/ DrainFull \/ PushChunk \/ Suspend
    BY <1>1, <2>2 DEF DrainTake, DrainEmit, DrainFull, PushChunk, Suspend, Return, Drains
  <2>3. CASE PushAccepted \/ TimeoutReturns \/ ContextReturns
    BY <1>1, <2>3 DEF PushAccepted, TimeoutReturns, ContextReturns
  <2>4. CASE Reader \/ FireTimeout
    BY <1>1, <2>4 DEF Reader, ReadOnce, ReadReturns, ReadEnds, FireTimeout
  <2>5. CASE Dispatcher
    BY <1>1, <2>5 DEF Dispatcher, DispatchRead, DispatchHandled, DispatchWait, DispatchWake
  <2>6. CASE UpdateProtocolContext
    BY <1>1, <2>6 DEF UpdateProtocolContext, Call
  <2>7. CASE Reset
    BY <1>1, <2>7 DEF Reset, Busy, CallControl, Drains
  <2>8. CASE Tick \/ PushResize
    BY <1>1, <2>8 DEF Tick, PushResize
  <2> QED BY <1>1, <2>1, <2>2, <2>3, <2>4, <2>5, <2>6, <2>7, <2>8 DEF Next, CallStep
<1>2. InputInv /\ [Next]_vars =>
        [prefix # <<>> /\ prefix' = <<>> /\ drain' = "afterFlush" => readBuffer = <<>>]_vars
  BY <1>1
<1> QED BY <1>2, InputInvariant, PTL DEF Spec, NoSplitSequence

-----------------------------------------------------------------------------
(***************************************************************************)
(* The span feeds: their ownership protocol, for every capacity of the     *)
(* tables and every generation limit.                                      *)
(*                                                                         *)
(* The inductive invariant FeedInv has a part for the feeds, one for the   *)
(* spans and one for the reservations.  Each part is an operator of the    *)
(* tables and streams it is about, so that it can be stated of the state   *)
(* after cleanup_feed_pending, which no variable holds: an operation is    *)
(* the clean-up, which keeps every part (CleanUpKeeps), followed by one    *)
(* change (a slot dropped, added, closed or created) that a lemma of its   *)
(* own shows to keep the part.                                             *)
(*                                                                         *)
(* Beyond what the run checks, FeedInv says what is pending: the span      *)
(* (reservation) an interrupted delivery left in a feed's slot is in a     *)
(* live slot of that feed and in no client's hands, and live feeds have    *)
(* different open streams, each created before.                            *)
(***************************************************************************)

(* The types of the slots, the streams and the objects.                      *)
FeedSlots == [generation : 0 .. MaxGeneration, alive : BOOLEAN, stream : 0 .. MaxStreams,
              pendingSpan : SpanTokens \cup {NoToken}, pendingInfo : 0 .. MaxSpans,
              pendingReservation : ReservationTokens \cup {NoToken}]
SpanSlots == [generation : 0 .. MaxGeneration, alive : BOOLEAN,
              feed : FeedTokens \cup {NoToken}, info : 0 .. MaxSpans]
ReservationSlots == [generation : 0 .. MaxGeneration, alive : BOOLEAN,
                     feed : FeedTokens \cup {NoToken}]
Streams == [open : BOOLEAN, published : 0 .. MaxSpans, drained : 0 .. MaxSpans,
            outstanding : SUBSET SpanInfos, reserved : BOOLEAN, overReleased : BOOLEAN]
FeedObjects == [token : FeedTokens, stream : StreamIds]
SpanObjects == [token : SpanTokens, feed : FeedTokens, info : SpanInfos]
ReservationObjects == [token : ReservationTokens, feed : FeedTokens]

(* Feed tables F, span tables S, reservation tables R, streams T; the feed   *)
(* objects O, the spans held H and the reservations staged G.                *)

TokenOf(F, i) == make_token(i, F[i].generation)

(* Feeds: every live slot has an open stream of its own.                     *)
FeedsTyped(F, T, c, O, W) ==
    /\ F \in [FeedIndexes -> FeedSlots]
    /\ T \in [StreamIds -> Streams]
    /\ c \in 0 .. MaxStreams
    /\ O \subseteq FeedObjects
    /\ W \subseteq 1 .. c

StreamsOpen(F, T, c, W) ==
    /\ \A i \in FeedIndexes : F[i].alive => F[i].stream \in 1 .. c /\ T[F[i].stream].open
    /\ \A s \in W : T[s].open

StreamsOwn(F) ==
    \A i, j \in FeedIndexes :
        F[i].alive /\ F[j].alive /\ F[i].stream = F[j].stream => i = j

FeedsResolve(F, O) ==
    \A f \in O : Resolves(F, f.token) /\ F[f.token[1]].stream = f.stream

FeedPart(F, T, c, O, W) ==
    FeedsTyped(F, T, c, O, W) /\ StreamsOpen(F, T, c, W) /\ StreamsOwn(F) /\ FeedsResolve(F, O)

(* A stream drains what it has published and keeps only what it has drained. *)
DrainsInOrder(T) ==
    \A s \in StreamIds :
        T[s].drained <= T[s].published /\ \A x \in T[s].outstanding : x <= T[s].drained

(* Spans. *)
SpansTyped(S, H) == S \in [SpanIndexes -> SpanSlots] /\ H \subseteq SpanObjects

SpansHome(F, S, T) ==
    \A k \in SpanIndexes :
        S[k].alive => /\ Resolves(F, S[k].feed)
                      /\ S[k].info \in T[F[S[k].feed[1]].stream].outstanding

SpansOnce(S) ==
    \A k, l \in SpanIndexes :
        S[k].alive /\ S[l].alive /\ S[k].feed = S[l].feed /\ S[k].info = S[l].info => k = l

SpansKept(F, S, T) ==
    \A i \in FeedIndexes :
        F[i].alive =>
            /\ ~T[F[i].stream].overReleased
            /\ \A x \in T[F[i].stream].outstanding :
                  \E k \in SpanIndexes :
                      S[k].alive /\ S[k].feed = TokenOf(F, i) /\ S[k].info = x

SpansPending(F, S, H) ==
    \A i \in FeedIndexes :
        F[i].pendingSpan # NoToken =>
            /\ F[i].alive
            /\ Resolves(S, F[i].pendingSpan)
            /\ S[F[i].pendingSpan[1]].feed = TokenOf(F, i)
            /\ S[F[i].pendingSpan[1]].info = F[i].pendingInfo
            /\ \A h \in H : h.token # F[i].pendingSpan

SpansHeld(S, H) ==
    \A h \in H : /\ Resolves(S, h.token)
                 /\ S[h.token[1]].feed = h.feed
                 /\ S[h.token[1]].info = h.info

SpanPart(F, S, T, H) ==
    /\ SpansTyped(S, H)
    /\ SpansHome(F, S, T)
    /\ SpansOnce(S)
    /\ SpansKept(F, S, T)
    /\ SpansPending(F, S, H)
    /\ SpansHeld(S, H)

(* Reservations. *)
ReservationsTyped(R, G) ==
    R \in [ReservationIndexes -> ReservationSlots] /\ G \subseteq ReservationObjects

ReservationsHome(F, R, T) ==
    \A k \in ReservationIndexes :
        R[k].alive => Resolves(F, R[k].feed) /\ T[F[R[k].feed[1]].stream].reserved

ReservationsOnce(R) ==
    \A k, l \in ReservationIndexes :
        R[k].alive /\ R[l].alive /\ R[k].feed = R[l].feed => k = l

ReservationsKept(F, R, T) ==
    \A i \in FeedIndexes :
        F[i].alive /\ T[F[i].stream].reserved =>
            \E k \in ReservationIndexes : R[k].alive /\ R[k].feed = TokenOf(F, i)

ReservationsPending(F, R, G) ==
    \A i \in FeedIndexes :
        F[i].pendingReservation # NoToken =>
            /\ F[i].alive
            /\ Resolves(R, F[i].pendingReservation)
            /\ R[F[i].pendingReservation[1]].feed = TokenOf(F, i)
            /\ \A r \in G : r.token # F[i].pendingReservation

ReservationsStaged(R, G) ==
    \A r \in G : Resolves(R, r.token) /\ R[r.token[1]].feed = r.feed

ReservationPart(F, R, T, G) ==
    /\ ReservationsTyped(R, G)
    /\ ReservationsHome(F, R, T)
    /\ ReservationsOnce(R)
    /\ ReservationsKept(F, R, T)
    /\ ReservationsPending(F, R, G)
    /\ ReservationsStaged(R, G)

FeedInv ==
    /\ FeedPart(feedSlots, streams, created, feeds, renderers)
    /\ DrainsInOrder(streams)
    /\ SpanPart(feedSlots, spanSlots, streams, held)
    /\ ReservationPart(feedSlots, resSlots, streams, staged)

-----------------------------------------------------------------------------
(* The steps, as relations between the old tables and streams and the new    *)
(* ones.  F2 is F but for what is pending (SameFeeds), or for slot i         *)
(* (OthersSame).                                                             *)
SameFeeds(F, F2) ==
    /\ DOMAIN F = FeedIndexes /\ DOMAIN F2 = FeedIndexes
    /\ \A j \in FeedIndexes : /\ F2[j].alive = F[j].alive
                              /\ F2[j].generation = F[j].generation
                              /\ F2[j].stream = F[j].stream

SamePendingSpan(F, F2, j) ==
    /\ F2[j].pendingSpan = F[j].pendingSpan
    /\ F[j].pendingSpan # NoToken => F2[j].pendingInfo = F[j].pendingInfo

OthersSame(F, F2, i) ==
    /\ DOMAIN F = FeedIndexes /\ DOMAIN F2 = FeedIndexes
    /\ \A j \in FeedIndexes \ {i} : F2[j] = F[j]

SameSpans(T, T2, s) ==
    T2[s].outstanding = T[s].outstanding /\ (T2[s].overReleased => T[s].overReleased)

SpanFramed(F, S, T, H, F2, T2) ==
    /\ SpanPart(F, S, T, H)
    /\ SameFeeds(F, F2)
    /\ \A j \in FeedIndexes : SamePendingSpan(F, F2, j)
    /\ \A j \in FeedIndexes : F[j].alive => SameSpans(T, T2, F[j].stream)

(* The part on spans survives a step that keeps the table of spans, what     *)
(* is pending and what the streams of live feeds keep.                       *)
LEMMA SpanFrame ==
    ASSUME NEW F, NEW S, NEW T, NEW H, NEW F2, NEW T2,
           SpanFramed(F, S, T, H, F2, T2)
    PROVE  SpanPart(F2, S, T2, H)
  <1> USE DEF SpanFramed, SpanPart, SameFeeds, SamePendingSpan, SameSpans
  <1>1. SpansHome(F2, S, T2)
    BY DEF SpansHome, Resolves
  <1>2. SpansKept(F2, S, T2)
    BY DEF SpansKept, TokenOf
  <1>3. SpansPending(F2, S, H)
    BY DEF SpansPending, TokenOf
  <1> QED
    BY <1>1, <1>2, <1>3

SpanDropped(F, S, T, H, i, k, F2, S2, T2, H2) ==
    /\ SpanPart(F, S, T, H)
    /\ i \in FeedIndexes
    /\ F[i].alive
    /\ k \in SpanIndexes
    /\ S[k].alive
    /\ S[k].feed = TokenOf(F, i)
    /\ F[i].pendingSpan \in {NoToken, make_token(k, S[k].generation)}
    /\ SameFeeds(F, F2)
    /\ F2[i].pendingSpan = NoToken
    /\ \A j \in FeedIndexes \ {i} : SamePendingSpan(F, F2, j)
    /\ S2 \in [SpanIndexes -> SpanSlots]
    /\ ~S2[k].alive
    /\ \A l \in SpanIndexes \ {k} : S2[l] = S[l]
    /\ \A j \in FeedIndexes \ {i} : F[j].alive => SameSpans(T, T2, F[j].stream)
    /\ T2[F[i].stream].outstanding = T[F[i].stream].outstanding \ {S[k].info}
    /\ T2[F[i].stream].overReleased =>
          T[F[i].stream].overReleased \/ S[k].info \notin T[F[i].stream].outstanding
    /\ H2 \subseteq H
    /\ \A h \in H2 : h.token # make_token(k, S[k].generation)

(* It survives the release of one span: slot k dies, the stream of its       *)
(* feed forgets exactly its span.                                            *)
LEMMA SpanDrop ==
    ASSUME NEW F, NEW S, NEW T, NEW H, NEW i, NEW k, NEW F2, NEW S2, NEW T2, NEW H2,
           SpanDropped(F, S, T, H, i, k, F2, S2, T2, H2)
    PROVE  SpanPart(F2, S2, T2, H2)
  <1> USE DEF SpanDropped, SpanPart, SameFeeds
  <1>0. /\ S \in [SpanIndexes -> SpanSlots]
        /\ \A h \in H : h \in SpanObjects /\ h.token \in SpanTokens
    BY DEF SpansTyped, SpanObjects
  <1>1. SpansTyped(S2, H2)
    BY DEF SpansTyped
  <1>2. S[k].info \in T[F[i].stream].outstanding
    BY DEF SpansHome, TokenOf, make_token
  <1>3. SpansHome(F2, S2, T2)
    <2> SUFFICES ASSUME NEW l \in SpanIndexes, S2[l].alive
                 PROVE  /\ Resolves(F2, S2[l].feed)
                        /\ S2[l].info \in T2[F2[S2[l].feed[1]].stream].outstanding
      BY DEF SpansHome
    <2>1. l # k /\ S2[l] = S[l] /\ S[l].alive
      OBVIOUS
    <2>2. /\ Resolves(F, S[l].feed)
          /\ S[l].info \in T[F[S[l].feed[1]].stream].outstanding
      BY <2>1 DEF SpansHome
    <2>3. Resolves(F2, S2[l].feed)
      BY <2>1, <2>2 DEF Resolves
    <2>4. CASE S[l].feed[1] = i
      <3>1. S[l].feed = S[k].feed
        <4>1. S[l] \in SpanSlots /\ S[l].feed \in FeedTokens \cup {NoToken}
          BY <1>0 DEF SpanSlots
        <4>2. S[l].feed = <<S[l].feed[1], S[l].feed[2]>>
          BY <4>1 DEF FeedTokens, Tokens, NoToken
        <4> QED
          BY <2>2, <2>4, <4>2 DEF TokenOf, make_token, Resolves
      <3>2. S[l].info # S[k].info
        BY <2>1, <3>1, SMTT(40) DEF SpansOnce
      <3> QED
        BY <2>1, <2>2, <2>3, <2>4, <3>2
    <2>5. CASE S[l].feed[1] # i
      <3>1. S[l].feed[1] \in FeedIndexes \ {i} /\ F[S[l].feed[1]].alive
        BY <2>2, <2>5 DEF Resolves
      <3> QED
        BY <2>1, <2>2, <2>3, <3>1 DEF SameSpans
    <2> QED
      BY <2>4, <2>5
  <1>4. SpansOnce(S2)
    BY DEF SpansOnce
  <1>5. SpansKept(F2, S2, T2)
    <2> SUFFICES ASSUME NEW j \in FeedIndexes, F2[j].alive
                 PROVE  /\ ~T2[F2[j].stream].overReleased
                        /\ \A x \in T2[F2[j].stream].outstanding :
                              \E l \in SpanIndexes :
                                  S2[l].alive /\ S2[l].feed = TokenOf(F2, j) /\ S2[l].info = x
      BY DEF SpansKept
    <2>1. /\ F[j].alive /\ TokenOf(F2, j) = TokenOf(F, j) /\ F2[j].stream = F[j].stream
      BY DEF TokenOf
    <2>2. /\ ~T[F[j].stream].overReleased
          /\ \A x \in T[F[j].stream].outstanding :
                \E l \in SpanIndexes :
                    S[l].alive /\ S[l].feed = TokenOf(F, j) /\ S[l].info = x
      BY <2>1 DEF SpansKept
    <2>3. CASE j = i
      <3>1. ~T2[F2[j].stream].overReleased
        BY <1>2, <2>1, <2>2, <2>3
      <3>2. ASSUME NEW x \in T2[F2[j].stream].outstanding
            PROVE  \E l \in SpanIndexes :
                       S2[l].alive /\ S2[l].feed = TokenOf(F2, j) /\ S2[l].info = x
        <4>1. x \in T[F[j].stream].outstanding /\ x # S[k].info
          BY <2>1, <2>3, <3>2
        <4>2. PICK l \in SpanIndexes : S[l].alive /\ S[l].feed = TokenOf(F, j) /\ S[l].info = x
          BY <2>2, <4>1
        <4> QED
          BY <2>1, <4>1, <4>2
      <3> QED
        BY <3>1, <3>2
    <2>4. CASE j # i
      <3>1. SameSpans(T, T2, F[j].stream)
        BY <2>1, <2>4
      <3>2. TokenOf(F, j) # S[k].feed
        BY <2>4 DEF TokenOf, make_token
      <3> QED
        BY <2>1, <2>2, <3>1, <3>2 DEF SameSpans
    <2> QED
      BY <2>3, <2>4
  <1>6. SpansPending(F2, S2, H2)
    <2> SUFFICES ASSUME NEW j \in FeedIndexes, F2[j].pendingSpan # NoToken
                 PROVE  /\ F2[j].alive
                        /\ Resolves(S2, F2[j].pendingSpan)
                        /\ S2[F2[j].pendingSpan[1]].feed = TokenOf(F2, j)
                        /\ S2[F2[j].pendingSpan[1]].info = F2[j].pendingInfo
                        /\ \A h \in H2 : h.token # F2[j].pendingSpan
      BY DEF SpansPending
    <2>1. j # i /\ SamePendingSpan(F, F2, j) /\ TokenOf(F2, j) = TokenOf(F, j)
      BY DEF TokenOf
    <2>2. /\ F[j].alive
          /\ Resolves(S, F[j].pendingSpan)
          /\ S[F[j].pendingSpan[1]].feed = TokenOf(F, j)
          /\ S[F[j].pendingSpan[1]].info = F[j].pendingInfo
          /\ \A h \in H : h.token # F[j].pendingSpan
      BY <2>1 DEF SpansPending, SamePendingSpan
    <2>3. F[j].pendingSpan[1] # k
      BY <2>1, <2>2 DEF TokenOf, make_token
    <2>4. F[j].pendingSpan[1] \in SpanIndexes \ {k}
      BY <1>0, <2>2, <2>3 DEF Resolves
    <2> QED
      BY <1>0, <2>1, <2>2, <2>4 DEF Resolves, SamePendingSpan
  <1>7. SpansHeld(S2, H2)
    <2> SUFFICES ASSUME NEW h \in H2
                 PROVE  /\ Resolves(S2, h.token)
                        /\ S2[h.token[1]].feed = h.feed
                        /\ S2[h.token[1]].info = h.info
      BY DEF SpansHeld
    <2>1. /\ Resolves(S, h.token) /\ S[h.token[1]].feed = h.feed /\ S[h.token[1]].info = h.info
      BY DEF SpansHeld
    <2>2. h.token = <<h.token[1], h.token[2]>>
      BY <1>0 DEF SpanTokens, Tokens
    <2>3. h.token[1] # k
      BY <2>1, <2>2 DEF Resolves, make_token
    <2> QED
      BY <1>0, <2>1, <2>3 DEF Resolves
  <1> QED
    BY <1>1, <1>3, <1>4, <1>5, <1>6, <1>7

SpanAdded(F, S, T, H, i, k, x, F2, S2, T2, h, H2) ==
    /\ SpanPart(F, S, T, H)
    /\ i \in FeedIndexes
    /\ F[i].alive
    /\ F[i].pendingSpan = NoToken
    /\ k \in SpanIndexes
    /\ ~S[k].alive
    /\ x \in SpanInfos
    /\ x \notin T[F[i].stream].outstanding
    /\ SameFeeds(F, F2)
    /\ \A j \in FeedIndexes \ {i} : SamePendingSpan(F, F2, j)
    /\ S2 \in [SpanIndexes -> SpanSlots]
    /\ S2[k].alive
    /\ S2[k].feed = TokenOf(F, i)
    /\ S2[k].info = x
    /\ \A l \in SpanIndexes \ {k} : S2[l] = S[l]
    /\ \A j \in FeedIndexes \ {i} : F[j].alive => SameSpans(T, T2, F[j].stream)
    /\ T2[F[i].stream].outstanding = T[F[i].stream].outstanding \cup {x}
    /\ T2[F[i].stream].overReleased => T[F[i].stream].overReleased
    /\ h \in SpanObjects
    /\ h.token = make_token(k, S2[k].generation)
    /\ h.feed = TokenOf(F, i)
    /\ h.info = x
    /\ \/ F2[i].pendingSpan = NoToken /\ H2 = H \cup {h}
       \/ F2[i].pendingSpan = h.token /\ F2[i].pendingInfo = x /\ H2 = H

(* It survives the delivery of one span, to a client or to the pending       *)
(* fields: slot k takes a span the stream did not keep before.               *)
LEMMA SpanAdd ==
    ASSUME NEW F, NEW S, NEW T, NEW H, NEW i, NEW k, NEW x, NEW F2, NEW S2, NEW T2, NEW h, NEW H2,
           SpanAdded(F, S, T, H, i, k, x, F2, S2, T2, h, H2)
    PROVE  SpanPart(F2, S2, T2, H2)
  <1> USE DEF SpanAdded, SpanPart, SameFeeds
  <1>0. /\ S \in [SpanIndexes -> SpanSlots]
        /\ \A g \in H : g \in SpanObjects /\ g.token \in SpanTokens
        /\ h.token[1] = k /\ h.token[2] = S2[k].generation
    BY DEF SpansTyped, SpanObjects, make_token
  <1>1. SpansTyped(S2, H2)
    BY DEF SpansTyped
  <1>2. SpansHome(F2, S2, T2)
    <2> SUFFICES ASSUME NEW l \in SpanIndexes, S2[l].alive
                 PROVE  /\ Resolves(F2, S2[l].feed)
                        /\ S2[l].info \in T2[F2[S2[l].feed[1]].stream].outstanding
      BY DEF SpansHome
    <2>1. CASE l = k
      BY <2>1, SMTT(40) DEF Resolves, TokenOf, make_token
    <2>2. CASE l # k
      <3>1. /\ S2[l] = S[l] /\ S[l].alive
            /\ Resolves(F, S[l].feed)
            /\ S[l].info \in T[F[S[l].feed[1]].stream].outstanding
        BY <2>2 DEF SpansHome
      <3>2. Resolves(F2, S2[l].feed)
        BY <3>1 DEF Resolves
      <3>3. S[l].feed[1] \in FeedIndexes /\ F[S[l].feed[1]].alive
        BY <3>1, SMTT(40) DEF Resolves
      <3>4. S[l].info \in T2[F[S[l].feed[1]].stream].outstanding
        BY <3>1, <3>3 DEF SameSpans
      <3> QED
        BY <3>1, <3>2, <3>3, <3>4
    <2> QED
      BY <2>1, <2>2, SMTT(40)
  <1>3. SpansOnce(S2)
    <2>1. ASSUME NEW l \in SpanIndexes, l # k, S2[l].alive, S2[l].feed = S2[k].feed
          PROVE  S2[l].info # x
      <3>1. /\ S2[l] = S[l] /\ S[l].alive
            /\ S[l].info \in T[F[S[l].feed[1]].stream].outstanding
        BY <2>1 DEF SpansHome
      <3>2. S[l].feed[1] = i
        BY <2>1, <3>1 DEF TokenOf, make_token
      <3> QED
        BY <3>1, <3>2
    <2> QED
      BY <2>1 DEF SpansOnce
  <1>4. SpansKept(F2, S2, T2)
    <2> SUFFICES ASSUME NEW j \in FeedIndexes, F2[j].alive
                 PROVE  /\ ~T2[F2[j].stream].overReleased
                        /\ \A y \in T2[F2[j].stream].outstanding :
                              \E l \in SpanIndexes :
                                  S2[l].alive /\ S2[l].feed = TokenOf(F2, j) /\ S2[l].info = y
      BY DEF SpansKept
    <2>1. F[j].alive /\ TokenOf(F2, j) = TokenOf(F, j) /\ F2[j].stream = F[j].stream
      BY DEF TokenOf
    <2>2. /\ ~T[F[j].stream].overReleased
          /\ \A y \in T[F[j].stream].outstanding :
                \E l \in SpanIndexes :
                    S[l].alive /\ S[l].feed = TokenOf(F, j) /\ S[l].info = y
      BY <2>1 DEF SpansKept
    <2>3. ~T2[F2[j].stream].overReleased
      BY <2>1, <2>2 DEF SameSpans
    <2>4. ASSUME NEW y \in T2[F2[j].stream].outstanding
          PROVE  \E l \in SpanIndexes :
                     S2[l].alive /\ S2[l].feed = TokenOf(F2, j) /\ S2[l].info = y
      <3>1. CASE y \in T[F[j].stream].outstanding
        <4>1. PICK l \in SpanIndexes : S[l].alive /\ S[l].feed = TokenOf(F, j) /\ S[l].info = y
          BY <2>2, <3>1
        <4>2. l # k /\ S2[l] = S[l]
          BY <4>1
        <4> QED
          BY <2>1, <4>1, <4>2
      <3>2. CASE y \notin T[F[j].stream].outstanding
        <4>1. j = i /\ y = x
          BY <2>1, <2>4, <3>2 DEF SameSpans
        <4> QED
          BY <2>1, <4>1
      <3> QED
        BY <3>1, <3>2
    <2> QED
      BY <2>3, <2>4
  <1>5. \A g \in H : g.token[1] # k /\ g.token # h.token
    BY <1>0 DEF SpansHeld, Resolves
  <1>6. SpansPending(F2, S2, H2)
    <2> SUFFICES ASSUME NEW j \in FeedIndexes, F2[j].pendingSpan # NoToken
                 PROVE  /\ F2[j].alive
                        /\ Resolves(S2, F2[j].pendingSpan)
                        /\ S2[F2[j].pendingSpan[1]].feed = TokenOf(F2, j)
                        /\ S2[F2[j].pendingSpan[1]].info = F2[j].pendingInfo
                        /\ \A g \in H2 : g.token # F2[j].pendingSpan
      BY DEF SpansPending
    <2>0. TokenOf(F2, j) = TokenOf(F, j)
      BY DEF TokenOf
    <2>1. CASE j = i
      <3>1. F2[i].pendingSpan = h.token /\ F2[i].pendingInfo = x /\ H2 = H
        BY <2>1
      <3> QED
        BY <1>0, <1>5, <2>0, <2>1, <3>1 DEF Resolves
    <2>2. CASE j # i
      <3>1. SamePendingSpan(F, F2, j)
        BY <2>2
      <3>2. /\ F[j].alive
            /\ Resolves(S, F[j].pendingSpan)
            /\ S[F[j].pendingSpan[1]].feed = TokenOf(F, j)
            /\ S[F[j].pendingSpan[1]].info = F[j].pendingInfo
            /\ \A g \in H : g.token # F[j].pendingSpan
        BY <3>1 DEF SpansPending, SamePendingSpan
      <3>3. F[j].pendingSpan[1] \in SpanIndexes \ {k}
        BY <1>0, <3>2 DEF Resolves
      <3>4. h.token # F[j].pendingSpan
        BY <1>0, <3>3
      <3> QED
        BY <1>0, <2>0, <3>1, <3>2, <3>3, <3>4 DEF Resolves, SamePendingSpan
    <2> QED
      BY <2>1, <2>2
  <1>7. SpansHeld(S2, H2)
    <2>1. /\ Resolves(S2, h.token) /\ S2[h.token[1]].feed = h.feed /\ S2[h.token[1]].info = h.info
      BY <1>0 DEF Resolves
    <2>2. ASSUME NEW g \in H
          PROVE  /\ Resolves(S2, g.token) /\ S2[g.token[1]].feed = g.feed
                 /\ S2[g.token[1]].info = g.info
      <3>1. /\ Resolves(S, g.token) /\ S[g.token[1]].feed = g.feed /\ S[g.token[1]].info = g.info
        BY DEF SpansHeld
      <3> QED
        BY <1>0, <1>5, <3>1 DEF Resolves
    <2> QED
      BY <2>1, <2>2 DEF SpansHeld
  <1> QED
    BY <1>1, <1>2, <1>3, <1>4, <1>6, <1>7

SpanClosed(F, S, T, H, i, F2, S2, T2, H2) ==
    /\ SpanPart(F, S, T, H)
    /\ i \in FeedIndexes
    /\ F[i].pendingSpan = NoToken
    /\ OthersSame(F, F2, i)
    /\ ~F2[i].alive
    /\ F2[i].pendingSpan = NoToken
    /\ S2 \in [SpanIndexes -> SpanSlots]
    /\ \A k \in SpanIndexes :
          IF S[k].alive /\ S[k].feed = TokenOf(F, i) THEN ~S2[k].alive ELSE S2[k] = S[k]
    /\ \A j \in FeedIndexes \ {i} : F[j].alive => SameSpans(T, T2, F[j].stream)
    /\ H2 = {h \in H : h.feed # TokenOf(F, i)}

(* It survives the end of a feed that takes every span slot of the feed      *)
(* with it.                                                                  *)
LEMMA SpanClose ==
    ASSUME NEW F, NEW S, NEW T, NEW H, NEW i, NEW F2, NEW S2, NEW T2, NEW H2,
           SpanClosed(F, S, T, H, i, F2, S2, T2, H2)
    PROVE  SpanPart(F2, S2, T2, H2)
  <1> USE DEF SpanClosed, SpanPart, OthersSame
  <1>0. /\ S \in [SpanIndexes -> SpanSlots]
        /\ \A j \in FeedIndexes \ {i} : /\ TokenOf(F2, j) = TokenOf(F, j)
                                        /\ TokenOf(F, j) # TokenOf(F, i)
    BY DEF SpansTyped, TokenOf, make_token
  <1>1. SpansTyped(S2, H2)
    BY DEF SpansTyped
  <1>2. \A k \in SpanIndexes : S2[k].alive => S2[k] = S[k] /\ S[k].feed # TokenOf(F, i)
    OBVIOUS
  <1>3. ASSUME NEW k \in SpanIndexes, S2[k].alive
        PROVE  /\ Resolves(F, S[k].feed) /\ S[k].feed[1] \in FeedIndexes \ {i}
               /\ F[S[k].feed[1]].alive
    <2>1. S[k].alive /\ Resolves(F, S[k].feed)
      BY <1>2, <1>3 DEF SpansHome
    <2>2. S[k].feed = <<S[k].feed[1], S[k].feed[2]>>
      <3>1. S[k].feed \in FeedTokens \cup {NoToken}
        BY <1>0, SMTT(40) DEF SpanSlots
      <3> QED
        BY <3>1 DEF FeedTokens, Tokens, NoToken
    <2> QED
      BY <1>2, <1>3, <2>1, <2>2 DEF Resolves, TokenOf, make_token
  <1>4. SpansHome(F2, S2, T2)
    <2> SUFFICES ASSUME NEW l \in SpanIndexes, S2[l].alive
                 PROVE  /\ Resolves(F2, S2[l].feed)
                        /\ S2[l].info \in T2[F2[S2[l].feed[1]].stream].outstanding
      BY DEF SpansHome
    <2>1. /\ S2[l] = S[l] /\ Resolves(F, S[l].feed) /\ S[l].feed[1] \in FeedIndexes \ {i}
          /\ F[S[l].feed[1]].alive /\ S[l].info \in T[F[S[l].feed[1]].stream].outstanding
      BY <1>2, <1>3 DEF SpansHome
    <2>2. F2[S[l].feed[1]] = F[S[l].feed[1]]
      BY <2>1
    <2> QED
      BY <2>1, <2>2 DEF Resolves, SameSpans
  <1>5. SpansOnce(S2)
    BY <1>2 DEF SpansOnce
  <1>6. SpansKept(F2, S2, T2)
    <2> SUFFICES ASSUME NEW j \in FeedIndexes, F2[j].alive
                 PROVE  /\ ~T2[F2[j].stream].overReleased
                        /\ \A y \in T2[F2[j].stream].outstanding :
                              \E l \in SpanIndexes :
                                  S2[l].alive /\ S2[l].feed = TokenOf(F2, j) /\ S2[l].info = y
      BY DEF SpansKept
    <2>1. j # i /\ F2[j] = F[j] /\ SameSpans(T, T2, F[j].stream)
      OBVIOUS
    <2>2. /\ ~T[F[j].stream].overReleased
          /\ \A y \in T[F[j].stream].outstanding :
                \E l \in SpanIndexes :
                    S[l].alive /\ S[l].feed = TokenOf(F, j) /\ S[l].info = y
      BY <2>1 DEF SpansKept
    <2> QED
      BY <1>0, <2>1, <2>2 DEF SameSpans
  <1>8. SpansPending(F2, S2, H2)
    <2> SUFFICES ASSUME NEW j \in FeedIndexes, F2[j].pendingSpan # NoToken
                 PROVE  /\ F2[j].alive
                        /\ Resolves(S2, F2[j].pendingSpan)
                        /\ S2[F2[j].pendingSpan[1]].feed = TokenOf(F2, j)
                        /\ S2[F2[j].pendingSpan[1]].info = F2[j].pendingInfo
                        /\ \A g \in H2 : g.token # F2[j].pendingSpan
      BY DEF SpansPending
    <2>1. j # i /\ F2[j] = F[j]
      OBVIOUS
    <2>2. /\ F[j].alive
          /\ Resolves(S, F[j].pendingSpan)
          /\ S[F[j].pendingSpan[1]].feed = TokenOf(F, j)
          /\ S[F[j].pendingSpan[1]].info = F[j].pendingInfo
          /\ \A g \in H : g.token # F[j].pendingSpan
      BY <2>1 DEF SpansPending
    <2>3. Resolves(S2, F[j].pendingSpan) /\ S2[F[j].pendingSpan[1]] = S[F[j].pendingSpan[1]]
      BY <1>0, <2>1, <2>2 DEF Resolves
    <2> QED
      BY <1>0, <2>1, <2>2, <2>3
  <1>9. SpansHeld(S2, H2)
    <2> SUFFICES ASSUME NEW h \in H, h.feed # TokenOf(F, i)
                 PROVE  /\ Resolves(S2, h.token)
                        /\ S2[h.token[1]].feed = h.feed
                        /\ S2[h.token[1]].info = h.info
      BY DEF SpansHeld
    <2>1. /\ Resolves(S, h.token) /\ S[h.token[1]].feed = h.feed /\ S[h.token[1]].info = h.info
      BY DEF SpansHeld
    <2>2. S2[h.token[1]] = S[h.token[1]] /\ h.token[1] \in SpanIndexes
      BY <1>0, <2>1 DEF Resolves
    <2> QED
      BY <1>0, <2>1, <2>2 DEF Resolves
  <1> QED
    BY <1>1, <1>4, <1>5, <1>6, <1>8, <1>9

SpanCreated(F, S, T, H, i, F2, T2) ==
    /\ SpanPart(F, S, T, H)
    /\ i \in FeedIndexes
    /\ ~F[i].alive
    /\ OthersSame(F, F2, i)
    /\ F2[i].pendingSpan = NoToken
    /\ \A j \in FeedIndexes \ {i} : F[j].alive => SameSpans(T, T2, F[j].stream)
    /\ F2[i].alive => T2[F2[i].stream].outstanding = {} /\ ~T2[F2[i].stream].overReleased

(* It survives a new feed in a dead slot: no span names that slot, even      *)
(* with the generation it takes.                                             *)
LEMMA SpanCreate ==
    ASSUME NEW F, NEW S, NEW T, NEW H, NEW i, NEW F2, NEW T2,
           SpanCreated(F, S, T, H, i, F2, T2)
    PROVE  SpanPart(F2, S, T2, H)
  <1> USE DEF SpanCreated, SpanPart, OthersSame
  <1>1. SpansHome(F2, S, T2)
    <2> SUFFICES ASSUME NEW l \in SpanIndexes, S[l].alive
                 PROVE  /\ Resolves(F2, S[l].feed)
                        /\ S[l].info \in T2[F2[S[l].feed[1]].stream].outstanding
      BY DEF SpansHome
    <2>1. /\ Resolves(F, S[l].feed) /\ S[l].feed[1] \in FeedIndexes \ {i}
          /\ F[S[l].feed[1]].alive /\ S[l].info \in T[F[S[l].feed[1]].stream].outstanding
      BY DEF SpansHome, Resolves
    <2>2. F2[S[l].feed[1]] = F[S[l].feed[1]]
      BY <2>1
    <2> QED
      BY <2>1, <2>2 DEF Resolves, SameSpans
  <1>2. SpansKept(F2, S, T2)
    <2> SUFFICES ASSUME NEW j \in FeedIndexes, F2[j].alive
                 PROVE  /\ ~T2[F2[j].stream].overReleased
                        /\ \A y \in T2[F2[j].stream].outstanding :
                              \E l \in SpanIndexes :
                                  S[l].alive /\ S[l].feed = TokenOf(F2, j) /\ S[l].info = y
      BY DEF SpansKept
    <2>1. CASE j = i
      BY <2>1
    <2>2. CASE j # i
      <3>1. F2[j] = F[j] /\ SameSpans(T, T2, F[j].stream) /\ TokenOf(F2, j) = TokenOf(F, j)
        BY <2>2 DEF TokenOf
      <3> QED
        BY <3>1 DEF SpansKept, SameSpans
    <2> QED
      BY <2>1, <2>2
  <1>3. SpansPending(F2, S, H)
    BY DEF SpansPending, TokenOf
  <1> QED
    BY <1>1, <1>2, <1>3, SMTT(40)

-----------------------------------------------------------------------------
ReservationFramed(F, R, T, G, F2, T2) ==
    /\ ReservationPart(F, R, T, G)
    /\ SameFeeds(F, F2)
    /\ \A j \in FeedIndexes : F2[j].pendingReservation = F[j].pendingReservation
    /\ \A j \in FeedIndexes : F[j].alive => T2[F[j].stream].reserved = T[F[j].stream].reserved

(* The part on reservations survives a step that keeps their table, what     *)
(* is pending and which streams of live feeds are reserved.                  *)
LEMMA ReservationFrame ==
    ASSUME NEW F, NEW R, NEW T, NEW G, NEW F2, NEW T2,
           ReservationFramed(F, R, T, G, F2, T2)
    PROVE  ReservationPart(F2, R, T2, G)
  <1> USE DEF ReservationFramed, ReservationPart, SameFeeds
  <1>1. ReservationsHome(F2, R, T2)
    BY DEF ReservationsHome, Resolves
  <1>2. ReservationsKept(F2, R, T2)
    BY DEF ReservationsKept, TokenOf
  <1>3. ReservationsPending(F2, R, G)
    BY DEF ReservationsPending, TokenOf
  <1> QED
    BY <1>1, <1>2, <1>3

ReservationDropped(F, R, T, G, i, k, F2, R2, T2, G2) ==
    /\ ReservationPart(F, R, T, G)
    /\ i \in FeedIndexes
    /\ F[i].alive
    /\ k \in ReservationIndexes
    /\ R[k].alive
    /\ R[k].feed = TokenOf(F, i)
    /\ SameFeeds(F, F2)
    /\ F2[i].pendingReservation = NoToken
    /\ \A j \in FeedIndexes \ {i} : F2[j].pendingReservation = F[j].pendingReservation
    /\ R2 \in [ReservationIndexes -> ReservationSlots]
    /\ ~R2[k].alive
    /\ \A l \in ReservationIndexes \ {k} : R2[l] = R[l]
    /\ ~T2[F[i].stream].reserved
    /\ \A j \in FeedIndexes \ {i} :
          F[j].alive => T2[F[j].stream].reserved = T[F[j].stream].reserved
    /\ G2 \subseteq G
    /\ \A r \in G2 : r.token # make_token(k, R[k].generation)

(* It survives the end of one reservation together with that of its          *)
(* stream.                                                                   *)
LEMMA ReservationDrop ==
    ASSUME NEW F, NEW R, NEW T, NEW G, NEW i, NEW k, NEW F2, NEW R2, NEW T2, NEW G2,
           ReservationDropped(F, R, T, G, i, k, F2, R2, T2, G2)
    PROVE  ReservationPart(F2, R2, T2, G2)
  <1> USE DEF ReservationDropped, ReservationPart, SameFeeds
  <1>0. /\ R \in [ReservationIndexes -> ReservationSlots]
        /\ \A r \in G : r \in ReservationObjects /\ r.token \in ReservationTokens
        /\ \A j \in FeedIndexes : TokenOf(F2, j) = TokenOf(F, j)
    BY DEF ReservationsTyped, ReservationObjects, TokenOf
  <1>1. ReservationsTyped(R2, G2)
    BY DEF ReservationsTyped
  <1>2. ReservationsHome(F2, R2, T2)
    <2> SUFFICES ASSUME NEW l \in ReservationIndexes, R2[l].alive
                 PROVE  Resolves(F2, R2[l].feed) /\ T2[F2[R2[l].feed[1]].stream].reserved
      BY DEF ReservationsHome
    <2>1. /\ l # k /\ R2[l] = R[l] /\ R[l].alive
          /\ Resolves(F, R[l].feed) /\ T[F[R[l].feed[1]].stream].reserved
      BY DEF ReservationsHome
    <2>2. R[l].feed = <<R[l].feed[1], R[l].feed[2]>>
      <3>1. R[l].feed \in FeedTokens \cup {NoToken}
        BY <1>0 DEF ReservationSlots
      <3> QED
        BY <3>1 DEF FeedTokens, Tokens, NoToken
    <2>3. R[l].feed[1] # i
      BY <2>1, <2>2 DEF ReservationsOnce, TokenOf, make_token, Resolves
    <2>4. R[l].feed[1] \in FeedIndexes \ {i} /\ F[R[l].feed[1]].alive
      BY <2>1, <2>3 DEF Resolves
    <2> QED
      BY <2>1, <2>4 DEF Resolves
  <1>3. ReservationsOnce(R2)
    BY DEF ReservationsOnce
  <1>4. ReservationsKept(F2, R2, T2)
    <2> SUFFICES ASSUME NEW j \in FeedIndexes, F2[j].alive, T2[F2[j].stream].reserved
                 PROVE  \E l \in ReservationIndexes : R2[l].alive /\ R2[l].feed = TokenOf(F2, j)
      BY DEF ReservationsKept
    <2>1. j # i /\ F[j].alive /\ T[F[j].stream].reserved
      OBVIOUS
    <2>2. PICK l \in ReservationIndexes : R[l].alive /\ R[l].feed = TokenOf(F, j)
      BY <2>1 DEF ReservationsKept
    <2>3. l # k
      BY <2>1, <2>2 DEF TokenOf, make_token
    <2> QED
      BY <1>0, <2>2, <2>3
  <1>5. ReservationsPending(F2, R2, G2)
    <2> SUFFICES ASSUME NEW j \in FeedIndexes, F2[j].pendingReservation # NoToken
                 PROVE  /\ F2[j].alive
                        /\ Resolves(R2, F2[j].pendingReservation)
                        /\ R2[F2[j].pendingReservation[1]].feed = TokenOf(F2, j)
                        /\ \A r \in G2 : r.token # F2[j].pendingReservation
      BY DEF ReservationsPending
    <2>1. j # i /\ F2[j].pendingReservation = F[j].pendingReservation
      OBVIOUS
    <2>2. /\ F[j].alive
          /\ Resolves(R, F[j].pendingReservation)
          /\ R[F[j].pendingReservation[1]].feed = TokenOf(F, j)
          /\ \A r \in G : r.token # F[j].pendingReservation
      BY <2>1 DEF ReservationsPending
    <2>3. F[j].pendingReservation[1] \in ReservationIndexes \ {k}
      BY <1>0, <2>1, <2>2 DEF Resolves, TokenOf, make_token
    <2> QED
      BY <1>0, <2>1, <2>2, <2>3 DEF Resolves
  <1>6. ReservationsStaged(R2, G2)
    <2> SUFFICES ASSUME NEW r \in G2
                 PROVE  Resolves(R2, r.token) /\ R2[r.token[1]].feed = r.feed
      BY DEF ReservationsStaged
    <2>1. Resolves(R, r.token) /\ R[r.token[1]].feed = r.feed
      BY DEF ReservationsStaged
    <2>2. r.token = <<r.token[1], r.token[2]>>
      BY <1>0 DEF ReservationTokens, Tokens
    <2>3. r.token[1] # k
      BY <2>1, <2>2 DEF Resolves, make_token
    <2> QED
      BY <1>0, <2>1, <2>3 DEF Resolves
  <1> QED
    BY <1>1, <1>2, <1>3, <1>4, <1>5, <1>6

ReservationAdded(F, R, T, G, i, k, F2, R2, T2, r, G2) ==
    /\ ReservationPart(F, R, T, G)
    /\ i \in FeedIndexes
    /\ F[i].alive
    /\ ~T[F[i].stream].reserved
    /\ k \in ReservationIndexes
    /\ ~R[k].alive
    /\ SameFeeds(F, F2)
    /\ \A j \in FeedIndexes \ {i} : F2[j].pendingReservation = F[j].pendingReservation
    /\ R2 \in [ReservationIndexes -> ReservationSlots]
    /\ R2[k].alive
    /\ R2[k].feed = TokenOf(F, i)
    /\ \A l \in ReservationIndexes \ {k} : R2[l] = R[l]
    /\ T2[F[i].stream].reserved
    /\ \A j \in FeedIndexes \ {i} :
          F[j].alive => T2[F[j].stream].reserved = T[F[j].stream].reserved
    /\ r \in ReservationObjects
    /\ r.token = make_token(k, R2[k].generation)
    /\ r.feed = TokenOf(F, i)
    /\ \/ F2[i].pendingReservation = NoToken /\ G2 = G \cup {r}
       \/ F2[i].pendingReservation = r.token /\ G2 = G

(* It survives a reservation of a stream that had none.                      *)
LEMMA ReservationAdd ==
    ASSUME NEW F, NEW R, NEW T, NEW G, NEW i, NEW k, NEW F2, NEW R2, NEW T2, NEW r, NEW G2,
           ReservationAdded(F, R, T, G, i, k, F2, R2, T2, r, G2)
    PROVE  ReservationPart(F2, R2, T2, G2)
  <1> USE DEF ReservationAdded, ReservationPart, SameFeeds
  <1>0. /\ R \in [ReservationIndexes -> ReservationSlots]
        /\ \A g \in G : g \in ReservationObjects /\ g.token \in ReservationTokens
        /\ \A j \in FeedIndexes : TokenOf(F2, j) = TokenOf(F, j)
        /\ r.token[1] = k /\ r.token[2] = R2[k].generation
    BY DEF ReservationsTyped, ReservationObjects, TokenOf, make_token
  <1>1. ReservationsTyped(R2, G2)
    BY DEF ReservationsTyped
  <1>2. \A l \in ReservationIndexes : R[l].alive => R[l].feed[1] # i /\ Resolves(F, R[l].feed)
    BY DEF ReservationsHome
  <1>3. ReservationsHome(F2, R2, T2)
    <2> SUFFICES ASSUME NEW l \in ReservationIndexes, R2[l].alive
                 PROVE  Resolves(F2, R2[l].feed) /\ T2[F2[R2[l].feed[1]].stream].reserved
      BY DEF ReservationsHome
    <2>1. CASE l = k
      BY <2>1, SMTT(40) DEF Resolves, TokenOf, make_token
    <2>2. CASE l # k
      <3>1. /\ R2[l] = R[l] /\ R[l].alive /\ Resolves(F, R[l].feed)
            /\ T[F[R[l].feed[1]].stream].reserved
        BY <2>2 DEF ReservationsHome
      <3>2. R[l].feed[1] \in FeedIndexes \ {i} /\ F[R[l].feed[1]].alive
        BY <1>2, <3>1 DEF Resolves
      <3> QED
        BY <3>1, <3>2 DEF Resolves
    <2> QED
      BY <2>1, <2>2
  <1>4. ReservationsOnce(R2)
    <2>1. ASSUME NEW l \in ReservationIndexes, l # k, R2[l].alive
          PROVE  R2[l].feed # R2[k].feed
      BY <1>2, <2>1 DEF TokenOf, make_token
    <2> QED
      BY <2>1 DEF ReservationsOnce
  <1>5. ReservationsKept(F2, R2, T2)
    <2> SUFFICES ASSUME NEW j \in FeedIndexes, F2[j].alive, T2[F2[j].stream].reserved
                 PROVE  \E l \in ReservationIndexes : R2[l].alive /\ R2[l].feed = TokenOf(F2, j)
      BY DEF ReservationsKept
    <2>1. CASE j = i
      BY <1>0, <2>1
    <2>2. CASE j # i
      <3>1. PICK l \in ReservationIndexes : R[l].alive /\ R[l].feed = TokenOf(F, j)
        BY <2>2 DEF ReservationsKept
      <3> QED
        BY <1>0, <3>1
    <2> QED
      BY <2>1, <2>2
  <1>6. \A g \in G : g.token[1] # k /\ g.token # r.token
    BY <1>0 DEF ReservationsStaged, Resolves
  <1>7. ReservationsPending(F2, R2, G2)
    <2> SUFFICES ASSUME NEW j \in FeedIndexes, F2[j].pendingReservation # NoToken
                 PROVE  /\ F2[j].alive
                        /\ Resolves(R2, F2[j].pendingReservation)
                        /\ R2[F2[j].pendingReservation[1]].feed = TokenOf(F2, j)
                        /\ \A g \in G2 : g.token # F2[j].pendingReservation
      BY DEF ReservationsPending
    <2>1. CASE j = i
      <3>1. F2[i].pendingReservation = r.token /\ G2 = G
        BY <2>1
      <3> QED
        BY <1>0, <1>6, <2>1, <3>1 DEF Resolves
    <2>2. CASE j # i
      <3>1. F2[j].pendingReservation = F[j].pendingReservation
        BY <2>2
      <3>2. /\ F[j].alive
            /\ Resolves(R, F[j].pendingReservation)
            /\ R[F[j].pendingReservation[1]].feed = TokenOf(F, j)
            /\ \A g \in G : g.token # F[j].pendingReservation
        BY <3>1 DEF ReservationsPending
      <3>3. F[j].pendingReservation[1] \in ReservationIndexes \ {k}
        BY <1>0, <3>2 DEF Resolves
      <3> QED
        BY <1>0, <3>1, <3>2, <3>3 DEF Resolves
    <2> QED
      BY <2>1, <2>2
  <1>8. ReservationsStaged(R2, G2)
    <2>1. Resolves(R2, r.token) /\ R2[r.token[1]].feed = r.feed
      BY <1>0 DEF Resolves
    <2>2. ASSUME NEW g \in G
          PROVE  Resolves(R2, g.token) /\ R2[g.token[1]].feed = g.feed
      BY <1>0, <1>6 DEF ReservationsStaged, Resolves
    <2> QED
      BY <2>1, <2>2 DEF ReservationsStaged
  <1> QED
    BY <1>1, <1>3, <1>4, <1>5, <1>7, <1>8

ReservationClosed(F, R, T, G, i, F2, R2, T2, G2) ==
    /\ ReservationPart(F, R, T, G)
    /\ i \in FeedIndexes
    /\ F[i].alive
    /\ F[i].pendingReservation = NoToken
    /\ ~T[F[i].stream].reserved
    /\ OthersSame(F, F2, i)
    /\ ~F2[i].alive
    /\ F2[i].pendingReservation = NoToken
    /\ R2 \in [ReservationIndexes -> ReservationSlots]
    /\ \A k \in ReservationIndexes :
          IF R[k].alive /\ R[k].feed = TokenOf(F, i) THEN ~R2[k].alive ELSE R2[k] = R[k]
    /\ \A j \in FeedIndexes \ {i} :
          F[j].alive => T2[F[j].stream].reserved = T[F[j].stream].reserved
    /\ G2 = {r \in G : r.feed # TokenOf(F, i)}

(* It survives the end of a feed whose stream has no reservation.            *)
LEMMA ReservationClose ==
    ASSUME NEW F, NEW R, NEW T, NEW G, NEW i, NEW F2, NEW R2, NEW T2, NEW G2,
           ReservationClosed(F, R, T, G, i, F2, R2, T2, G2)
    PROVE  ReservationPart(F2, R2, T2, G2)
  <1> USE DEF ReservationClosed, ReservationPart, OthersSame
  <1>0. /\ R \in [ReservationIndexes -> ReservationSlots]
        /\ \A j \in FeedIndexes \ {i} : TokenOf(F2, j) = TokenOf(F, j)
    BY DEF ReservationsTyped, TokenOf
  <1>1. \A k \in ReservationIndexes : R[k].alive => R[k].feed[1] # i /\ R[k].feed # TokenOf(F, i)
    BY DEF ReservationsHome, TokenOf, make_token
  <1>2. \A k \in ReservationIndexes : R2[k] = R[k]
    BY <1>1
  <1>3. ReservationsTyped(R2, G2)
    BY DEF ReservationsTyped
  <1>4. ReservationsHome(F2, R2, T2)
    <2> SUFFICES ASSUME NEW l \in ReservationIndexes, R[l].alive
                 PROVE  Resolves(F2, R[l].feed) /\ T2[F2[R[l].feed[1]].stream].reserved
      BY <1>2 DEF ReservationsHome
    <2>1. Resolves(F, R[l].feed) /\ T[F[R[l].feed[1]].stream].reserved
      BY DEF ReservationsHome
    <2>2. R[l].feed[1] \in FeedIndexes \ {i} /\ F[R[l].feed[1]].alive
      BY <1>1, <2>1 DEF Resolves
    <2> QED
      BY <2>1, <2>2 DEF Resolves
  <1>5. ReservationsOnce(R2)
    BY <1>2 DEF ReservationsOnce
  <1>6. ReservationsKept(F2, R2, T2)
    <2> SUFFICES ASSUME NEW j \in FeedIndexes, F2[j].alive, T2[F2[j].stream].reserved
                 PROVE  \E l \in ReservationIndexes : R2[l].alive /\ R2[l].feed = TokenOf(F2, j)
      BY DEF ReservationsKept
    <2>1. j # i /\ F[j].alive /\ T[F[j].stream].reserved
      OBVIOUS
    <2> QED
      BY <1>0, <1>2, <2>1 DEF ReservationsKept
  <1>7. ReservationsPending(F2, R2, G2)
    <2> SUFFICES ASSUME NEW j \in FeedIndexes, F2[j].pendingReservation # NoToken
                 PROVE  /\ F2[j].alive
                        /\ Resolves(R2, F2[j].pendingReservation)
                        /\ R2[F2[j].pendingReservation[1]].feed = TokenOf(F2, j)
                        /\ \A g \in G2 : g.token # F2[j].pendingReservation
      BY DEF ReservationsPending
    <2>1. j # i /\ F2[j] = F[j]
      OBVIOUS
    <2>2. /\ F[j].alive
          /\ Resolves(R, F[j].pendingReservation)
          /\ R[F[j].pendingReservation[1]].feed = TokenOf(F, j)
          /\ \A g \in G : g.token # F[j].pendingReservation
      BY <2>1 DEF ReservationsPending
    <2> QED
      BY <1>0, <1>2, <2>1, <2>2 DEF Resolves
  <1>8. ReservationsStaged(R2, G2)
    BY <1>0, <1>2 DEF ReservationsStaged, Resolves
  <1> QED
    BY <1>3, <1>4, <1>5, <1>6, <1>7, <1>8

ReservationCreated(F, R, T, G, i, F2, T2) ==
    /\ ReservationPart(F, R, T, G)
    /\ i \in FeedIndexes
    /\ ~F[i].alive
    /\ OthersSame(F, F2, i)
    /\ F2[i].pendingReservation = NoToken
    /\ \A j \in FeedIndexes \ {i} :
          F[j].alive => T2[F[j].stream].reserved = T[F[j].stream].reserved
    /\ F2[i].alive => ~T2[F2[i].stream].reserved

(* It survives a new feed in a dead slot.                                    *)
LEMMA ReservationCreate ==
    ASSUME NEW F, NEW R, NEW T, NEW G, NEW i, NEW F2, NEW T2,
           ReservationCreated(F, R, T, G, i, F2, T2)
    PROVE  ReservationPart(F2, R, T2, G)
  <1> USE DEF ReservationCreated, ReservationPart, OthersSame
  <1>1. ReservationsHome(F2, R, T2)
    <2> SUFFICES ASSUME NEW l \in ReservationIndexes, R[l].alive
                 PROVE  Resolves(F2, R[l].feed) /\ T2[F2[R[l].feed[1]].stream].reserved
      BY DEF ReservationsHome
    <2>1. Resolves(F, R[l].feed) /\ T[F[R[l].feed[1]].stream].reserved
      BY DEF ReservationsHome
    <2>2. R[l].feed[1] \in FeedIndexes \ {i} /\ F[R[l].feed[1]].alive
      BY <2>1 DEF Resolves
    <2> QED
      BY <2>1, <2>2 DEF Resolves
  <1>2. ReservationsKept(F2, R, T2)
    BY DEF ReservationsKept, TokenOf
  <1>3. ReservationsPending(F2, R, G)
    BY DEF ReservationsPending, TokenOf
  <1> QED
    BY <1>1, <1>2, <1>3

-----------------------------------------------------------------------------
(* The part on feeds survives a step that keeps which feeds live, with       *)
(* which generations and streams, and which streams are open.                *)
LEMMA FeedFrame ==
    ASSUME NEW F, NEW T, NEW c, NEW O, NEW W, FeedPart(F, T, c, O, W),
           NEW F2 \in [FeedIndexes -> FeedSlots], SameFeeds(F, F2),
           NEW T2 \in [StreamIds -> Streams], \A s \in StreamIds : T2[s].open = T[s].open
    PROVE  FeedPart(F2, T2, c, O, W)
  <1> USE DEF FeedPart, SameFeeds
  <1>1. 1 .. c \subseteq StreamIds
    BY FeedConstants DEF FeedsTyped, StreamIds
  <1>2. FeedsTyped(F2, T2, c, O, W)
    BY DEF FeedsTyped
  <1>3. StreamsOpen(F2, T2, c, W)
    BY <1>1 DEF StreamsOpen, FeedsTyped
  <1>4. StreamsOwn(F2)
    BY DEF StreamsOwn
  <1>5. FeedsResolve(F2, O)
    BY DEF FeedsResolve, Resolves
  <1> QED
    BY <1>2, <1>3, <1>4, <1>5

-----------------------------------------------------------------------------
CleanStreams(i) == [streams EXCEPT ![feedSlots[i].stream] = CleanStream(i)]

(* What cleanup_feed_pending does to the stream of a live feed.              *)
LEMMA CleanStreamFacts ==
    ASSUME FeedInv, NEW i \in FeedIndexes, feedSlots[i].alive
    PROVE  LET f == feedSlots[i]
               s == streams[f.stream]
               t == CleanStream(i)
           IN  /\ f.stream \in StreamIds /\ f.stream \in 1 .. created
               /\ s \in Streams /\ t \in Streams
               /\ t.open = s.open /\ t.open
               /\ t.published = s.published /\ t.drained = s.drained
               /\ t.outstanding = IF f.pendingSpan = NoToken THEN s.outstanding
                                  ELSE s.outstanding \ {f.pendingInfo}
               /\ t.overReleased =>
                     \/ s.overReleased
                     \/ f.pendingSpan # NoToken /\ f.pendingInfo \notin s.outstanding
               /\ t.reserved = IF f.pendingReservation = NoToken THEN s.reserved ELSE FALSE
  <1> DEFINE f == feedSlots[i]
             s == streams[f.stream]
             t1 == IF f.pendingSpan = NoToken THEN s
                   ELSE streamMarkSpanConsumed(s, f.pendingInfo)
             t == CleanStream(i)
  <1>1. f.stream \in 1 .. created /\ s.open
    BY DEF FeedInv, FeedPart, StreamsOpen
  <1>2. f.stream \in StreamIds
    BY <1>1, FeedConstants DEF FeedInv, FeedPart, FeedsTyped, StreamIds
  <1>3. s \in Streams
    BY <1>2 DEF FeedInv, FeedPart, FeedsTyped
  <1>4. t = IF f.pendingReservation = NoToken THEN t1 ELSE streamCancelReserved(t1)
    BY DEF CleanStream
  <1> HIDE DEF f, s, t
  <1>5. /\ t1 \in Streams
        /\ t1.open = s.open /\ t1.published = s.published /\ t1.drained = s.drained
        /\ t1.reserved = s.reserved
        /\ t1.outstanding = IF f.pendingSpan = NoToken THEN s.outstanding
                            ELSE s.outstanding \ {f.pendingInfo}
        /\ t1.overReleased =>
              \/ s.overReleased
              \/ f.pendingSpan # NoToken /\ f.pendingInfo \notin s.outstanding
    BY <1>3 DEF streamMarkSpanConsumed, Streams
  <1> HIDE DEF t1
  <1>6. /\ t \in Streams
        /\ t.open = t1.open /\ t.published = t1.published /\ t.drained = t1.drained
        /\ t.outstanding = t1.outstanding /\ t.overReleased = t1.overReleased
        /\ t.reserved = IF f.pendingReservation = NoToken THEN t1.reserved ELSE FALSE
    BY <1>4, <1>5 DEF streamCancelReserved, Streams
  <1> QED
    BY <1>1, <1>2, <1>3, <1>5, <1>6 DEF f, s, t

(* Two live feeds have different streams.                                    *)
LEMMA StreamsApart ==
    ASSUME FeedInv, NEW i \in FeedIndexes, feedSlots[i].alive
    PROVE  \A j \in FeedIndexes \ {i} : feedSlots[j].alive =>
               feedSlots[j].stream # feedSlots[i].stream /\ feedSlots[j].stream \in StreamIds
  <1>1. \A j \in FeedIndexes : feedSlots[j].alive => feedSlots[j].stream \in StreamIds
    BY CleanStreamFacts
  <1> QED
    BY <1>1 DEF FeedInv, FeedPart, StreamsOwn

(* What cleanup_feed_pending does to the table of feeds.                     *)
LEMMA CleanFeedsFacts ==
    ASSUME FeedInv, NEW i \in FeedIndexes
    PROVE  /\ CleanFeeds(i) \in [FeedIndexes -> FeedSlots]
           /\ SameFeeds(feedSlots, CleanFeeds(i))
           /\ CleanFeeds(i)[i].pendingSpan = NoToken
           /\ CleanFeeds(i)[i].pendingReservation = NoToken
           /\ \A j \in FeedIndexes \ {i} : CleanFeeds(i)[j] = feedSlots[j]
           /\ TokenOf(CleanFeeds(i), i) = TokenOf(feedSlots, i)
  <1>1. feedSlots \in [FeedIndexes -> FeedSlots]
    BY DEF FeedInv, FeedPart, FeedsTyped
  <1>2. 0 \in 0 .. MaxSpans
    BY FeedConstants
  <1>3. CleanFeeds(i) \in [FeedIndexes -> FeedSlots]
    BY <1>1, <1>2, ZenonT(60) DEF CleanFeeds, FeedSlots
  <1>4. /\ CleanFeeds(i)[i].pendingSpan = NoToken
        /\ CleanFeeds(i)[i].pendingReservation = NoToken
        /\ CleanFeeds(i)[i].alive = feedSlots[i].alive
        /\ CleanFeeds(i)[i].generation = feedSlots[i].generation
        /\ CleanFeeds(i)[i].stream = feedSlots[i].stream
        /\ \A j \in FeedIndexes \ {i} : CleanFeeds(i)[j] = feedSlots[j]
    BY <1>1 DEF CleanFeeds, FeedSlots
  <1> QED
    BY <1>1, <1>3, <1>4 DEF SameFeeds, TokenOf

(* What it does to the streams.                                              *)
LEMMA CleanStreamsFacts ==
    ASSUME FeedInv, NEW i \in FeedIndexes, feedSlots[i].alive
    PROVE  /\ CleanStreams(i) \in [StreamIds -> Streams]
           /\ CleanStreams(i)[feedSlots[i].stream] = CleanStream(i)
           /\ \A s \in StreamIds : s # feedSlots[i].stream => CleanStreams(i)[s] = streams[s]
           /\ \A s \in StreamIds : CleanStreams(i)[s].open = streams[s].open
  <1>1. streams \in [StreamIds -> Streams]
    BY DEF FeedInv, FeedPart, FeedsTyped
  <1>2. /\ feedSlots[i].stream \in StreamIds /\ CleanStream(i) \in Streams
        /\ CleanStream(i).open = streams[feedSlots[i].stream].open
    BY CleanStreamFacts
  <1> QED
    BY <1>1, <1>2 DEF CleanStreams

(* The part on spans holds after the clean-up: the pending span was in       *)
(* exactly one live slot and in no client's hands, so releasing both loses   *)
(* and doubles nothing.                                                      *)
LEMMA CleanSpansKeeps ==
    ASSUME FeedInv, NEW i \in FeedIndexes, feedSlots[i].alive
    PROVE  SpanPart(CleanFeeds(i), CleanSpans(i), CleanStreams(i), held)
  <1> DEFINE f == feedSlots[i]
             s == streams[f.stream]
             k == f.pendingSpan[1]
             F == CleanFeeds(i)
             S == CleanSpans(i)
             T == CleanStreams(i)
  <1>1. /\ SameFeeds(feedSlots, F) /\ F[i].pendingSpan = NoToken
        /\ \A j \in FeedIndexes \ {i} : SamePendingSpan(feedSlots, F, j)
    BY CleanFeedsFacts DEF SamePendingSpan
  <1>2. /\ T[f.stream] = CleanStream(i)
        /\ \A t \in StreamIds : t # f.stream => T[t] = streams[t]
    BY CleanStreamsFacts
  <1>3. \A j \in FeedIndexes \ {i} :
            feedSlots[j].alive => SameSpans(streams, T, feedSlots[j].stream)
    BY <1>2, StreamsApart DEF SameSpans
  <1>4. /\ T[f.stream].outstanding = IF f.pendingSpan = NoToken THEN s.outstanding
                                     ELSE s.outstanding \ {f.pendingInfo}
        /\ T[f.stream].overReleased =>
              \/ s.overReleased
              \/ f.pendingSpan # NoToken /\ f.pendingInfo \notin s.outstanding
    BY <1>2, CleanStreamFacts
  <1>5. SpanPart(feedSlots, spanSlots, streams, held) /\ spanSlots \in [SpanIndexes -> SpanSlots]
    BY DEF FeedInv, SpanPart, SpansTyped
  <1>6. CASE f.pendingSpan # NoToken
    <2>1. /\ Resolves(spanSlots, f.pendingSpan)
          /\ spanSlots[k].feed = TokenOf(feedSlots, i)
          /\ spanSlots[k].info = f.pendingInfo
          /\ \A h \in held : h.token # f.pendingSpan
      BY <1>5, <1>6 DEF SpanPart, SpansPending
    <2>2. k \in SpanIndexes /\ spanSlots[k].alive
      BY <1>5, <2>1 DEF Resolves
    <2>3. f.pendingSpan = make_token(k, spanSlots[k].generation)
      <3>1. f.pendingSpan \in SpanTokens
        BY <1>6 DEF FeedInv, FeedPart, FeedsTyped, FeedSlots
      <3>2. f.pendingSpan = <<f.pendingSpan[1], f.pendingSpan[2]>>
        BY <3>1 DEF SpanTokens, Tokens
      <3> QED
        BY <2>1, <3>2 DEF Resolves, make_token
    <2>4. S = span_release_slot(spanSlots, f.pendingSpan)
      BY <2>1 DEF CleanSpans
    <2>5. /\ S \in [SpanIndexes -> SpanSlots] /\ ~S[k].alive
          /\ \A l \in SpanIndexes \ {k} : S[l] = spanSlots[l]
      <3>1. S = [spanSlots EXCEPT ![k].alive = FALSE, ![k].feed = NoToken, ![k].info = 0]
        BY <2>4 DEF span_release_slot
      <3>2. 0 \in 0 .. MaxSpans
        BY FeedConstants
      <3> HIDE DEF S, k
      <3> QED
        BY <1>5, <2>2, <3>1, <3>2, ZenonT(60) DEF SpanSlots
    <2>6. /\ T[feedSlots[i].stream].outstanding =
                streams[feedSlots[i].stream].outstanding \ {spanSlots[k].info}
          /\ T[feedSlots[i].stream].overReleased =>
                \/ streams[feedSlots[i].stream].overReleased
                \/ spanSlots[k].info \notin streams[feedSlots[i].stream].outstanding
      BY <1>4, <1>6, <2>1
    <2>7. /\ feedSlots[i].pendingSpan \in {NoToken, make_token(k, spanSlots[k].generation)}
          /\ \A h \in held : h.token # make_token(k, spanSlots[k].generation)
      BY <2>1, <2>3
    <2> HIDE DEF f, s, k, F, S, T
    <2>8. SpanDropped(feedSlots, spanSlots, streams, held, i, k, F, S, T, held)
      BY <1>1, <1>3, <1>5, <2>1, <2>2, <2>5, <2>6, <2>7 DEF SpanDropped
    <2> QED
      BY <2>8, SpanDrop DEF F, S, T
  <1>7. CASE f.pendingSpan = NoToken
    <2>1. S = spanSlots
      <3>1. NoToken[1] \notin SpanIndexes
        BY FeedConstants DEF NoToken, SpanIndexes
      <3> QED
        BY <1>5, <1>7, <3>1 DEF CleanSpans, Resolves
    <2>2. \A j \in FeedIndexes : SamePendingSpan(feedSlots, F, j)
      BY <1>1, <1>7 DEF SamePendingSpan
    <2>3. \A j \in FeedIndexes : feedSlots[j].alive => SameSpans(streams, T, feedSlots[j].stream)
      BY <1>3, <1>4, <1>7 DEF SameSpans
    <2>4. SpanFramed(feedSlots, spanSlots, streams, held, F, T)
      BY <1>1, <1>5, <2>2, <2>3 DEF SpanFramed
    <2> QED
      BY <2>1, <2>4, SpanFrame
  <1> QED
    BY <1>6, <1>7

(* The part on reservations holds after the clean-up.                        *)
LEMMA CleanReservationsKeeps ==
    ASSUME FeedInv, NEW i \in FeedIndexes, feedSlots[i].alive
    PROVE  ReservationPart(CleanFeeds(i), CleanReservations(i), CleanStreams(i), staged)
  <1> DEFINE f == feedSlots[i]
             k == f.pendingReservation[1]
             F == CleanFeeds(i)
             R == CleanReservations(i)
             T == CleanStreams(i)
  <1>1. /\ SameFeeds(feedSlots, F) /\ F[i].pendingReservation = NoToken
        /\ \A j \in FeedIndexes \ {i} : F[j].pendingReservation = feedSlots[j].pendingReservation
    BY CleanFeedsFacts
  <1>2. /\ T[f.stream] = CleanStream(i)
        /\ \A t \in StreamIds : t # f.stream => T[t] = streams[t]
    BY CleanStreamsFacts
  <1>3. \A j \in FeedIndexes \ {i} : feedSlots[j].alive =>
            T[feedSlots[j].stream].reserved = streams[feedSlots[j].stream].reserved
    BY <1>2, StreamsApart
  <1>4. T[f.stream].reserved = IF f.pendingReservation = NoToken
                               THEN streams[f.stream].reserved ELSE FALSE
    BY <1>2, CleanStreamFacts
  <1>5. /\ ReservationPart(feedSlots, resSlots, streams, staged)
        /\ resSlots \in [ReservationIndexes -> ReservationSlots]
    BY DEF FeedInv, ReservationPart, ReservationsTyped
  <1>6. CASE f.pendingReservation # NoToken
    <2>1. /\ Resolves(resSlots, f.pendingReservation)
          /\ resSlots[k].feed = TokenOf(feedSlots, i)
          /\ \A r \in staged : r.token # f.pendingReservation
      BY <1>5, <1>6 DEF ReservationPart, ReservationsPending
    <2>2. k \in ReservationIndexes /\ resSlots[k].alive
      BY <1>5, <2>1 DEF Resolves
    <2>3. f.pendingReservation = make_token(k, resSlots[k].generation)
      <3>1. f.pendingReservation \in ReservationTokens
        BY <1>6 DEF FeedInv, FeedPart, FeedsTyped, FeedSlots
      <3>2. f.pendingReservation = <<f.pendingReservation[1], f.pendingReservation[2]>>
        BY <3>1 DEF ReservationTokens, Tokens
      <3> QED
        BY <2>1, <3>2 DEF Resolves, make_token
    <2>4. R = reservation_release_slot(resSlots, f.pendingReservation)
      BY <2>1 DEF CleanReservations
    <2>5. /\ R \in [ReservationIndexes -> ReservationSlots] /\ ~R[k].alive
          /\ \A l \in ReservationIndexes \ {k} : R[l] = resSlots[l]
      <3>1. R = [resSlots EXCEPT ![k].alive = FALSE, ![k].feed = NoToken]
        BY <2>4 DEF reservation_release_slot
      <3> HIDE DEF R, k
      <3> QED
        BY <1>5, <2>2, <3>1 DEF ReservationSlots
    <2>6. ~T[feedSlots[i].stream].reserved
      BY <1>4, <1>6
    <2>7. \A r \in staged : r.token # make_token(k, resSlots[k].generation)
      BY <2>1, <2>3
    <2> HIDE DEF f, k, F, R, T
    <2>8. ReservationDropped(feedSlots, resSlots, streams, staged, i, k, F, R, T, staged)
      BY <1>1, <1>3, <1>5, <2>1, <2>2, <2>5, <2>6, <2>7 DEF ReservationDropped
    <2> QED
      BY <2>8, ReservationDrop DEF F, R, T
  <1>7. CASE f.pendingReservation = NoToken
    <2>1. R = resSlots
      <3>1. NoToken[1] \notin ReservationIndexes
        BY FeedConstants DEF NoToken, ReservationIndexes
      <3> QED
        BY <1>5, <1>7, <3>1 DEF CleanReservations, Resolves
    <2>2. \A j \in FeedIndexes : F[j].pendingReservation = feedSlots[j].pendingReservation
      BY <1>1, <1>7
    <2>3. \A j \in FeedIndexes : feedSlots[j].alive =>
              T[feedSlots[j].stream].reserved = streams[feedSlots[j].stream].reserved
      BY <1>3, <1>4, <1>7
    <2>4. ReservationFramed(feedSlots, resSlots, streams, staged, F, T)
      BY <1>1, <1>5, <2>2, <2>3 DEF ReservationFramed
    <2> QED
      BY <2>1, <2>4, ReservationFrame
  <1> QED
    BY <1>6, <1>7

(* The state cleanup_feed_pending leaves satisfies the invariant.            *)
Cleaned(i) ==
    /\ FeedPart(CleanFeeds(i), CleanStreams(i), created, feeds, renderers)
    /\ DrainsInOrder(CleanStreams(i))
    /\ SpanPart(CleanFeeds(i), CleanSpans(i), CleanStreams(i), held)
    /\ ReservationPart(CleanFeeds(i), CleanReservations(i), CleanStreams(i), staged)

(* Every part holds after the clean-up.                                      *)
LEMMA CleanUpKeeps ==
    ASSUME FeedInv, NEW i \in FeedIndexes, feedSlots[i].alive
    PROVE  Cleaned(i)
  <1>1. FeedPart(CleanFeeds(i), CleanStreams(i), created, feeds, renderers)
    <2>1. FeedPart(feedSlots, streams, created, feeds, renderers)
      BY DEF FeedInv
    <2> QED
      BY <2>1, CleanFeedsFacts, CleanStreamsFacts, FeedFrame
  <1>2. DrainsInOrder(CleanStreams(i))
    <2>1. /\ DrainsInOrder(streams) /\ feedSlots[i].stream \in StreamIds
          /\ CleanStream(i).published = streams[feedSlots[i].stream].published
          /\ CleanStream(i).drained = streams[feedSlots[i].stream].drained
          /\ CleanStream(i).outstanding \subseteq streams[feedSlots[i].stream].outstanding
      BY CleanStreamFacts DEF FeedInv
    <2> QED
      BY <2>1, CleanStreamsFacts DEF DrainsInOrder
  <1> QED
    BY <1>1, <1>2, CleanSpansKeeps, CleanReservationsKeeps DEF Cleaned

-----------------------------------------------------------------------------
(* A token that resolves is the token of the live slot it resolves to.       *)
LEMMA ResolvedFeed ==
    ASSUME FeedInv, NEW t \in FeedTokens \cup {NoToken}, Resolves(feedSlots, t)
    PROVE  /\ t[1] \in FeedIndexes /\ feedSlots[t[1]].alive
           /\ TokenOf(feedSlots, t[1]) = t /\ TokenOf(CleanFeeds(t[1]), t[1]) = t
           /\ t \in FeedTokens
  <1>1. feedSlots \in [FeedIndexes -> FeedSlots]
    BY DEF FeedInv, FeedPart, FeedsTyped
  <1>2. t[1] \in FeedIndexes /\ feedSlots[t[1]].alive /\ feedSlots[t[1]].generation = t[2]
    BY <1>1 DEF Resolves
  <1>3. t = <<t[1], t[2]>>
    BY DEF FeedTokens, Tokens, NoToken
  <1>4. TokenOf(feedSlots, t[1]) = t
    BY <1>2, <1>3 DEF TokenOf, make_token
  <1>5. t # NoToken
    BY <1>2, FeedConstants DEF NoToken, FeedIndexes
  <1> QED
    BY <1>2, <1>4, <1>5, CleanFeedsFacts

(* The token of an open feed object resolves to its own slot and stream.     *)
LEMMA OpenFeed ==
    ASSUME FeedInv, NEW f \in feeds
    PROVE  /\ f \in FeedObjects /\ f.token \in FeedTokens /\ Resolves(feedSlots, f.token)
           /\ feedSlots[f.token[1]].stream = f.stream
           /\ f.token[1] \in FeedIndexes /\ feedSlots[f.token[1]].alive
           /\ TokenOf(feedSlots, f.token[1]) = f.token
           /\ TokenOf(CleanFeeds(f.token[1]), f.token[1]) = f.token
  <1>1. f \in FeedObjects
    BY DEF FeedInv, FeedPart, FeedsTyped
  <1>2. f.token \in FeedTokens
    BY <1>1 DEF FeedObjects
  <1>3. Resolves(feedSlots, f.token) /\ feedSlots[f.token[1]].stream = f.stream
    BY DEF FeedInv, FeedPart, FeedsResolve
  <1> QED
    BY <1>1, <1>2, <1>3, ResolvedFeed

(* The streams after an operation on slot i has left its stream as t.        *)
LEMMA ResultStreams ==
    ASSUME FeedInv, NEW i \in FeedIndexes, feedSlots[i].alive, NEW t \in Streams,
           t.open, t.drained <= t.published, \A x \in t.outstanding : x <= t.drained
    PROVE  LET T == [streams EXCEPT ![feedSlots[i].stream] = t]
           IN  /\ T \in [StreamIds -> Streams]
               /\ T[feedSlots[i].stream] = t
               /\ \A s \in StreamIds : s # feedSlots[i].stream => T[s] = CleanStreams(i)[s]
               /\ \A s \in StreamIds : T[s].open = CleanStreams(i)[s].open
               /\ DrainsInOrder(T)
               /\ \A j \in FeedIndexes \ {i} : feedSlots[j].alive =>
                      /\ SameSpans(CleanStreams(i), T, feedSlots[j].stream)
                      /\ T[feedSlots[j].stream].reserved =
                            CleanStreams(i)[feedSlots[j].stream].reserved
  <1> DEFINE T == [streams EXCEPT ![feedSlots[i].stream] = t]
             st == feedSlots[i].stream
  <1>1. streams \in [StreamIds -> Streams]
    BY DEF FeedInv, FeedPart, FeedsTyped
  <1>2. st \in StreamIds /\ CleanStream(i).open
    BY CleanStreamFacts
  <1>3. /\ T \in [StreamIds -> Streams] /\ T[st] = t
        /\ \A s \in StreamIds : s # st => T[s] = streams[s]
    BY <1>1, <1>2
  <1>4. /\ CleanStreams(i)[st] = CleanStream(i)
        /\ \A s \in StreamIds : s # st => CleanStreams(i)[s] = streams[s]
    BY CleanStreamsFacts
  <1> HIDE DEF T, st
  <1>5. \A s \in StreamIds : s # st => T[s] = CleanStreams(i)[s]
    BY <1>3, <1>4
  <1>6. \A s \in StreamIds : T[s].open = CleanStreams(i)[s].open
    <2>1. CleanStreams(i)[st].open /\ T[st].open /\ CleanStream(i) \in Streams
      BY <1>2, <1>3, <1>4, CleanStreamFacts
    <2>2. CleanStreams(i)[st].open = T[st].open
      BY <1>3, <1>4, <2>1 DEF Streams
    <2> QED
      BY <1>5, <2>2
  <1>7. DrainsInOrder(T)
    <2>1. DrainsInOrder(streams)
      BY DEF FeedInv
    <2> QED
      BY <1>3, <2>1 DEF DrainsInOrder
  <1>8. \A j \in FeedIndexes \ {i} : feedSlots[j].alive =>
            T[feedSlots[j].stream] = CleanStreams(i)[feedSlots[j].stream]
    BY <1>5, StreamsApart DEF st
  <1> QED
    BY <1>3, <1>5, <1>6, <1>7, <1>8 DEF T, st, SameSpans

(* An operation that cleans up and changes nothing else the client sees.     *)
LEMMA CleanUpResult ==
    ASSUME FeedInv, NEW i \in FeedIndexes, feedSlots[i].alive, NEW t \in Streams,
           t.open, t.drained <= t.published, CleanStream(i).drained <= t.drained,
           t.outstanding = CleanStream(i).outstanding,
           t.overReleased => CleanStream(i).overReleased,
           t.reserved = CleanStream(i).reserved,
           CleanUp(i, t), UNCHANGED <<created, clientVars>>
    PROVE  FeedInv'
  <1> DEFINE T == [streams EXCEPT ![feedSlots[i].stream] = t]
             F == CleanFeeds(i)
             T0 == CleanStreams(i)
  <1>1. Cleaned(i)
    BY CleanUpKeeps
  <1>2. /\ F \in [FeedIndexes -> FeedSlots] /\ SameFeeds(feedSlots, F)
        /\ DOMAIN F = FeedIndexes /\ F[i].stream = feedSlots[i].stream
        /\ \A j \in FeedIndexes : /\ F[j].alive = feedSlots[j].alive
                                  /\ F[j].stream = feedSlots[j].stream
    BY CleanFeedsFacts DEF SameFeeds
  <1>3. \A x \in t.outstanding : x <= t.drained
    <2>1. /\ CleanStream(i) \in Streams /\ feedSlots[i].stream \in StreamIds
          /\ T0[feedSlots[i].stream] = CleanStream(i)
      BY CleanStreamFacts, CleanStreamsFacts
    <2>2. \A x \in CleanStream(i).outstanding : x <= CleanStream(i).drained /\ x \in Nat
      BY <1>1, <2>1 DEF Cleaned, DrainsInOrder, Streams, SpanInfos
    <2>3. CleanStream(i).drained \in Nat /\ t.drained \in Nat
      BY <2>1 DEF Streams
    <2> QED
      BY <2>2, <2>3
  <1>4. /\ T \in [StreamIds -> Streams]
        /\ T[feedSlots[i].stream] = t
        /\ \A s \in StreamIds : T[s].open = T0[s].open
        /\ DrainsInOrder(T)
        /\ \A j \in FeedIndexes \ {i} : feedSlots[j].alive =>
               /\ SameSpans(T0, T, feedSlots[j].stream)
               /\ T[feedSlots[j].stream].reserved = T0[feedSlots[j].stream].reserved
    BY <1>3, ResultStreams, ZenonT(60)
  <1>5. T0[feedSlots[i].stream] = CleanStream(i)
    BY CleanStreamsFacts
  <1>6. /\ feedSlots' = F /\ spanSlots' = CleanSpans(i) /\ resSlots' = CleanReservations(i)
        /\ streams' = T
        /\ UNCHANGED <<created, feeds, held, staged, renderers>>
    BY DEF CleanUp, clientVars
  <1> HIDE DEF T, F, T0
  <1>7. \A j \in FeedIndexes : F[j].alive =>
            SameSpans(T0, T, F[j].stream) /\ T[F[j].stream].reserved = T0[F[j].stream].reserved
    BY <1>2, <1>4, <1>5 DEF SameSpans
  <1>8. SameFeeds(F, F)
    BY <1>2 DEF SameFeeds
  <1>9. FeedPart(F, T, created, feeds, renderers)
    BY <1>1, <1>2, <1>4, <1>8, FeedFrame DEF Cleaned, F, T0
  <1>10. SpanFramed(F, CleanSpans(i), T0, held, F, T)
    BY <1>1, <1>7, <1>8 DEF SpanFramed, SamePendingSpan, Cleaned, F, T0
  <1>11. ReservationFramed(F, CleanReservations(i), T0, staged, F, T)
    BY <1>1, <1>7, <1>8 DEF ReservationFramed, Cleaned, F, T0
  <1>12. SpanPart(F, CleanSpans(i), T, held) /\ ReservationPart(F, CleanReservations(i), T, staged)
    BY <1>10, <1>11, SpanFrame, ReservationFrame
  <1> QED
    BY <1>4, <1>6, <1>9, <1>12 DEF FeedInv

(* The stream after the clean-up is open and has drained no more than it     *)
(* has published.                                                            *)
LEMMA CleanStreamInOrder ==
    ASSUME FeedInv, NEW i \in FeedIndexes, feedSlots[i].alive
    PROVE  LET s == CleanStream(i)
           IN  /\ s \in Streams /\ s.open /\ feedSlots[i].stream \in StreamIds
               /\ s.drained \in Nat /\ s.published \in 0 .. MaxSpans /\ s.drained <= s.published
               /\ \A x \in s.outstanding : x \in Nat /\ x <= s.drained
               /\ CleanStreams(i)[feedSlots[i].stream] = s
  <1>1. Cleaned(i)
    BY CleanUpKeeps
  <1>2. /\ CleanStream(i) \in Streams /\ CleanStream(i).open /\ feedSlots[i].stream \in StreamIds
        /\ CleanStreams(i)[feedSlots[i].stream] = CleanStream(i)
    BY CleanStreamFacts, CleanStreamsFacts
  <1>3. /\ CleanStream(i).drained <= CleanStream(i).published
        /\ \A x \in CleanStream(i).outstanding : x <= CleanStream(i).drained
    BY <1>1, <1>2 DEF Cleaned, DrainsInOrder
  <1> QED
    BY <1>2, <1>3 DEF Streams, SpanInfos

(* Publishing changes nothing but how much was published.                    *)
LEMMA Publishes ==
    ASSUME NEW s \in Streams, s.published \in 0 .. MaxSpans, s.drained <= s.published,
           NEW n \in {0, 1}, CanPublish(s, n)
    PROVE  /\ Publish(s, n) \in Streams
           /\ Publish(s, n).open = s.open /\ Publish(s, n).drained = s.drained
           /\ Publish(s, n).outstanding = s.outstanding
           /\ Publish(s, n).overReleased = s.overReleased
           /\ Publish(s, n).reserved = s.reserved
           /\ Publish(s, n).drained <= Publish(s, n).published
           /\ Publish(s, n).published \in 0 .. MaxSpans
  <1>1. s.published + n \in 0 .. MaxSpans /\ s.drained <= s.published + n
    BY FeedConstants DEF CanPublish, Streams
  <1> QED
    BY <1>1 DEF Publish, Streams

(* span_feed_write and span_feed_commit.                                     *)
LEMMA FeedInvWrite ==
    ASSUME FeedInv, NEW f \in feeds, NEW n \in {0, 1},
           span_feed_write(f, n) \/ span_feed_commit(f, n)
    PROVE  FeedInv'
  <1> DEFINE i == f.token[1]
             s == CleanStream(i)
             t == Publish(s, n)
  <1>1. i \in FeedIndexes /\ feedSlots[i].alive
    BY OpenFeed
  <1>2. /\ s \in Streams /\ s.open /\ s.drained \in Nat /\ s.published \in 0 .. MaxSpans
        /\ s.drained <= s.published
    BY <1>1, CleanStreamInOrder
  <1>3. CanPublish(s, n) /\ CleanUp(i, t) /\ UNCHANGED <<created, clientVars>>
    BY DEF span_feed_write, span_feed_commit
  <1>4. /\ t \in Streams /\ t.open = s.open /\ t.drained = s.drained
        /\ t.outstanding = s.outstanding /\ t.overReleased = s.overReleased
        /\ t.reserved = s.reserved /\ t.drained <= t.published
    BY <1>2, <1>3, Publishes
  <1>5. /\ t.open /\ CleanStream(i).drained <= t.drained
        /\ t.outstanding = CleanStream(i).outstanding
        /\ t.overReleased => CleanStream(i).overReleased
        /\ t.reserved = CleanStream(i).reserved
    BY <1>2, <1>4
  <1> HIDE DEF i, s, t
  <1> QED
    BY <1>1, <1>3, <1>4, <1>5, CleanUpResult

(* The clean-up alone: span_feed_stats and every refusal.                    *)
LEMMA CleanUpAlone ==
    ASSUME FeedInv, NEW i \in FeedIndexes, feedSlots[i].alive,
           CleanUp(i, CleanStream(i)), UNCHANGED <<created, clientVars>>
    PROVE  FeedInv'
  <1>1. /\ CleanStream(i) \in Streams /\ CleanStream(i).open /\ CleanStream(i).drained \in Nat
        /\ CleanStream(i).drained <= CleanStream(i).published
    BY CleanStreamInOrder
  <1> QED
    BY <1>1, CleanUpResult

(* span_feed_stats.                                                          *)
LEMMA FeedInvStats ==
    ASSUME FeedInv, NEW f \in feeds, span_feed_stats(f)
    PROVE  FeedInv'
  BY OpenFeed, CleanUpAlone DEF span_feed_stats

-----------------------------------------------------------------------------
(* The slot an allocate function finds is free.                              *)
LEMMA FirstFreeIsFree ==
    ASSUME NEW n \in Nat, NEW table, DOMAIN table = 1 .. n - 1, FreeIndexes(table) # {}
    PROVE  FirstFree(table) \in FreeIndexes(table)
  <1> DEFINE free == FreeIndexes(table)
  <1>1. free \subseteq Nat /\ free # {}
    BY DEF FreeIndexes
  <1>2. \E k \in free : \A l \in free : k <= l
    <2> HIDE DEF free
    <2> QED
      BY <1>1, LeastElement
  <1> QED
    BY <1>2 DEF FirstFree

(* The generation a slot is claimed with is never 0, also when it wraps.     *)
LEMMA ClaimedGeneration ==
    ASSUME NEW slot, slot.generation \in 0 .. MaxGeneration
    PROVE  ClaimGeneration(slot) \in 1 .. MaxGeneration
  BY MaxGenerationAssumption DEF ClaimGeneration, next_generation

(* What holds of the table of feeds and of the streams once an operation has *)
(* changed only what is pending in slot i and has left its stream as t.      *)
LEMMA OperationFeeds ==
    ASSUME FeedInv, NEW i \in FeedIndexes, feedSlots[i].alive, NEW t \in Streams,
           t.open, t.drained <= t.published, \A x \in t.outstanding : x <= t.drained,
           NEW F2 \in [FeedIndexes -> FeedSlots], SameFeeds(CleanFeeds(i), F2)
    PROVE  LET T == [streams EXCEPT ![feedSlots[i].stream] = t]
           IN  FeedPart(F2, T, created, feeds, renderers) /\ DrainsInOrder(T)
  <1> DEFINE T == [streams EXCEPT ![feedSlots[i].stream] = t]
  <1>1. Cleaned(i)
    BY CleanUpKeeps
  <1>2. /\ T \in [StreamIds -> Streams] /\ DrainsInOrder(T)
        /\ \A s \in StreamIds : T[s].open = CleanStreams(i)[s].open
    BY ResultStreams
  <1> HIDE DEF T
  <1>3. FeedPart(CleanFeeds(i), CleanStreams(i), created, feeds, renderers)
    BY <1>1 DEF Cleaned
  <1>4. FeedPart(F2, T, created, feeds, renderers)
    BY <1>2, <1>3, FeedFrame
  <1> QED
    BY <1>2, <1>4 DEF T

(* The tables and objects after the clean-up are well typed.                 *)
LEMMA CleanTypes ==
    ASSUME FeedInv, NEW i \in FeedIndexes, feedSlots[i].alive
    PROVE  /\ CleanSpans(i) \in [SpanIndexes -> SpanSlots]
           /\ CleanReservations(i) \in [ReservationIndexes -> ReservationSlots]
           /\ CleanFeeds(i)[i].alive
           /\ CleanFeeds(i)[i].stream = feedSlots[i].stream
           /\ \A j \in FeedIndexes : /\ CleanFeeds(i)[j].alive = feedSlots[j].alive
                                     /\ CleanFeeds(i)[j].stream = feedSlots[j].stream
  <1>1. Cleaned(i)
    BY CleanUpKeeps
  <1>2. SameFeeds(feedSlots, CleanFeeds(i))
    BY CleanFeedsFacts
  <1> QED
    BY <1>1, <1>2
       DEF Cleaned, SpanPart, SpansTyped, ReservationPart, ReservationsTyped, SameFeeds

(* What a granted reservation adds.                                          *)
LEMMA FeedInvReserve ==
    ASSUME FeedInv, NEW f \in feeds, NEW granted \in BOOLEAN, NEW delivered \in BOOLEAN,
           span_feed_reserve(f, granted, delivered)
    PROVE  FeedInv'
  <1> DEFINE i == f.token[1]
             s == CleanStream(i)
             R == CleanReservations(i)
             k == FirstFree(R)
             slot == reservation_allocate(R[k], f.token)
             token == make_token(k, slot.generation)
             t == [s EXCEPT !.reserved = TRUE]
             F == CleanFeeds(i)
             p == IF delivered THEN NoToken ELSE token
             F2 == [F EXCEPT ![i].pendingReservation = p]
             R2 == [R EXCEPT ![k] = slot]
             T0 == CleanStreams(i)
             T == [streams EXCEPT ![feedSlots[i].stream] = t]
             r == [token |-> token, feed |-> f.token]
  <1>1. /\ i \in FeedIndexes /\ feedSlots[i].alive /\ f.token \in FeedTokens
        /\ TokenOf(F, i) = f.token
    BY OpenFeed
  <1>2. CASE ~granted \/ FreeIndexes(R) = {}
    <2>1. CleanUp(i, CleanStream(i)) /\ UNCHANGED <<created, clientVars>>
      BY <1>2 DEF span_feed_reserve, clientVars
    <2> HIDE DEF i
    <2> QED
      BY <1>1, <2>1, CleanUpAlone
  <1>3. CASE ~(~granted \/ FreeIndexes(R) = {})
    <2>1. /\ ~s.reserved
          /\ resSlots' = R2 /\ streams' = T /\ spanSlots' = CleanSpans(i) /\ feedSlots' = F2
          /\ staged' = (IF delivered THEN staged \cup {r} ELSE staged)
          /\ UNCHANGED <<created, feeds, held, renderers>>
      BY <1>3 DEF span_feed_reserve
    <2>2. /\ Cleaned(i) /\ R \in [ReservationIndexes -> ReservationSlots]
          /\ F \in [FeedIndexes -> FeedSlots] /\ F[i].alive /\ F[i].stream = feedSlots[i].stream
          /\ \A j \in FeedIndexes : /\ F[j].alive = feedSlots[j].alive
                                    /\ F[j].stream = feedSlots[j].stream
      BY <1>1, CleanUpKeeps, CleanTypes, CleanFeedsFacts
    <2>3. k \in ReservationIndexes /\ ~R[k].alive
      <3>1. DOMAIN R = 1 .. ReservationCapacity - 1 /\ ReservationCapacity \in Nat
        BY <2>2, FeedConstants DEF ReservationIndexes
      <3>2. k \in FreeIndexes(R)
        <4> HIDE DEF R
        <4> QED
          BY <1>3, <3>1, FirstFreeIsFree
      <3> QED
        BY <2>2, <3>2 DEF FreeIndexes
    <2>4. /\ slot \in ReservationSlots /\ slot.generation \in 1 .. MaxGeneration
          /\ slot.alive /\ slot.feed = f.token
      <3>1. R[k].generation \in 0 .. MaxGeneration
        BY <2>2, <2>3 DEF ReservationSlots
      <3>2. ClaimGeneration(R[k]) \in 1 .. MaxGeneration
        <4> HIDE DEF R, k
        <4> QED
          BY <3>1, ClaimedGeneration
      <3> QED
        BY <1>1, <3>2, MaxGenerationAssumption DEF reservation_allocate, ReservationSlots
    <2>5. token \in ReservationTokens /\ p \in ReservationTokens \cup {NoToken}
      <3> HIDE DEF slot, k
      <3> QED
        BY <2>3, <2>4 DEF make_token, ReservationTokens, Tokens
    <2>6. r \in ReservationObjects /\ r.token = token /\ r.feed = f.token
      BY <1>1, <2>5 DEF ReservationObjects
    <2>7. /\ R2 \in [ReservationIndexes -> ReservationSlots] /\ R2[k] = slot
          /\ \A l \in ReservationIndexes \ {k} : R2[l] = R[l]
      <3> HIDE DEF R, k, slot
      <3> QED
        BY <2>2, <2>3, <2>4
    <2>8. /\ F2 \in [FeedIndexes -> FeedSlots] /\ SameFeeds(F, F2)
          /\ F2[i].pendingReservation = p
          /\ \A j \in FeedIndexes \ {i} : F2[j].pendingReservation = F[j].pendingReservation
          /\ \A j \in FeedIndexes : SamePendingSpan(F, F2, j)
      <3> HIDE DEF F, p, i
      <3> QED
        BY <1>1, <2>2, <2>5 DEF SameFeeds, SamePendingSpan, FeedSlots
    <2>9. /\ s \in Streams /\ s.open /\ s.drained <= s.published
          /\ \A x \in s.outstanding : x <= s.drained
          /\ T0[feedSlots[i].stream] = s
      BY <1>1, CleanStreamInOrder
    <2>10. /\ t \in Streams /\ t.open /\ t.drained <= t.published
           /\ \A x \in t.outstanding : x <= t.drained
           /\ t.reserved /\ t.outstanding = s.outstanding /\ t.overReleased = s.overReleased
      <3> HIDE DEF s
      <3> QED
        BY <2>9 DEF Streams
    <2>11. /\ T[feedSlots[i].stream] = t
           /\ \A j \in FeedIndexes \ {i} : feedSlots[j].alive =>
                /\ SameSpans(T0, T, feedSlots[j].stream)
                /\ T[feedSlots[j].stream].reserved = T0[feedSlots[j].stream].reserved
      <3> HIDE DEF i, t
      <3> QED
        BY <1>1, <2>10, ResultStreams
    <2>12. FeedPart(F2, T, created, feeds, renderers) /\ DrainsInOrder(T)
      <3> HIDE DEF i, t, F2
      <3> QED
        BY <1>1, <2>8, <2>10, OperationFeeds
    <2>13. /\ SpanPart(F, CleanSpans(i), T0, held)
           /\ ReservationPart(F, R, T0, staged)
      BY <2>2 DEF Cleaned
    <2> HIDE DEF i, s, R, k, slot, t, F, F2, R2, T0, T, r, p
    <2>14. SpanFramed(F, CleanSpans(i), T0, held, F2, T)
      BY <2>2, <2>8, <2>9, <2>10, <2>11, <2>13 DEF SpanFramed, SameSpans
    <2>15. ReservationAdded(F, R, T0, staged, i, k, F2, R2, T, r, staged')
      <3>1. \/ F2[i].pendingReservation = NoToken /\ staged' = staged \cup {r}
            \/ F2[i].pendingReservation = r.token /\ staged' = staged
        BY <2>1, <2>6, <2>8 DEF p
      <3>2. r.token = make_token(k, R2[k].generation)
        BY <2>6, <2>7
      <3> HIDE DEF token
      <3> QED
        BY <1>1, <2>1, <2>2, <2>3, <2>4, <2>6, <2>7, <2>8, <2>9, <2>10, <2>11, <2>13, <3>1, <3>2
           DEF ReservationAdded
    <2>16. SpanPart(F2, CleanSpans(i), T, held) /\ ReservationPart(F2, R2, T, staged')
      BY <2>14, <2>15, SpanFrame, ReservationAdd
    <2> QED
      BY <2>1, <2>12, <2>16 DEF FeedInv
  <1> QED
    BY <1>2, <1>3

(* span_release_slot kills one slot.                                         *)
LEMMA SpanReleased ==
    ASSUME NEW S \in [SpanIndexes -> SpanSlots], NEW token, token[1] \in SpanIndexes
    PROVE  LET S2 == span_release_slot(S, token)
           IN  /\ S2 \in [SpanIndexes -> SpanSlots] /\ ~S2[token[1]].alive
               /\ \A l \in SpanIndexes \ {token[1]} : S2[l] = S[l]
  <1> DEFINE k == token[1]
             S2 == [S EXCEPT ![k].alive = FALSE, ![k].feed = NoToken, ![k].info = 0]
  <1>1. 0 \in 0 .. MaxSpans
    BY FeedConstants
  <1> HIDE DEF k
  <1>2. /\ S2 \in [SpanIndexes -> SpanSlots] /\ ~S2[k].alive
        /\ \A l \in SpanIndexes \ {k} : S2[l] = S[l]
    BY <1>1, ZenonT(60) DEF SpanSlots, k
  <1> QED
    BY <1>2 DEF span_release_slot, k

(* reservation_release_slot kills one slot.                                  *)
LEMMA ReservationReleased ==
    ASSUME NEW R \in [ReservationIndexes -> ReservationSlots], NEW token,
           token[1] \in ReservationIndexes
    PROVE  LET R2 == reservation_release_slot(R, token)
           IN  /\ R2 \in [ReservationIndexes -> ReservationSlots] /\ ~R2[token[1]].alive
               /\ \A l \in ReservationIndexes \ {token[1]} : R2[l] = R[l]
  <1> DEFINE k == token[1]
             R2 == [R EXCEPT ![k].alive = FALSE, ![k].feed = NoToken]
  <1> HIDE DEF k
  <1>1. /\ R2 \in [ReservationIndexes -> ReservationSlots] /\ ~R2[k].alive
        /\ \A l \in ReservationIndexes \ {k} : R2[l] = R[l]
    BY DEF ReservationSlots, k
  <1> QED
    BY <1>1 DEF reservation_release_slot, k

(* A span that is outstanding is marked consumed without an over-release.    *)
LEMMA MarkedConsumed ==
    ASSUME NEW s \in Streams, NEW x
    PROVE  LET t == streamMarkSpanConsumed(s, x)
           IN  /\ t \in Streams /\ t.open = s.open
               /\ t.drained = s.drained /\ t.published = s.published
               /\ t.reserved = s.reserved /\ t.outstanding = s.outstanding \ {x}
               /\ t.overReleased => s.overReleased \/ x \notin s.outstanding
  BY DEF Streams, streamMarkSpanConsumed

(* The reservation that a client still has is the one in its slot, before    *)
(* and after the clean-up of its feed.                                       *)
LEMMA StagedReservation ==
    ASSUME FeedInv, NEW r \in staged, Resolves(feedSlots, FeedOf(resSlots, r.token))
    PROVE  LET i == FeedOf(resSlots, r.token)[1]
               k == r.token[1]
           IN  /\ i \in FeedIndexes /\ feedSlots[i].alive
               /\ k \in ReservationIndexes
               /\ CleanReservations(i)[k].alive
               /\ CleanReservations(i)[k].feed = TokenOf(CleanFeeds(i), i)
               /\ \A g \in staged \ {r} :
                     g.token # make_token(k, CleanReservations(i)[k].generation)
  <1> DEFINE feed == FeedOf(resSlots, r.token)
             i == feed[1]
             k == r.token[1]
             R == CleanReservations(i)
  <1>1. /\ Resolves(resSlots, r.token) /\ resSlots[k].feed = r.feed
        /\ resSlots \in [ReservationIndexes -> ReservationSlots]
        /\ staged \subseteq ReservationObjects
    BY DEF FeedInv, ReservationPart, ReservationsStaged, ReservationsTyped
  <1>2. k \in ReservationIndexes /\ feed = r.feed
    BY <1>1 DEF Resolves, FeedOf
  <1>3. feed \in FeedTokens \cup {NoToken}
    BY <1>1, <1>2 DEF ReservationObjects
  <1>4. i \in FeedIndexes /\ feedSlots[i].alive /\ TokenOf(CleanFeeds(i), i) = feed
    <2> HIDE DEF feed
    <2> QED
      BY <1>3, ResolvedFeed DEF feed
  <1>5. /\ ReservationsStaged(R, staged) /\ R \in [ReservationIndexes -> ReservationSlots]
    <2> HIDE DEF i
    <2> QED
      BY <1>4, CleanUpKeeps DEF Cleaned, ReservationPart, ReservationsTyped
  <1>6. /\ R[k].alive /\ R[k].feed = r.feed /\ R[k].generation = r.token[2]
    BY <1>5 DEF ReservationsStaged, Resolves
  <1>7. ASSUME NEW g \in staged \ {r}
        PROVE  g.token # make_token(k, R[k].generation)
    <2>1. g \in ReservationObjects /\ r \in ReservationObjects
      BY <1>1
    <2>2. r.token = make_token(k, R[k].generation)
      <3>1. r.token = <<r.token[1], r.token[2]>>
        BY <2>1 DEF ReservationObjects, ReservationTokens, Tokens
      <3> QED
        BY <1>6, <3>1 DEF make_token
    <2>3. resSlots[g.token[1]].feed = g.feed
      BY DEF FeedInv, ReservationPart, ReservationsStaged
    <2>4. g.token = r.token => g.feed = r.feed
      BY <1>1, <2>3
    <2>5. g.token = r.token => g = r
      BY <2>1, <2>4 DEF ReservationObjects
    <2> QED
      BY <2>2, <2>5
  <1> QED
    BY <1>2, <1>4, <1>6, <1>7

(* Committing or cancelling a reservation.                                   *)
LEMMA FeedInvEndReservation ==
    ASSUME FeedInv, NEW r \in staged, NEW ok \in BOOLEAN, NEW n \in {0, 1},
           EndReservation(r, ok, n)
    PROVE  FeedInv'
  <1> DEFINE i == FeedOf(resSlots, r.token)[1]
             s == CleanStream(i)
             R == CleanReservations(i)
             k == r.token[1]
             t1 == Publish(s, n)
             t == streamCancelReserved(t1)
             F == CleanFeeds(i)
             R2 == reservation_release_slot(R, r.token)
             T0 == CleanStreams(i)
             T == [streams EXCEPT ![feedSlots[i].stream] = t]
  <1>1. /\ i \in FeedIndexes /\ feedSlots[i].alive
        /\ k \in ReservationIndexes /\ R[k].alive /\ R[k].feed = TokenOf(F, i)
        /\ \A g \in staged \ {r} : g.token # make_token(k, R[k].generation)
    BY StagedReservation DEF EndReservation
  <1>2. CASE ~ok
    <2>1. CleanUp(i, CleanStream(i)) /\ UNCHANGED <<created, clientVars>>
      BY <1>2 DEF EndReservation, clientVars
    <2> HIDE DEF i
    <2> QED
      BY <1>1, <2>1, CleanUpAlone
  <1>3. CASE ok
    <2>1. /\ CanPublish(s, n)
          /\ resSlots' = R2 /\ streams' = T /\ spanSlots' = CleanSpans(i) /\ feedSlots' = F
          /\ staged' = staged \ {r}
          /\ UNCHANGED <<created, feeds, held, renderers>>
      BY <1>3 DEF EndReservation
    <2>2. /\ Cleaned(i) /\ R \in [ReservationIndexes -> ReservationSlots]
          /\ F \in [FeedIndexes -> FeedSlots] /\ F[i].alive /\ F[i].stream = feedSlots[i].stream
          /\ \A j \in FeedIndexes : /\ F[j].alive = feedSlots[j].alive
                                    /\ F[j].stream = feedSlots[j].stream
          /\ F[i].pendingReservation = NoToken
      BY <1>1, CleanUpKeeps, CleanTypes, CleanFeedsFacts
    <2>3. /\ R2 \in [ReservationIndexes -> ReservationSlots] /\ ~R2[k].alive
          /\ \A l \in ReservationIndexes \ {k} : R2[l] = R[l]
      <3> HIDE DEF R
      <3> QED
        BY <1>1, <2>2, ReservationReleased
    <2>4. /\ s \in Streams /\ s.open /\ s.drained <= s.published /\ s.published \in 0 .. MaxSpans
          /\ \A x \in s.outstanding : x <= s.drained
          /\ T0[feedSlots[i].stream] = s
      BY <1>1, CleanStreamInOrder
    <2>5. /\ t1 \in Streams /\ t1.open = s.open /\ t1.drained = s.drained
          /\ t1.outstanding = s.outstanding /\ t1.overReleased = s.overReleased
          /\ t1.drained <= t1.published
      <3> HIDE DEF s
      <3> QED
        BY <2>1, <2>4, Publishes
    <2>6. /\ t \in Streams /\ t.open /\ t.drained <= t.published
          /\ \A x \in t.outstanding : x <= t.drained
          /\ ~t.reserved /\ t.outstanding = s.outstanding /\ t.overReleased = s.overReleased
      <3> HIDE DEF s, t1
      <3> QED
        BY <2>4, <2>5 DEF Streams, streamCancelReserved
    <2>7. /\ T[feedSlots[i].stream] = t
          /\ \A j \in FeedIndexes \ {i} : feedSlots[j].alive =>
               /\ SameSpans(T0, T, feedSlots[j].stream)
               /\ T[feedSlots[j].stream].reserved = T0[feedSlots[j].stream].reserved
      <3> HIDE DEF i, t
      <3> QED
        BY <1>1, <2>6, ResultStreams
    <2>8. SameFeeds(F, F)
      <3> HIDE DEF F
      <3> QED
        BY <2>2 DEF SameFeeds
    <2>9. FeedPart(F, T, created, feeds, renderers) /\ DrainsInOrder(T)
      <3> HIDE DEF i, t
      <3> QED
        BY <1>1, <2>2, <2>6, <2>8, OperationFeeds
    <2>10. /\ SpanPart(F, CleanSpans(i), T0, held)
           /\ ReservationPart(F, R, T0, staged)
      BY <2>2 DEF Cleaned
    <2> HIDE DEF i, s, R, k, t, F, R2, T0, T
    <2>11. SpanFramed(F, CleanSpans(i), T0, held, F, T)
      BY <2>2, <2>4, <2>6, <2>7, <2>8, <2>10 DEF SpanFramed, SameSpans, SamePendingSpan
    <2>12. ReservationDropped(F, R, T0, staged, i, k, F, R2, T, staged')
      BY <1>1, <2>1, <2>2, <2>3, <2>6, <2>7, <2>8, <2>10 DEF ReservationDropped
    <2>13. SpanPart(F, CleanSpans(i), T, held) /\ ReservationPart(F, R2, T, staged')
      BY <2>11, <2>12, SpanFrame, ReservationDrop
    <2> QED
      BY <2>1, <2>9, <2>13 DEF FeedInv
  <1> QED
    BY <1>2, <1>3

(* The span that a client still holds is the one in its slot, before and     *)
(* after the clean-up of its feed.                                           *)
LEMMA HeldSpan ==
    ASSUME FeedInv, NEW h \in held, Resolves(feedSlots, FeedOf(spanSlots, h.token))
    PROVE  LET i == FeedOf(spanSlots, h.token)[1]
               k == h.token[1]
           IN  /\ i \in FeedIndexes /\ feedSlots[i].alive
               /\ k \in SpanIndexes
               /\ CleanSpans(i)[k].alive
               /\ CleanSpans(i)[k].feed = TokenOf(CleanFeeds(i), i)
               /\ CleanSpans(i)[k].info = spanSlots[k].info
               /\ \A g \in held \ {h} : g.token # make_token(k, CleanSpans(i)[k].generation)
  <1> DEFINE feed == FeedOf(spanSlots, h.token)
             i == feed[1]
             k == h.token[1]
             S == CleanSpans(i)
  <1>1. /\ Resolves(spanSlots, h.token)
        /\ spanSlots[k].feed = h.feed /\ spanSlots[k].info = h.info
        /\ spanSlots \in [SpanIndexes -> SpanSlots]
        /\ held \subseteq SpanObjects
    BY DEF FeedInv, SpanPart, SpansHeld, SpansTyped
  <1>2. k \in SpanIndexes /\ feed = h.feed
    BY <1>1 DEF Resolves, FeedOf
  <1>3. feed \in FeedTokens \cup {NoToken}
    BY <1>1, <1>2 DEF SpanObjects
  <1>4. i \in FeedIndexes /\ feedSlots[i].alive /\ TokenOf(CleanFeeds(i), i) = feed
    <2> HIDE DEF feed
    <2> QED
      BY <1>3, ResolvedFeed DEF feed
  <1>5. SpansHeld(S, held) /\ S \in [SpanIndexes -> SpanSlots]
    <2> HIDE DEF i
    <2> QED
      BY <1>4, CleanUpKeeps DEF Cleaned, SpanPart, SpansTyped
  <1>6. S[k].alive /\ S[k].feed = h.feed /\ S[k].info = h.info /\ S[k].generation = h.token[2]
    BY <1>5 DEF SpansHeld, Resolves
  <1>7. ASSUME NEW g \in held \ {h}
        PROVE  g.token # make_token(k, S[k].generation)
    <2>1. g \in SpanObjects /\ h \in SpanObjects
      BY <1>1
    <2>2. h.token = make_token(k, S[k].generation)
      <3>1. h.token = <<h.token[1], h.token[2]>>
        BY <2>1 DEF SpanObjects, SpanTokens, Tokens
      <3> QED
        BY <1>6, <3>1 DEF make_token
    <2>3. spanSlots[g.token[1]].feed = g.feed /\ spanSlots[g.token[1]].info = g.info
      BY DEF FeedInv, SpanPart, SpansHeld
    <2>4. g.token = h.token => g.feed = h.feed /\ g.info = h.info
      BY <1>1, <2>3
    <2>5. g.token = h.token => g = h
      BY <2>1, <2>4 DEF SpanObjects
    <2> QED
      BY <2>2, <2>5
  <1> QED
    BY <1>1, <1>2, <1>4, <1>6, <1>7

(* Releasing a span.                                                         *)
LEMMA FeedInvRelease ==
    ASSUME FeedInv, NEW h \in held, span_release(h)
    PROVE  FeedInv'
  <1> DEFINE i == FeedOf(spanSlots, h.token)[1]
             s == CleanStream(i)
             S == CleanSpans(i)
             k == h.token[1]
             t == streamMarkSpanConsumed(s, spanSlots[k].info)
             F == CleanFeeds(i)
             S2 == span_release_slot(S, h.token)
             T0 == CleanStreams(i)
             T == [streams EXCEPT ![feedSlots[i].stream] = t]
  <1>1. /\ i \in FeedIndexes /\ feedSlots[i].alive
        /\ k \in SpanIndexes /\ S[k].alive /\ S[k].feed = TokenOf(F, i)
        /\ S[k].info = spanSlots[k].info
        /\ \A g \in held \ {h} : g.token # make_token(k, S[k].generation)
    BY HeldSpan DEF span_release
  <1>2. /\ spanSlots' = S2 /\ streams' = T /\ resSlots' = CleanReservations(i) /\ feedSlots' = F
        /\ held' = held \ {h}
        /\ UNCHANGED <<created, feeds, staged, renderers>>
    BY DEF span_release
  <1>3. /\ Cleaned(i) /\ S \in [SpanIndexes -> SpanSlots]
        /\ F \in [FeedIndexes -> FeedSlots] /\ F[i].alive /\ F[i].stream = feedSlots[i].stream
        /\ \A j \in FeedIndexes : /\ F[j].alive = feedSlots[j].alive
                                  /\ F[j].stream = feedSlots[j].stream
        /\ F[i].pendingSpan = NoToken
    BY <1>1, CleanUpKeeps, CleanTypes, CleanFeedsFacts
  <1>4. /\ S2 \in [SpanIndexes -> SpanSlots] /\ ~S2[k].alive
        /\ \A l \in SpanIndexes \ {k} : S2[l] = S[l]
    <2> HIDE DEF S
    <2> QED
      BY <1>1, <1>3, SpanReleased
  <1>5. /\ s \in Streams /\ s.open /\ s.drained <= s.published
        /\ \A x \in s.outstanding : x <= s.drained
        /\ T0[feedSlots[i].stream] = s
    BY <1>1, CleanStreamInOrder
  <1>6. /\ t \in Streams /\ t.open /\ t.drained <= t.published
        /\ \A x \in t.outstanding : x <= t.drained
        /\ t.reserved = s.reserved /\ t.outstanding = s.outstanding \ {S[k].info}
        /\ t.overReleased => s.overReleased \/ S[k].info \notin s.outstanding
    <2>1. t = streamMarkSpanConsumed(s, S[k].info)
      BY <1>1
    <2> HIDE DEF s, S, t
    <2> QED
      BY <1>5, <2>1, MarkedConsumed
  <1>7. /\ T[feedSlots[i].stream] = t
        /\ \A j \in FeedIndexes \ {i} : feedSlots[j].alive =>
             /\ SameSpans(T0, T, feedSlots[j].stream)
             /\ T[feedSlots[j].stream].reserved = T0[feedSlots[j].stream].reserved
    <2> HIDE DEF i, t
    <2> QED
      BY <1>1, <1>6, ResultStreams
  <1>8. SameFeeds(F, F)
    <2> HIDE DEF F
    <2> QED
      BY <1>3 DEF SameFeeds
  <1>9. FeedPart(F, T, created, feeds, renderers) /\ DrainsInOrder(T)
    <2> HIDE DEF i, t
    <2> QED
      BY <1>1, <1>3, <1>6, <1>8, OperationFeeds
  <1>10. /\ SpanPart(F, S, T0, held)
         /\ ReservationPart(F, CleanReservations(i), T0, staged)
    BY <1>3 DEF Cleaned
  <1> HIDE DEF i, s, S, k, t, F, S2, T0, T
  <1>11. ReservationFramed(F, CleanReservations(i), T0, staged, F, T)
    BY <1>3, <1>5, <1>6, <1>7, <1>8, <1>10 DEF ReservationFramed
  <1>12. SpanDropped(F, S, T0, held, i, k, F, S2, T, held')
    <2>1. \A j \in FeedIndexes \ {i} : SamePendingSpan(F, F, j)
      BY DEF SamePendingSpan
    <2>2. /\ T[F[i].stream].outstanding = T0[F[i].stream].outstanding \ {S[k].info}
          /\ T[F[i].stream].overReleased =>
                T0[F[i].stream].overReleased \/ S[k].info \notin T0[F[i].stream].outstanding
      BY <1>3, <1>5, <1>6, <1>7
    <2> QED
      BY <1>1, <1>2, <1>3, <1>4, <1>7, <1>8, <1>10, <2>1, <2>2 DEF SpanDropped
  <1>13. SpanPart(F, S2, T, held') /\ ReservationPart(F, CleanReservations(i), T, staged)
    BY <1>11, <1>12, SpanDrop, ReservationFrame
  <1> QED
    BY <1>2, <1>9, <1>13 DEF FeedInv

(* The span a stream drains next was not outstanding.                        *)
LEMMA StreamDrained ==
    ASSUME NEW s \in Streams, s.drained <= s.published, s.drained # s.published,
           \A x \in s.outstanding : x \in Nat /\ x <= s.drained
    PROVE  LET t == streamDrainSpan(s)
               x == s.drained + 1
           IN  /\ x \in SpanInfos /\ x \notin s.outstanding
               /\ t \in Streams /\ t.open = s.open /\ t.reserved = s.reserved
               /\ t.drained = x /\ t.published = s.published /\ t.drained <= t.published
               /\ t.outstanding = s.outstanding \cup {x}
               /\ t.overReleased = s.overReleased
               /\ \A y \in t.outstanding : y <= t.drained
  <1> DEFINE x == s.drained + 1
  <1>1. s.drained \in 0 .. MaxSpans /\ s.published \in 0 .. MaxSpans
    BY DEF Streams
  <1>2. /\ x \in 1 .. MaxSpans /\ x \in 0 .. MaxSpans /\ x <= s.published
        /\ \A y \in s.outstanding : y <= x /\ y # x
    BY <1>1, FeedConstants
  <1> HIDE DEF x
  <1>3. streamDrainSpan(s) = [s EXCEPT !.drained = x, !.outstanding = @ \cup {x}]
    BY DEF streamDrainSpan, x, Streams
  <1>4. /\ streamDrainSpan(s) \in Streams
        /\ streamDrainSpan(s).open = s.open
        /\ streamDrainSpan(s).reserved = s.reserved
        /\ streamDrainSpan(s).drained = x
        /\ streamDrainSpan(s).published = s.published
        /\ streamDrainSpan(s).outstanding = s.outstanding \cup {x}
        /\ streamDrainSpan(s).overReleased = s.overReleased
    BY <1>2, <1>3, ZenonT(60) DEF Streams, SpanInfos
  <1> QED
    BY <1>2, <1>4, FeedConstants DEF SpanInfos, x

(* Draining a span.                                                          *)
LEMMA FeedInvDrain ==
    ASSUME FeedInv, NEW f \in feeds, NEW readable \in BOOLEAN, NEW delivered \in BOOLEAN,
           span_feed_drain(f, readable, delivered)
    PROVE  FeedInv'
  <1> DEFINE i == f.token[1]
             s == CleanStream(i)
             x == s.drained + 1
             S == CleanSpans(i)
             k == FirstFree(S)
             slot == span_allocate(S[k], f.token, x)
             token == make_token(k, slot.generation)
             t == streamDrainSpan(s)
             F == CleanFeeds(i)
             p == IF delivered THEN NoToken ELSE token
             q == IF delivered THEN 0 ELSE x
             F2 == [F EXCEPT ![i].pendingSpan = p, ![i].pendingInfo = q]
             S2 == [S EXCEPT ![k] = slot]
             T0 == CleanStreams(i)
             T == [streams EXCEPT ![feedSlots[i].stream] = t]
             h == [token |-> token, feed |-> f.token, info |-> x]
  <1>1. /\ i \in FeedIndexes /\ feedSlots[i].alive /\ f.token \in FeedTokens
        /\ TokenOf(F, i) = f.token
    BY OpenFeed
  <1>2. /\ s \in Streams /\ s.open /\ s.drained \in Nat /\ s.drained <= s.published
        /\ \A y \in s.outstanding : y \in Nat /\ y <= s.drained
        /\ T0[feedSlots[i].stream] = s
    BY <1>1, CleanStreamInOrder
  <1>3. CASE s.drained = s.published
    <2>1. CleanUp(i, CleanStream(i)) /\ UNCHANGED <<created, clientVars>>
      BY <1>3 DEF span_feed_drain, clientVars
    <2> HIDE DEF i
    <2> QED
      BY <1>1, <2>1, CleanUpAlone
  <1>4. ASSUME s.drained # s.published
        PROVE  /\ x \in SpanInfos /\ x \notin s.outstanding
               /\ t \in Streams /\ t.open /\ t.reserved = s.reserved
               /\ t.drained = x /\ t.drained <= t.published
               /\ t.outstanding = s.outstanding \cup {x}
               /\ t.overReleased = s.overReleased
               /\ \A y \in t.outstanding : y <= t.drained
    <2> HIDE DEF s
    <2> QED
      BY <1>2, <1>4, StreamDrained
  <1>5. CASE s.drained # s.published /\ (~readable \/ FreeIndexes(S) = {})
    <2> DEFINE u == streamMarkSpanConsumed(t, x)
    <2>1. CleanUp(i, u) /\ UNCHANGED <<created, clientVars>>
      BY <1>5 DEF span_feed_drain, clientVars
    <2>2. /\ u \in Streams /\ u.open = t.open /\ u.drained = t.drained
          /\ u.published = t.published /\ u.reserved = t.reserved
          /\ u.outstanding = t.outstanding \ {x}
          /\ u.overReleased => t.overReleased \/ x \notin t.outstanding
      <3> HIDE DEF t, x
      <3> QED
        BY <1>4, <1>5, MarkedConsumed
    <2>3. /\ u.open /\ u.drained <= u.published /\ s.drained <= u.drained
          /\ u.outstanding = s.outstanding
          /\ u.overReleased => s.overReleased
          /\ u.reserved = s.reserved
      <3>1. s.drained <= x
        BY <1>2
      <3> HIDE DEF u, t, s, x
      <3> QED
        BY <1>4, <1>5, <2>2, <3>1
    <2> HIDE DEF u, i
    <2> QED
      BY <1>1, <2>1, <2>2, <2>3, CleanUpResult
  <1>6. CASE s.drained # s.published /\ ~(~readable \/ FreeIndexes(S) = {})
    <2>1. /\ spanSlots' = S2 /\ streams' = T /\ resSlots' = CleanReservations(i)
          /\ feedSlots' = F2
          /\ held' = (IF delivered THEN held \cup {h} ELSE held)
          /\ UNCHANGED <<created, feeds, staged, renderers>>
      BY <1>6 DEF span_feed_drain
    <2>2. /\ Cleaned(i) /\ S \in [SpanIndexes -> SpanSlots]
          /\ F \in [FeedIndexes -> FeedSlots] /\ F[i].alive /\ F[i].stream = feedSlots[i].stream
          /\ \A j \in FeedIndexes : /\ F[j].alive = feedSlots[j].alive
                                    /\ F[j].stream = feedSlots[j].stream
          /\ F[i].pendingSpan = NoToken
      BY <1>1, CleanUpKeeps, CleanTypes, CleanFeedsFacts
    <2>3. k \in SpanIndexes /\ ~S[k].alive
      <3>1. DOMAIN S = 1 .. SpanCapacity - 1 /\ SpanCapacity \in Nat
        BY <2>2, FeedConstants DEF SpanIndexes
      <3>2. k \in FreeIndexes(S)
        <4> HIDE DEF S
        <4> QED
          BY <1>6, <3>1, FirstFreeIsFree
      <3> QED
        BY <2>2, <3>2 DEF FreeIndexes
    <2>4. x \in SpanInfos /\ x \in 0 .. MaxSpans
      <3>1. x \in SpanInfos
        BY <1>4, <1>6
      <3> HIDE DEF x
      <3> QED
        BY <3>1, FeedConstants DEF SpanInfos
    <2>5. /\ slot \in SpanSlots /\ slot.generation \in 1 .. MaxGeneration
          /\ slot.alive /\ slot.feed = f.token /\ slot.info = x
      <3>1. S[k].generation \in 0 .. MaxGeneration
        BY <2>2, <2>3 DEF SpanSlots
      <3>2. ClaimGeneration(S[k]) \in 1 .. MaxGeneration
        <4> HIDE DEF S, k
        <4> QED
          BY <3>1, ClaimedGeneration
      <3> HIDE DEF x, S, k
      <3> QED
        BY <1>1, <2>4, <3>2, MaxGenerationAssumption DEF span_allocate, SpanSlots
    <2>6. /\ token \in SpanTokens /\ p \in SpanTokens \cup {NoToken} /\ q \in 0 .. MaxSpans
      <3>1. 0 \in 0 .. MaxSpans
        BY FeedConstants
      <3> HIDE DEF slot, k, x
      <3> QED
        BY <2>3, <2>4, <2>5, <3>1 DEF make_token, SpanTokens, Tokens
    <2>7. h \in SpanObjects /\ h.token = token /\ h.feed = f.token /\ h.info = x
      <3> HIDE DEF token, x
      <3> QED
        BY <1>1, <2>4, <2>6 DEF SpanObjects
    <2>8. /\ S2 \in [SpanIndexes -> SpanSlots] /\ S2[k] = slot
          /\ \A l \in SpanIndexes \ {k} : S2[l] = S[l]
      <3> HIDE DEF S, k, slot
      <3> QED
        BY <2>2, <2>3, <2>5
    <2>9. /\ F2 \in [FeedIndexes -> FeedSlots] /\ SameFeeds(F, F2)
          /\ F2[i].pendingSpan = p /\ F2[i].pendingInfo = q
          /\ \A j \in FeedIndexes : F2[j].pendingReservation = F[j].pendingReservation
          /\ \A j \in FeedIndexes \ {i} : SamePendingSpan(F, F2, j)
      <3> HIDE DEF F, p, q, i
      <3> QED
        BY <1>1, <2>2, <2>6, ZenonT(60) DEF SameFeeds, SamePendingSpan, FeedSlots
    <2>10. /\ t \in Streams /\ t.open /\ t.reserved = s.reserved
           /\ t.drained <= t.published
           /\ t.outstanding = s.outstanding \cup {x} /\ x \notin s.outstanding
           /\ t.overReleased = s.overReleased
           /\ \A y \in t.outstanding : y <= t.drained
      BY <1>4, <1>6
    <2>11. /\ T[feedSlots[i].stream] = t
           /\ \A j \in FeedIndexes \ {i} : feedSlots[j].alive =>
                /\ SameSpans(T0, T, feedSlots[j].stream)
                /\ T[feedSlots[j].stream].reserved = T0[feedSlots[j].stream].reserved
      <3> HIDE DEF i, t
      <3> QED
        BY <1>1, <2>10, ResultStreams
    <2>12. FeedPart(F2, T, created, feeds, renderers) /\ DrainsInOrder(T)
      <3> HIDE DEF i, t, F2
      <3> QED
        BY <1>1, <2>9, <2>10, OperationFeeds
    <2>13. /\ SpanPart(F, S, T0, held)
           /\ ReservationPart(F, CleanReservations(i), T0, staged)
      BY <2>2 DEF Cleaned
    <2> HIDE DEF i, s, S, k, x, slot, t, F, F2, S2, T0, T, h, p, q
    <2>14. ReservationFramed(F, CleanReservations(i), T0, staged, F2, T)
      BY <1>2, <2>2, <2>9, <2>10, <2>11, <2>13 DEF ReservationFramed
    <2>15. SpanAdded(F, S, T0, held, i, k, x, F2, S2, T, h, held')
      <3>1. \/ F2[i].pendingSpan = NoToken /\ held' = held \cup {h}
            \/ F2[i].pendingSpan = h.token /\ F2[i].pendingInfo = x /\ held' = held
        BY <2>1, <2>7, <2>9 DEF p, q
      <3>2. h.token = make_token(k, S2[k].generation)
        BY <2>7, <2>8
      <3>3. /\ T[F[i].stream].outstanding = T0[F[i].stream].outstanding \cup {x}
            /\ x \notin T0[F[i].stream].outstanding
            /\ T[F[i].stream].overReleased => T0[F[i].stream].overReleased
        BY <1>2, <2>2, <2>10, <2>11
      <3> HIDE DEF token
      <3> QED
        BY <1>1, <2>2, <2>3, <2>4, <2>5, <2>7, <2>8, <2>9, <2>11, <2>13, <3>1, <3>2, <3>3
           DEF SpanAdded
    <2>16. SpanPart(F2, S2, T, held') /\ ReservationPart(F2, CleanReservations(i), T, staged)
      BY <2>14, <2>15, SpanAdd, ReservationFrame
    <2> QED
      BY <2>1, <2>12, <2>16, SMTT(40) DEF FeedInv
  <1> QED
    BY <1>3, <1>5, <1>6

(* A stream that is closed and one that is new are streams.                  *)
LEMMA NoStreamTyped == NoStream \in Streams /\ NewStream \in Streams
  <1>1. 0 \in 0 .. MaxSpans /\ {} \in SUBSET SpanInfos
    BY FeedConstants
  <1> QED
    BY <1>1 DEF NoStream, NewStream, Streams

(* Closing a feed: only the renderers' side condition of close_output_feed   *)
(* keeps the streams that are written to open.                               *)
LEMMA FeedInvClose ==
    ASSUME FeedInv, NEW f \in feeds, close_output_feed(f)
    PROVE  FeedInv'
  <1> DEFINE i == f.token[1]
             s == CleanStream(i)
             st == feedSlots[i].stream
             F == CleanFeeds(i)
             S == CleanSpans(i)
             R == CleanReservations(i)
             T0 == CleanStreams(i)
             F2 == [F EXCEPT ![i].alive = FALSE, ![i].stream = 0]
             S2 == invalidate_feed_spans(S, f.token)
             R2 == release_feed_reservations(R, f.token)
             T == [streams EXCEPT ![st] = NoStream]
  <1>1. /\ f \in FeedObjects /\ i \in FeedIndexes /\ feedSlots[i].alive /\ f.token \in FeedTokens
        /\ TokenOf(F, i) = f.token /\ TokenOf(feedSlots, i) = f.token /\ st = f.stream
    BY OpenFeed
  <1>2. f.stream \notin renderers /\ span_feed_close(f)
    BY DEF close_output_feed
  <1>3. CASE s.reserved
    <2>1. CleanUp(i, CleanStream(i)) /\ UNCHANGED <<created, clientVars>>
      BY <1>2, <1>3 DEF span_feed_close
    <2> HIDE DEF i
    <2> QED
      BY <1>1, <2>1, CleanUpAlone
  <1>4. CASE ~s.reserved
    <2>1. /\ spanSlots' = S2 /\ resSlots' = R2 /\ streams' = T /\ feedSlots' = F2
          /\ feeds' = feeds \ {f}
          /\ held' = {h \in held : h.feed # f.token}
          /\ staged' = {r \in staged : r.feed # f.token}
          /\ UNCHANGED <<created, renderers>>
      BY <1>2, <1>4 DEF span_feed_close
    <2>2. /\ Cleaned(i) /\ S \in [SpanIndexes -> SpanSlots]
          /\ R \in [ReservationIndexes -> ReservationSlots]
          /\ F \in [FeedIndexes -> FeedSlots] /\ F[i].alive /\ F[i].stream = st
          /\ \A j \in FeedIndexes : /\ F[j].alive = feedSlots[j].alive
                                    /\ F[j].stream = feedSlots[j].stream
          /\ \A j \in FeedIndexes \ {i} : F[j] = feedSlots[j]
          /\ F[i].pendingSpan = NoToken /\ F[i].pendingReservation = NoToken
      BY <1>1, CleanUpKeeps, CleanTypes, CleanFeedsFacts
    <2>3. /\ F2 \in [FeedIndexes -> FeedSlots] /\ ~F2[i].alive
          /\ F2[i].pendingSpan = NoToken /\ F2[i].pendingReservation = NoToken
          /\ \A j \in FeedIndexes \ {i} : F2[j] = F[j]
      <3>1. 0 \in 0 .. MaxStreams
        BY FeedConstants
      <3> HIDE DEF F, i
      <3> QED
        BY <1>1, <2>2, <3>1, ZenonT(60) DEF FeedSlots
    <2>4. OthersSame(F, F2, i)
      <3> HIDE DEF F, F2
      <3> QED
        BY <2>2, <2>3 DEF OthersSame
    <2>5. /\ streams \in [StreamIds -> Streams] /\ st \in StreamIds
          /\ T0[st] = s
          /\ \A a \in StreamIds : a # st => T0[a] = streams[a]
      BY <1>1, CleanStreamsFacts, CleanStreamFacts DEF FeedInv, FeedPart, FeedsTyped
    <2>6. /\ T \in [StreamIds -> Streams] /\ T[st] = NoStream
          /\ \A a \in StreamIds : a # st => T[a] = streams[a]
      <3> HIDE DEF st
      <3> QED
        BY <2>5, NoStreamTyped
    <2>7. \A j \in FeedIndexes \ {i} : feedSlots[j].alive =>
              feedSlots[j].stream # st /\ feedSlots[j].stream \in StreamIds
      BY <1>1, StreamsApart
    <2>8. \A j \in FeedIndexes \ {i} : F[j].alive =>
              /\ SameSpans(T0, T, F[j].stream)
              /\ T[F[j].stream].reserved = T0[F[j].stream].reserved
      <3> HIDE DEF st, T, T0, F
      <3> QED
        BY <2>2, <2>5, <2>6, <2>7 DEF SameSpans
    <2>9. /\ S2 \in [SpanIndexes -> SpanSlots]
          /\ \A k \in SpanIndexes :
                IF S[k].alive /\ S[k].feed = TokenOf(F, i) THEN ~S2[k].alive ELSE S2[k] = S[k]
      <3>1. 0 \in 0 .. MaxSpans
        BY FeedConstants
      <3>2. TokenOf(F, i) = f.token
        BY <1>1
      <3> HIDE DEF S, i, F
      <3> QED
        BY <2>2, <3>1, <3>2 DEF invalidate_feed_spans, SpanSlots, DeadSpan
    <2>10. /\ R2 \in [ReservationIndexes -> ReservationSlots]
           /\ \A k \in ReservationIndexes :
                IF R[k].alive /\ R[k].feed = TokenOf(F, i) THEN ~R2[k].alive ELSE R2[k] = R[k]
      <3>1. TokenOf(F, i) = f.token
        BY <1>1
      <3> HIDE DEF R, i, F
      <3> QED
        BY <2>2, <3>1 DEF release_feed_reservations, ReservationSlots, DeadReservation
    <2>11. DrainsInOrder(T)
      <3>1. DrainsInOrder(streams)
        BY DEF FeedInv
      <3>2. NoStream.drained <= NoStream.published /\ NoStream.outstanding = {}
        BY DEF NoStream
      <3> HIDE DEF T, st
      <3> QED
        BY <2>6, <3>1, <3>2 DEF DrainsInOrder
    <2>12. FeedPart(F2, T, created, feeds', renderers)
      <3>1. FeedsTyped(F2, T, created, feeds', renderers)
        <4>1. FeedsTyped(feedSlots, streams, created, feeds, renderers)
          BY DEF FeedInv, FeedPart
        <4> HIDE DEF F2, T
        <4> QED
          BY <2>1, <2>3, <2>6, <4>1 DEF FeedsTyped
      <3>2. StreamsOpen(F2, T, created, renderers)
        <4>1. StreamsOpen(feedSlots, streams, created, renderers) /\ renderers \subseteq StreamIds
          BY FeedConstants DEF FeedInv, FeedPart, FeedsTyped, StreamIds
        <4>2. st \notin renderers
          BY <1>1, <1>2
        <4> HIDE DEF F2, T, F, st
        <4> QED
          BY <2>2, <2>3, <2>6, <2>7, <4>1, <4>2 DEF StreamsOpen
      <3>3. StreamsOwn(F2)
        <4>1. StreamsOwn(feedSlots)
          BY DEF FeedInv, FeedPart
        <4> HIDE DEF F2, F
        <4> QED
          BY <2>2, <2>3, <4>1 DEF StreamsOwn
      <3>4. FeedsResolve(F2, feeds')
        <4> SUFFICES ASSUME NEW g \in feeds \ {f}
                     PROVE  Resolves(F2, g.token) /\ F2[g.token[1]].stream = g.stream
          BY <2>1 DEF FeedsResolve
        <4>1. /\ g \in FeedObjects /\ Resolves(feedSlots, g.token)
              /\ feedSlots[g.token[1]].stream = g.stream
              /\ g.token[1] \in FeedIndexes /\ TokenOf(feedSlots, g.token[1]) = g.token
          BY OpenFeed
        <4>2. g.token[1] # i
          <5>1. g.token[1] = i => g.token = f.token /\ g.stream = f.stream
            BY <1>1, <4>1
          <5>2. g.token = f.token /\ g.stream = f.stream => g = f
            BY <1>1, <4>1 DEF FeedObjects
          <5> QED
            BY <5>1, <5>2
        <4>3. F2[g.token[1]] = feedSlots[g.token[1]] /\ DOMAIN F2 = FeedIndexes
          <5> HIDE DEF F2, F
          <5> QED
            BY <2>2, <2>3, <4>1, <4>2
        <4> HIDE DEF F2
        <4> QED
          BY <4>1, <4>3, SMTT(40) DEF Resolves
      <3> QED
        BY <3>1, <3>2, <3>3, <3>4 DEF FeedPart
    <2>13. SpanPart(F, S, T0, held) /\ ReservationPart(F, R, T0, staged)
      BY <2>2 DEF Cleaned
    <2>14. /\ held' = {h \in held : h.feed # TokenOf(F, i)}
           /\ staged' = {r \in staged : r.feed # TokenOf(F, i)}
      BY <1>1, <2>1
    <2>15. ~T0[F[i].stream].reserved
      BY <1>4, <2>2, <2>5
    <2> HIDE DEF i, s, st, F, S, R, T0, F2, S2, R2, T
    <2>16. SpanClosed(F, S, T0, held, i, F2, S2, T, held')
      BY <1>1, <2>2, <2>3, <2>4, <2>8, <2>9, <2>13, <2>14 DEF SpanClosed
    <2>17. ReservationClosed(F, R, T0, staged, i, F2, R2, T, staged')
      BY <1>1, <2>2, <2>3, <2>4, <2>8, <2>10, <2>13, <2>14, <2>15 DEF ReservationClosed
    <2>18. SpanPart(F2, S2, T, held') /\ ReservationPart(F2, R2, T, staged')
      BY <2>16, <2>17, SpanClose, ReservationClose
    <2> QED
      BY <2>1, <2>11, <2>12, <2>18 DEF FeedInv
  <1> QED
    BY <1>3, <1>4

(* Creating a feed over a fresh stream.                                      *)
LEMMA FeedInvCreate ==
    ASSUME FeedInv, NEW attached \in BOOLEAN, NEW delivered \in BOOLEAN,
           span_feed_create(attached, delivered)
    PROVE  FeedInv'
  <1> DEFINE i == FirstFree(feedSlots)
             c == created + 1
             slot == span_feed_allocate(i, c)
             v == IF attached THEN slot ELSE [slot EXCEPT !.alive = FALSE, !.stream = 0]
             F2 == [feedSlots EXCEPT ![i] = v]
             t == IF attached THEN NewStream ELSE NoStream
             T == [streams EXCEPT ![c] = t]
             f == FeedObject(make_token(i, slot.generation), c)
  <1>1. /\ feedSlots' = F2 /\ created' = c /\ streams' = T
        /\ feeds' = (IF attached /\ delivered THEN feeds \cup {f} ELSE feeds)
        /\ UNCHANGED <<spanSlots, resSlots, held, staged, renderers>>
        /\ created < MaxStreams /\ FreeIndexes(feedSlots) # {}
    BY DEF span_feed_create
  <1>2. FeedsTyped(feedSlots, streams, created, feeds, renderers)
    BY DEF FeedInv, FeedPart
  <1>3. i \in FeedIndexes /\ ~feedSlots[i].alive
    <2>1. DOMAIN feedSlots = 1 .. FeedCapacity - 1 /\ FeedCapacity \in Nat
      BY <1>2, FeedConstants DEF FeedsTyped, FeedIndexes
    <2>2. i \in FreeIndexes(feedSlots)
      BY <1>1, <2>1, FirstFreeIsFree
    <2> QED
      BY <1>2, <2>2 DEF FeedsTyped, FreeIndexes
  <1>4. c \in StreamIds /\ c \in 0 .. MaxStreams /\ c \notin 1 .. created
    BY <1>1, <1>2, FeedConstants DEF FeedsTyped, StreamIds
  <1>5. /\ slot \in FeedSlots /\ slot.alive /\ slot.stream = c
        /\ slot.generation \in 1 .. MaxGeneration
        /\ slot.pendingSpan = NoToken /\ slot.pendingReservation = NoToken
    <2>1. feedSlots[i].generation \in 0 .. MaxGeneration
      BY <1>2, <1>3 DEF FeedsTyped, FeedSlots
    <2>2. ClaimGeneration(feedSlots[i]) \in 1 .. MaxGeneration
      BY <2>1, ClaimedGeneration
    <2>3. 0 \in 0 .. MaxSpans
      BY FeedConstants
    <2> HIDE DEF i, c
    <2> QED
      BY <1>4, <2>2, <2>3, MaxGenerationAssumption DEF span_feed_allocate, FeedSlots
  <1>6. /\ v \in FeedSlots /\ v.pendingSpan = NoToken /\ v.pendingReservation = NoToken
        /\ v.generation = slot.generation
        /\ v.alive => attached /\ v.stream = c
        /\ attached => v.alive /\ v.stream = c
    <2>1. 0 \in 0 .. MaxStreams
      BY FeedConstants
    <2> HIDE DEF slot, c
    <2> QED
      BY <1>5, <2>1 DEF FeedSlots
  <1>7. /\ F2 \in [FeedIndexes -> FeedSlots] /\ F2[i] = v
        /\ \A j \in FeedIndexes \ {i} : F2[j] = feedSlots[j]
        /\ OthersSame(feedSlots, F2, i)
    <2> HIDE DEF v, i
    <2> QED
      BY <1>2, <1>3, <1>6 DEF FeedsTyped, OthersSame
  <1>8. /\ T \in [StreamIds -> Streams] /\ T[c] = t
        /\ \A a \in StreamIds : a # c => T[a] = streams[a]
    <2>1. t \in Streams
      BY NoStreamTyped
    <2> HIDE DEF t, c
    <2> QED
      BY <1>2, <1>4, <2>1 DEF FeedsTyped
  <1>9. /\ t.outstanding = {} /\ ~t.overReleased /\ ~t.reserved /\ t.drained <= t.published
        /\ attached => t.open
    BY DEF NewStream, NoStream
  <1>10. \A j \in FeedIndexes : feedSlots[j].alive =>
             /\ feedSlots[j].stream \in 1 .. created /\ feedSlots[j].stream \in StreamIds
             /\ feedSlots[j].stream # c /\ streams[feedSlots[j].stream].open
    BY <1>4, CleanStreamFacts
  <1>11. \A j \in FeedIndexes : feedSlots[j].alive =>
             /\ T[feedSlots[j].stream] = streams[feedSlots[j].stream]
    <2> HIDE DEF T
    <2> QED
      BY <1>8, <1>10
  <1>12. DrainsInOrder(T)
    <2>1. DrainsInOrder(streams)
      BY DEF FeedInv
    <2> HIDE DEF T, t, c
    <2> QED
      BY <1>8, <1>9, <2>1 DEF DrainsInOrder
  <1>13. FeedPart(F2, T, c, feeds', renderers)
    <2>1. f \in FeedObjects /\ f.token = make_token(i, slot.generation) /\ f.stream = c
      <3> HIDE DEF i, slot, c
      <3> QED
        BY <1>3, <1>4, <1>5 DEF FeedObject, FeedObjects, FeedTokens, Tokens, make_token
    <2>2. FeedsTyped(F2, T, c, feeds', renderers)
      <3>1. feeds' \subseteq FeedObjects
        <4> HIDE DEF f
        <4> QED
          BY <1>1, <1>2, <2>1 DEF FeedsTyped
      <3>2. renderers \subseteq 1 .. c
        BY <1>2 DEF FeedsTyped
      <3> HIDE DEF F2, T, c
      <3> QED
        BY <1>4, <1>7, <1>8, <3>1, <3>2 DEF FeedsTyped
    <2>3. StreamsOpen(F2, T, c, renderers)
      <3>1. \A j \in FeedIndexes : F2[j].alive => F2[j].stream \in 1 .. c /\ T[F2[j].stream].open
        <4>1. 1 .. created \subseteq 1 .. c /\ c \in 1 .. c
          BY <1>2 DEF FeedsTyped
        <4>2. ASSUME NEW j \in FeedIndexes, F2[j].alive
              PROVE  F2[j].stream \in 1 .. c /\ T[F2[j].stream].open
          <5>1. CASE j = i
            <6> HIDE DEF F2, T, v, t, c, i
            <6> QED
              BY <1>6, <1>7, <1>8, <1>9, <4>1, <4>2, <5>1
          <5>2. CASE j # i
            <6> HIDE DEF F2, T, v, t, c, i
            <6> QED
              BY <1>7, <1>10, <1>11, <4>1, <4>2, <5>2
          <5> QED
            BY <5>1, <5>2
        <4> QED
          BY <4>2
      <3>2. \A s \in renderers : T[s].open
        <4>1. \A s \in renderers : s \in StreamIds /\ s # c /\ streams[s].open
          BY <1>2, <1>4, FeedConstants DEF FeedsTyped, FeedInv, FeedPart, StreamsOpen, StreamIds
        <4> HIDE DEF T, c
        <4> QED
          BY <1>8, <4>1
      <3> QED
        BY <3>1, <3>2 DEF StreamsOpen
    <2>4. StreamsOwn(F2)
      <3>1. StreamsOwn(feedSlots)
        BY DEF FeedInv, FeedPart
      <3> HIDE DEF F2, v, c, i
      <3> QED
        BY <1>6, <1>7, <1>10, <3>1 DEF StreamsOwn
    <2>5. FeedsResolve(F2, feeds')
      <3>1. ASSUME NEW g \in feeds
            PROVE  Resolves(F2, g.token) /\ F2[g.token[1]].stream = g.stream
        <4>1. /\ Resolves(feedSlots, g.token) /\ feedSlots[g.token[1]].stream = g.stream
              /\ g.token[1] \in FeedIndexes /\ feedSlots[g.token[1]].alive
          BY OpenFeed
        <4>2. g.token[1] # i
          BY <1>3, <4>1
        <4> HIDE DEF F2, i
        <4> QED
          BY <1>7, <4>1, <4>2 DEF Resolves
      <3>2. attached => Resolves(F2, f.token) /\ F2[f.token[1]].stream = f.stream
        <4>1. f.token[1] = i /\ f.token[2] = slot.generation /\ f.stream = c
          BY <2>1 DEF make_token
        <4> HIDE DEF F2, i, v, slot, c, f
        <4> QED
          BY <1>3, <1>6, <1>7, <4>1 DEF Resolves
      <3> HIDE DEF f, F2
      <3> QED
        BY <1>1, <3>1, <3>2 DEF FeedsResolve
    <2> QED
      BY <2>2, <2>3, <2>4, <2>5 DEF FeedPart
  <1>14. /\ SpanPart(feedSlots, spanSlots, streams, held)
         /\ ReservationPart(feedSlots, resSlots, streams, staged)
    BY DEF FeedInv
  <1>15. /\ F2[i].alive => /\ T[F2[i].stream].outstanding = {} /\ ~T[F2[i].stream].overReleased
                           /\ ~T[F2[i].stream].reserved
         /\ F2[i].pendingSpan = NoToken /\ F2[i].pendingReservation = NoToken
    <2> HIDE DEF F2, i, v, c, t, T
    <2> QED
      BY <1>6, <1>7, <1>8, <1>9
  <1> HIDE DEF i, c, slot, v, F2, t, T
  <1>16. SpanCreated(feedSlots, spanSlots, streams, held, i, F2, T)
    BY <1>3, <1>7, <1>11, <1>14, <1>15 DEF SpanCreated, SameSpans
  <1>17. ReservationCreated(feedSlots, resSlots, streams, staged, i, F2, T)
    BY <1>3, <1>7, <1>11, <1>14, <1>15 DEF ReservationCreated
  <1>18. SpanPart(F2, spanSlots, T, held) /\ ReservationPart(F2, resSlots, T, staged)
    BY <1>16, <1>17, SpanCreate, ReservationCreate
  <1> QED
    BY <1>1, <1>12, <1>13, <1>18 DEF FeedInv

(* A renderer writes to a stream that the feed it was given names; a frame   *)
(* publishes a span without a call of the feed.                              *)
LEMMA FeedInvRendererCreate ==
    ASSUME FeedInv, NEW f \in feeds, renderer_create(f)
    PROVE  FeedInv'
  <1> DEFINE st == feedSlots[f.token[1]].stream
  <1>1. /\ renderers' = renderers \cup {st}
        /\ UNCHANGED <<feedSlots, spanSlots, resSlots, streams, created, feeds, held, staged>>
    BY DEF renderer_create, tableVars
  <1>2. st \in 1 .. created /\ streams[st].open
    BY OpenFeed, CleanStreamFacts
  <1> HIDE DEF st
  <1>3. FeedPart(feedSlots, streams, created, feeds, renderers')
    BY <1>1, <1>2 DEF FeedInv, FeedPart, FeedsTyped, StreamsOpen
  <1> QED
    BY <1>1, <1>3 DEF FeedInv

(* A renderer that is destroyed no longer writes.                            *)
LEMMA FeedInvRendererDestroy ==
    ASSUME FeedInv, NEW s \in renderers, renderer_destroy(s)
    PROVE  FeedInv'
  <1>1. /\ renderers' = renderers \ {s}
        /\ UNCHANGED <<feedSlots, spanSlots, resSlots, streams, created, feeds, held, staged>>
    BY DEF renderer_destroy, tableVars
  <1>2. FeedPart(feedSlots, streams, created, feeds, renderers')
    BY <1>1 DEF FeedInv, FeedPart, FeedsTyped, StreamsOpen
  <1> QED
    BY <1>1, <1>2 DEF FeedInv

(* A frame of a renderer publishes a span.                                   *)
LEMMA FeedInvRender ==
    ASSUME FeedInv, NEW s \in renderers, renderer_render(s)
    PROVE  FeedInv'
  <1> DEFINE t == Publish(streams[s], 1)
             T == [streams EXCEPT ![s] = t]
  <1>1. /\ CanPublish(streams[s], 1) /\ streams' = T
        /\ UNCHANGED <<feedSlots, spanSlots, resSlots, created, feeds, held, staged, renderers>>
    BY DEF renderer_render, tableVars, clientVars
  <1>2. /\ FeedPart(feedSlots, streams, created, feeds, renderers)
        /\ DrainsInOrder(streams)
        /\ SpanPart(feedSlots, spanSlots, streams, held)
        /\ ReservationPart(feedSlots, resSlots, streams, staged)
    BY DEF FeedInv
  <1>3. /\ streams \in [StreamIds -> Streams] /\ s \in StreamIds
        /\ feedSlots \in [FeedIndexes -> FeedSlots]
    BY <1>2, FeedConstants DEF FeedPart, FeedsTyped, StreamIds
  <1>4. /\ streams[s] \in Streams /\ streams[s].published \in 0 .. MaxSpans
        /\ streams[s].drained <= streams[s].published
    BY <1>2, <1>3 DEF DrainsInOrder, Streams
  <1>5. /\ t \in Streams /\ t.open = streams[s].open /\ t.drained = streams[s].drained
        /\ t.outstanding = streams[s].outstanding /\ t.overReleased = streams[s].overReleased
        /\ t.reserved = streams[s].reserved /\ t.drained <= t.published
    <2>1. 1 \in {0, 1}
      OBVIOUS
    <2> QED
      BY <1>1, <1>4, <2>1, Publishes
  <1>6. /\ T \in [StreamIds -> Streams] /\ T[s] = t
        /\ \A a \in StreamIds : a # s => T[a] = streams[a]
    <2> HIDE DEF t
    <2> QED
      BY <1>3, <1>5
  <1> HIDE DEF t, T
  <1>7. /\ \A a \in StreamIds : T[a].open = streams[a].open
        /\ \A a \in StreamIds : SameSpans(streams, T, a) /\ T[a].reserved = streams[a].reserved
    BY <1>5, <1>6 DEF SameSpans
  <1>8. DrainsInOrder(T)
    BY <1>2, <1>5, <1>6 DEF DrainsInOrder
  <1>9. /\ SameFeeds(feedSlots, feedSlots)
        /\ \A j \in FeedIndexes : feedSlots[j].alive => feedSlots[j].stream \in StreamIds
        /\ \A j \in FeedIndexes : SamePendingSpan(feedSlots, feedSlots, j)
    BY <1>3, CleanStreamFacts DEF SameFeeds, SamePendingSpan
  <1>10. FeedPart(feedSlots, T, created, feeds, renderers)
    BY <1>2, <1>3, <1>6, <1>7, <1>9, FeedFrame
  <1>11. SpanFramed(feedSlots, spanSlots, streams, held, feedSlots, T)
    BY <1>2, <1>7, <1>9 DEF SpanFramed
  <1>12. ReservationFramed(feedSlots, resSlots, streams, staged, feedSlots, T)
    BY <1>2, <1>7, <1>9 DEF ReservationFramed
  <1>13. SpanPart(feedSlots, spanSlots, T, held) /\ ReservationPart(feedSlots, resSlots, T, staged)
    BY <1>11, <1>12, SpanFrame, ReservationFrame
  <1> QED
    BY <1>1, <1>8, <1>10, <1>13 DEF FeedInv

(* The empty tables.                                                         *)
LEMMA FeedInvInit == FeedInit => FeedInv
  <1> SUFFICES ASSUME FeedInit PROVE FeedInv
    OBVIOUS
  <1>1. 0 \in 0 .. MaxSpans /\ 0 \in 0 .. MaxStreams /\ 0 \in 0 .. MaxGeneration
    BY FeedConstants, MaxGenerationAssumption
  <1>2. /\ \A i \in FeedIndexes : feedSlots[i] = DeadFeed
        /\ \A k \in SpanIndexes : spanSlots[k] = DeadSpan
        /\ \A k \in ReservationIndexes : resSlots[k] = DeadReservation
        /\ \A s \in StreamIds : streams[s] = NoStream
        /\ created = 0 /\ feeds = {} /\ held = {} /\ staged = {} /\ renderers = {}
    BY DEF FeedInit
  <1>3. FeedPart(feedSlots, streams, created, feeds, renderers)
    <2>1. FeedsTyped(feedSlots, streams, created, feeds, renderers)
      <3>1. DeadFeed \in FeedSlots
        BY <1>1 DEF DeadFeed, FeedSlots
      <3> QED
        BY <1>1, <1>2, <3>1, NoStreamTyped DEF FeedsTyped, FeedInit
    <2> QED
      BY <1>2, <2>1 DEF FeedPart, StreamsOpen, StreamsOwn, FeedsResolve, DeadFeed
  <1>4. DrainsInOrder(streams)
    BY <1>2 DEF DrainsInOrder, NoStream
  <1>5. SpanPart(feedSlots, spanSlots, streams, held)
    <2>1. DeadSpan \in SpanSlots
      BY <1>1 DEF DeadSpan, SpanSlots
    <2>2. SpansTyped(spanSlots, held)
      BY <1>2, <2>1 DEF SpansTyped, FeedInit
    <2> QED
      BY <1>2, <2>2 DEF SpanPart, SpansHome, SpansOnce, SpansKept, SpansPending, SpansHeld,
                        DeadSpan, DeadFeed
  <1>6. ReservationPart(feedSlots, resSlots, streams, staged)
    <2>1. DeadReservation \in ReservationSlots
      BY <1>1 DEF DeadReservation, ReservationSlots
    <2>2. ReservationsTyped(resSlots, staged)
      BY <1>2, <2>1 DEF ReservationsTyped, FeedInit
    <2> QED
      BY <1>2, <2>2 DEF ReservationPart, ReservationsHome, ReservationsOnce, ReservationsKept,
                        ReservationsPending, ReservationsStaged, DeadReservation, DeadFeed
  <1> QED
    BY <1>3, <1>4, <1>5, <1>6 DEF FeedInv

(* Every step keeps the invariant, one step of the proof per operation.      *)
LEMMA FeedInvNext == FeedInv /\ [FeedNext]_feedVars => FeedInv'
  <1> SUFFICES ASSUME FeedInv, [FeedNext]_feedVars
               PROVE  FeedInv'
    OBVIOUS
  <1>1. CASE UNCHANGED feedVars
    BY <1>1 DEF FeedInv, feedVars, tableVars, clientVars
  <1>2. ASSUME NEW attached \in BOOLEAN, NEW delivered \in BOOLEAN,
               span_feed_create(attached, delivered)
        PROVE  FeedInv'
    BY <1>2, FeedInvCreate
  <1>3. ASSUME NEW f \in feeds, close_output_feed(f)
        PROVE  FeedInv'
    BY <1>3, FeedInvClose
  <1>4. ASSUME NEW f \in feeds, NEW n \in {0, 1}, span_feed_write(f, n) \/ span_feed_commit(f, n)
        PROVE  FeedInv'
    BY <1>4, FeedInvWrite
  <1>5. ASSUME NEW f \in feeds, span_feed_stats(f)
        PROVE  FeedInv'
    BY <1>5, FeedInvStats
  <1>6. ASSUME NEW f \in feeds, NEW granted \in BOOLEAN, NEW delivered \in BOOLEAN,
               span_feed_reserve(f, granted, delivered)
        PROVE  FeedInv'
    BY <1>6, FeedInvReserve
  <1>7. ASSUME NEW f \in feeds, NEW readable \in BOOLEAN, NEW delivered \in BOOLEAN,
               span_feed_drain(f, readable, delivered)
        PROVE  FeedInv'
    BY <1>7, FeedInvDrain
  <1>8. ASSUME NEW f \in feeds, renderer_create(f)
        PROVE  FeedInv'
    BY <1>8, FeedInvRendererCreate
  <1>9. ASSUME NEW r \in staged, NEW ok \in BOOLEAN, NEW n \in {0, 1},
               span_feed_reservation_commit(r, ok, n)
        PROVE  FeedInv'
    BY <1>9, FeedInvEndReservation DEF span_feed_reservation_commit
  <1>10. ASSUME NEW r \in staged, span_feed_reservation_cancel(r)
         PROVE  FeedInv'
    <2>1. EndReservation(r, TRUE, 0) /\ TRUE \in BOOLEAN /\ 0 \in {0, 1}
      BY <1>10 DEF span_feed_reservation_cancel
    <2> QED
      BY <2>1, FeedInvEndReservation
  <1>11. ASSUME NEW h \in held, span_release(h)
         PROVE  FeedInv'
    BY <1>11, FeedInvRelease
  <1>12. ASSUME NEW s \in renderers, renderer_render(s) \/ renderer_destroy(s)
         PROVE  FeedInv'
    BY <1>12, FeedInvRender, FeedInvRendererDestroy
  <1> QED
    BY <1>1, <1>2, <1>3, <1>4, <1>5, <1>6, <1>7, <1>8, <1>9, <1>10, <1>11, <1>12 DEF FeedNext

(* Every reachable state of the three tables and of the objects over them    *)
(* satisfies the inductive invariant.                                        *)
THEOREM FeedKeepsInv == FeedSpec => []FeedInv
  BY FeedInvInit, FeedInvNext, PTL DEF FeedSpec

(* What the invariant says of the properties of the run.                     *)
LEMMA LiveFeedStream ==
    ASSUME FeedInv, NEW i \in LiveFeeds
    PROVE  i \in FeedIndexes /\ feedSlots[i].alive /\ FeedToken(i) = TokenOf(feedSlots, i)
  BY DEF LiveFeeds, FeedToken, TokenOf

(* The type invariant.                                                       *)
LEMMA InvTypeOK == FeedInv => FeedTypeOK
  <1> SUFFICES ASSUME FeedInv PROVE FeedTypeOK
    OBVIOUS
  <1>1. FeedsTyped(feedSlots, streams, created, feeds, renderers)
    BY DEF FeedInv, FeedPart
  <1>2. SpansTyped(spanSlots, held) /\ ReservationsTyped(resSlots, staged)
    BY DEF FeedInv, SpanPart, ReservationPart
  <1>3. renderers \subseteq StreamIds
    BY <1>1, FeedConstants DEF FeedsTyped, StreamIds
  <1> QED
    BY <1>1, <1>2, <1>3
       DEF FeedTypeOK, FeedsTyped, SpansTyped, ReservationsTyped, FeedSlots, SpanSlots,
           ReservationSlots, Streams, FeedObjects, SpanObjects, ReservationObjects

(* SpansOwnedOnce: the slots of a feed and the spans its stream keeps are    *)
(* in bijection.                                                             *)
LEMMA InvSpansOwnedOnce == FeedInv => SpansOwnedOnce
  <1> SUFFICES ASSUME FeedInv, NEW i \in LiveFeeds
               PROVE  LET s == streams[feedSlots[i].stream]
                      IN  /\ ~s.overReleased
                          /\ s.outstanding = {spanSlots[k].info : k \in SpansOf(i)}
                          /\ Cardinality(SpansOf(i)) = Cardinality(s.outstanding)
    BY DEF SpansOwnedOnce
  <1> DEFINE s == streams[feedSlots[i].stream]
             K == SpansOf(i)
             info == [k \in K |-> spanSlots[k].info]
  <1>1. i \in FeedIndexes /\ feedSlots[i].alive /\ FeedToken(i) = TokenOf(feedSlots, i)
    BY LiveFeedStream
  <1>2. \A k \in K : k \in SpanIndexes /\ spanSlots[k].alive
                     /\ spanSlots[k].feed = TokenOf(feedSlots, i)
    BY <1>1 DEF SpansOf
  <1>3. /\ ~s.overReleased
        /\ \A x \in s.outstanding : \E k \in K : spanSlots[k].info = x
    <2>1. SpansKept(feedSlots, spanSlots, streams)
      BY DEF FeedInv, SpanPart
    <2> QED
      BY <1>1, <2>1 DEF SpansKept, SpansOf
  <1>4. \A k \in K : spanSlots[k].info \in s.outstanding
    <2>1. SpansHome(feedSlots, spanSlots, streams)
      BY DEF FeedInv, SpanPart
    <2>2. TokenOf(feedSlots, i)[1] = i
      BY DEF TokenOf, make_token
    <2> QED
      BY <1>2, <2>1, <2>2 DEF SpansHome
  <1>5. \A k, l \in K : spanSlots[k].info = spanSlots[l].info => k = l
    <2>1. SpansOnce(spanSlots)
      BY DEF FeedInv, SpanPart
    <2> QED
      BY <1>2, <2>1 DEF SpansOnce
  <1> HIDE DEF K, s
  <1>6. s.outstanding = {spanSlots[k].info : k \in K}
    BY <1>3, <1>4
  <1>7. IsFiniteSet(K)
    <2>1. SpanCapacity - 1 \in Int /\ 1 \in Int
      BY FeedConstants
    <2>2. IsFiniteSet(SpanIndexes)
      BY <2>1, FS_Interval DEF SpanIndexes
    <2>3. K \in SUBSET SpanIndexes
      BY <1>2
    <2> QED
      BY <2>2, <2>3, FS_Subset
  <1>8. info \in Bijection(K, s.outstanding)
    <2>1. info \in [K -> s.outstanding]
      BY <1>4
    <2>2. info \in Injection(K, s.outstanding)
      BY <1>5, <2>1 DEF Injection, IsInjective
    <2>3. info \in Surjection(K, s.outstanding)
      BY <1>3, <2>1 DEF Surjection
    <2> QED
      BY <2>2, <2>3 DEF Bijection
  <1>9. Cardinality(s.outstanding) = Cardinality(K)
    <2>1. ExistsBijection(K, s.outstanding)
      BY <1>8 DEF ExistsBijection
    <2> QED
      BY <1>7, <2>1, FS_Bijection
  <1> QED
    BY <1>3, <1>6, <1>9 DEF K, s

(* ReservationsAgree: a stream is reserved exactly when one slot stands      *)
(* for it.                                                                   *)
LEMMA InvReservationsAgree == FeedInv => ReservationsAgree
  <1> SUFFICES ASSUME FeedInv, NEW i \in LiveFeeds
               PROVE  /\ streams[feedSlots[i].stream].reserved <=> ReservationsOf(i) # {}
                      /\ Cardinality(ReservationsOf(i)) <= 1
    BY DEF ReservationsAgree
  <1> DEFINE K == ReservationsOf(i)
  <1>1. i \in FeedIndexes /\ feedSlots[i].alive /\ FeedToken(i) = TokenOf(feedSlots, i)
    BY LiveFeedStream
  <1>2. \A k \in K : k \in ReservationIndexes /\ resSlots[k].alive
                     /\ resSlots[k].feed = TokenOf(feedSlots, i)
    BY <1>1 DEF ReservationsOf
  <1>3. streams[feedSlots[i].stream].reserved => K # {}
    BY <1>1 DEF FeedInv, ReservationPart, ReservationsKept, ReservationsOf
  <1>4. K # {} => streams[feedSlots[i].stream].reserved
    <2>1. ReservationsHome(feedSlots, resSlots, streams)
      BY DEF FeedInv, ReservationPart
    <2>2. TokenOf(feedSlots, i)[1] = i
      BY DEF TokenOf, make_token
    <2> QED
      BY <1>2, <2>1, <2>2 DEF ReservationsHome
  <1>5. \A k, l \in K : k = l
    <2>1. ReservationsOnce(resSlots)
      BY DEF FeedInv, ReservationPart
    <2> QED
      BY <1>2, <2>1 DEF ReservationsOnce
  <1> HIDE DEF K
  <1>6. Cardinality(K) <= 1
    <2>1. CASE K = {}
      BY <2>1, FS_EmptySet
    <2>2. CASE K # {}
      <3>1. PICK k : K = {k}
        BY <1>5, <2>2
      <3>2. Cardinality(K) = 1
        BY <3>1, FS_Singleton, Zenon
      <3> QED
        BY <3>2
    <2> QED
      BY <2>1, <2>2
  <1>7. (streams[feedSlots[i].stream].reserved) \in BOOLEAN
    <2>1. /\ streams[feedSlots[i].stream] \in Streams
      BY <1>1, CleanStreamFacts
    <2> QED
      BY <2>1 DEF Streams
  <1> QED
    BY <1>3, <1>4, <1>6, <1>7 DEF K

(* For every size of the tables, every number of streams and spans and       *)
(* every generation limit: each chunk the stream of a live feed keeps is     *)
(* owned by exactly one live span slot, no span is marked consumed twice,    *)
(* a stream is reserved exactly when one live slot says so, no slot          *)
(* outlives its feed, and every token names what it was issued for.          *)
(* Allocations that raise in the middle of span_feed_create,                 *)
(* span_feed_drain and span_feed_reserve are included.                       *)
THEOREM FeedsOwnTheirSpans == FeedSpec => []FeedOwnership
  <1>1. FeedInv => FeedOwnership
    <2> SUFFICES ASSUME FeedInv PROVE FeedOwnership
      OBVIOUS
    <2>1. NoOrphanSlots
      BY DEF NoOrphanSlots, FeedInv, SpanPart, SpansHome, ReservationPart, ReservationsHome
    <2>2. TokensResolve
      BY DEF TokensResolve, FeedInv, FeedPart, FeedsResolve, SpanPart, SpansHeld,
             ReservationPart, ReservationsStaged
    <2> QED
      BY <2>1, <2>2, InvTypeOK, InvSpansOwnedOnce, InvReservationsAgree DEF FeedOwnership
  <1> QED
    BY <1>1, FeedKeepsInv, PTL

(* No renderer ever writes to a stream that span_feed_close has closed.      *)
THEOREM RenderersKeepTheirStreams == FeedSpec => []RenderersWriteToOpenStreams
  <1>1. FeedInv => RenderersWriteToOpenStreams
    BY DEF FeedInv, FeedPart, StreamsOpen, RenderersWriteToOpenStreams
  <1> QED
    BY <1>1, FeedKeepsInv, PTL
=============================================================================
