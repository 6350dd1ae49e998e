---------------------------- MODULE LayoutProofs ----------------------------
(***************************************************************************)
(* Proofs about the layout nodes and their native measurement, for every   *)
(* capacity of the node table, any number of nodes created within the      *)
(* generations, and any finite sets of renderables, views and buffers.     *)
(*                                                                         *)
(* The parts of the inductive invariant are operators of a table T, the    *)
(* lists of children K, the dirty nodes D and the node objects N, so that  *)
(* a lemma can speak of the values after a step.                           *)
(***************************************************************************)
EXTENDS NativeRenderables, SequenceTheorems, InductionLemmas

SlotType ==
    [generation : 0 .. MaxGeneration, alive : BOOLEAN, renderableAttached : BOOLEAN,
     measureAttached : BOOLEAN, node : 0 .. MaxNodes, parent : NodeTokens \cup {NoToken}]
ObjectType == [token : NodeTokens, node : NativeNodes]

Alive(T) == {i \in NodeIndexes : T[i].alive}
TokenAt(T, i) == make_token(i, T[i].generation)

(* Live slots have native nodes of their own, and no slot has been allocated *)
(* more often than nodes were created, c times.                              *)
NodesOwn(T, c) ==
    /\ \A i \in NodeIndexes : T[i].generation <= c
    /\ \A i \in Alive(T) : T[i].generation # 0 /\ T[i].node \in 1 .. c
    /\ \A i, j \in Alive(T) : T[i].node = T[j].node => i = j

(* No object is younger than its slot, and one whose token resolves names    *)
(* the node it was made for.                                                 *)
ObjectsName(T, N) ==
    \A x \in N :
        /\ x.token[2] <= T[x.token[1]].generation
        /\ Resolves(T, x.token) => T[x.token[1]].node = x.node

TablePart(T, c, N) ==
    /\ T \in [NodeIndexes -> SlotType]
    /\ c \in 0 .. MaxNodes
    /\ N \subseteq ObjectType
    /\ NodesOwn(T, c)
    /\ ObjectsName(T, N)

(* The parent links are a forest ... *)
ParentsResolve(T) ==
    \A i \in Alive(T) : T[i].parent # NoToken => Resolves(T, T[i].parent)

Grounded(T) ==
    \A C \in SUBSET Alive(T) :
        C # {} => \E i \in C : T[i].parent = NoToken \/ T[i].parent[1] \notin C

(* ... and Yoga's lists of children are the same forest. *)
ListsAgree(T, K) ==
    \A i \in Alive(T), m \in NativeNodes :
        T[i].node \in ToSet(K[m]) <=>
            T[i].parent # NoToken /\ m = T[T[i].parent[1]].node

ListsOnce(K) ==
    \A m \in NativeNodes : \A k, l \in DOMAIN K[m] : K[m][k] = K[m][l] => k = l

ListsLive(T, K) ==
    \A m \in NativeNodes : \A c \in ToSet(K[m]) : \E i \in Alive(T) : T[i].node = c

(* Above a node that is out of date every node is. *)
DirtyAbove(T, D) ==
    \A i \in Alive(T) :
        T[i].parent # NoToken /\ T[i].node \in D => T[T[i].parent[1]].node \in D

ForestPart(T, K, D) ==
    /\ K \in [NativeNodes -> Seq(NativeNodes)]
    /\ D \subseteq NativeNodes
    /\ ParentsResolve(T)
    /\ Grounded(T)
    /\ ListsAgree(T, K)
    /\ ListsOnce(K)
    /\ ListsLive(T, K)
    /\ DirtyAbove(T, D)

(* Each renderable R[r] with its native renderable M[r]: the claim of a node *)
(* is exclusive and keeps the node alive.                                    *)
ClaimsTyped(R, M) ==
    /\ R \in [Renderables -> [state : {"none", "open", "closed"},
                              node : NodeTokens \cup {NoToken}, target : Views \cup {NoOne}]]
    /\ M \in [Renderables -> [node : 0 .. MaxNodes, target : Views \cup {NoOne}]]

ClaimsHold(T, R, M) ==
    \A r \in Renderables :
        /\ M[r].target = R[r].target
        /\ R[r].state # "open" => R[r].node = NoToken /\ R[r].target = NoOne
        /\ R[r].node = NoToken => M[r].node = NoNode
        /\ R[r].node # NoToken => /\ Resolves(T, R[r].node)
                                  /\ T[R[r].node[1]].renderableAttached
                                  /\ M[r].node = T[R[r].node[1]].node

ClaimsOnce(R) ==
    \A r, q \in Renderables : R[r].node = R[q].node /\ R[r].node # NoToken => r = q

FlagsTrue(T, K, R) ==
    \A i \in Alive(T) :
        /\ T[i].measureAttached <=>
              \E r \in Renderables : R[r].node = TokenAt(T, i) /\ R[r].target # NoOne
        /\ T[i].measureAttached => K[T[i].node] = <<>>

ClaimPart(T, K, R, M) ==
    ClaimsTyped(R, M) /\ ClaimsHold(T, R, M) /\ ClaimsOnce(R) /\ FlagsTrue(T, K, R)

(* Views V and buffers B count their users exactly. *)
UsersOf(R, v) == {r \in Renderables : R[r].target = v}
ViewsOf(V, b) == {v \in Views : V[v].state = "open" /\ V[v].buffer = b}

UserPart(R, V, B) ==
    /\ V \in [Views -> [state : {"none", "open", "closed"}, buffer : Buffers \cup {NoOne},
                        measureUsers : Nat]]
    /\ B \in [Buffers -> [state : {"none", "open", "closed"}, openViews : Nat]]
    /\ \A v \in Views :
          /\ V[v].measureUsers = Cardinality(UsersOf(R, v))
          /\ UsersOf(R, v) # {} => V[v].state = "open"
          /\ V[v].state = "open" => V[v].buffer \in Buffers /\ B[V[v].buffer].state = "open"
    /\ \A b \in Buffers : B[b].openViews = Cardinality(ViewsOf(V, b))

(* A measured node has a registration, and registrations a callback. *)
CallbackPart ==
    /\ measured \subseteq registrations /\ registrations \subseteq NativeNodes
    /\ registered \in BOOLEAN
    /\ registrations # {} => registered

(* The inductive invariant. *)
LayoutInv ==
    /\ TablePart(slots, created, nodes)
    /\ ForestPart(slots, children, dirty)
    /\ ClaimPart(slots, children, renderables, native)
    /\ UserPart(renderables, views, buffers)
    /\ CallbackPart

-----------------------------------------------------------------------------
(* Tokens and slots. *)

(* Tokens are pairs of a slot and a generation, and NoToken is none of them. *)
LEMMA TokenFacts ==
    /\ NodeIndexes \subseteq Nat \ {0} /\ NoToken \notin NodeTokens
    /\ \A t \in NodeTokens : /\ t[1] \in NodeIndexes /\ t[2] \in 1 .. MaxGeneration
                             /\ t = make_token(t[1], t[2])
    /\ \A i \in NodeIndexes, g \in 1 .. MaxGeneration : make_token(i, g) \in NodeTokens
  BY NodeConstants DEF NodeIndexes, NodeTokens, Tokens, NoToken, make_token

(* A token resolves exactly when it is the one its live slot would give.     *)
LEMMA ResolvesFacts ==
    ASSUME NEW T \in [NodeIndexes -> SlotType], NEW t \in NodeTokens \cup {NoToken}
    PROVE  /\ Resolves(T, t) <=> (t[1] \in Alive(T) /\ t[2] = T[t[1]].generation)
           /\ Resolves(T, t) => t \in NodeTokens /\ t = TokenAt(T, t[1])
<1>1. DOMAIN T = NodeIndexes
  OBVIOUS
<1>2. Resolves(T, NoToken) => FALSE
  BY <1>1, TokenFacts DEF Resolves, NoToken
<1>3. NoToken[1] \notin Alive(T)
  BY TokenFacts DEF NoToken, Alive
<1> QED BY <1>1, <1>2, <1>3, TokenFacts DEF Resolves, Alive, TokenAt, make_token

(* The token a live slot gives resolves to the slot. *)
LEMMA LiveTokenResolves ==
    ASSUME NEW T \in [NodeIndexes -> SlotType], NEW i \in Alive(T)
    PROVE  /\ Resolves(T, TokenAt(T, i))
           /\ T[i].generation # 0 => TokenAt(T, i) \in NodeTokens
           /\ TokenAt(T, i)[1] = i /\ TokenAt(T, i)[2] = T[i].generation
<1>1. i \in NodeIndexes /\ T[i].alive /\ T[i] \in SlotType
  BY DEF Alive
<1>2. T[i].generation \in 0 .. MaxGeneration
  BY <1>1 DEF SlotType
<1>3. T[i].generation # 0 => T[i].generation \in 1 .. MaxGeneration
  BY <1>2, MaxGenerationAssumption
<1> QED BY <1>1, <1>3, TokenFacts DEF Resolves, TokenAt, make_token

(* The types of the fields of a slot. *)
LEMMA SlotFields ==
    ASSUME NEW T \in [NodeIndexes -> SlotType], NEW i \in NodeIndexes
    PROVE  /\ T[i].generation \in Nat /\ T[i].generation <= MaxGeneration
           /\ T[i].alive \in BOOLEAN /\ T[i].node \in 0 .. MaxNodes
           /\ T[i].renderableAttached \in BOOLEAN /\ T[i].measureAttached \in BOOLEAN
           /\ T[i].parent \in NodeTokens \cup {NoToken}
<1>1. T[i] \in SlotType
  OBVIOUS
<1> QED BY <1>1, MaxGenerationAssumption DEF SlotType

(* Slots that are only released or rewritten in place keep their tokens' meaning. *)
LEMMA TableKept ==
    ASSUME NEW T, NEW c, NEW N, TablePart(T, c, N),
           NEW U \in [NodeIndexes -> SlotType], NEW P \in SUBSET N,
           \A i \in NodeIndexes :
              /\ U[i].generation = T[i].generation
              /\ U[i].alive => T[i].alive /\ U[i].node = T[i].node
    PROVE  TablePart(U, c, P)
<1>1. T \in [NodeIndexes -> SlotType] /\ c \in 0 .. MaxNodes /\ P \subseteq ObjectType
  BY DEF TablePart
<1>2. Alive(U) \subseteq Alive(T)
  BY DEF Alive
<1>3. NodesOwn(U, c)
  BY <1>2 DEF TablePart, NodesOwn, Alive
<1>4. ASSUME NEW x \in P
      PROVE  /\ x.token[2] <= U[x.token[1]].generation
             /\ Resolves(U, x.token) => U[x.token[1]].node = x.node
  <2>1. x.token \in NodeTokens /\ x.token[1] \in NodeIndexes
    BY <1>1, TokenFacts DEF ObjectType
  <2>2. Resolves(U, x.token) => Resolves(T, x.token) /\ U[x.token[1]].node = T[x.token[1]].node
    BY <1>1, <2>1 DEF Resolves
  <2>3. /\ x.token[2] <= T[x.token[1]].generation
        /\ Resolves(T, x.token) => T[x.token[1]].node = x.node
    BY <1>4 DEF TablePart, ObjectsName
  <2> QED BY <2>1, <2>2, <2>3
<1> QED BY <1>1, <1>3, <1>4 DEF TablePart, ObjectsName

(* The slot a creation takes is dead, and its new generation is larger than  *)
(* all before.                                                               *)
LEMMA FreeSlot ==
    ASSUME NEW T, NEW c, NEW N, TablePart(T, c, N), c < MaxNodes, FreeIndexes(T) # {},
           NEW i, i = FirstFree(T)
    PROVE  /\ i \in NodeIndexes /\ ~T[i].alive
           /\ ClaimGeneration(T[i]) = T[i].generation + 1
           /\ ClaimGeneration(T[i]) \in 1 .. MaxGeneration
           /\ ClaimGeneration(T[i]) <= c + 1
<1>1. FreeIndexes(T) \subseteq NodeIndexes /\ FreeIndexes(T) \subseteq Nat
  BY TokenFacts DEF TablePart, FreeIndexes
<1>2. \E k \in FreeIndexes(T) : \A l \in FreeIndexes(T) : k <= l
  BY <1>1, LeastElement
<1>3. i \in FreeIndexes(T)
  BY <1>2 DEF FirstFree
<1>4. i \in NodeIndexes /\ ~T[i].alive
  BY <1>1, <1>3 DEF FreeIndexes
<1>5. T[i].generation \in Nat /\ T[i].generation <= c /\ c \in Nat /\ c < MaxGeneration
  BY <1>4, SlotFields, NodeConstants, MaxGenerationAssumption DEF TablePart, NodesOwn
<1> QED BY <1>4, <1>5, MaxGenerationAssumption DEF ClaimGeneration, next_generation

-----------------------------------------------------------------------------
(* What a work list visits. *)

(* A walk stays in its set, has its root, and is closed under the links. *)
LEMMA ReachedFacts ==
    ASSUME NEW S, NEW E, NEW r \in S
    PROVE  /\ Reached(S, E, r) \subseteq S
           /\ r \in Reached(S, E, r)
           /\ \A l \in E : l[1] \in Reached(S, E, r) /\ l[2] \in S => l[2] \in Reached(S, E, r)
  BY DEF Reached

(* It lies in every set that has these properties. *)
LEMMA ReachedLeast ==
    ASSUME NEW S, NEW E, NEW r \in S, NEW C \in SUBSET S, r \in C,
           \A l \in E : l[1] \in C /\ l[2] \in S => l[2] \in C
    PROVE  Reached(S, E, r) \subseteq C
  BY DEF Reached

(* Whatever is visited after the root is visited through a link. *)
LEMMA ReachedThrough ==
    ASSUME NEW S, NEW E, NEW r \in S, NEW n \in Reached(S, E, r), n # r
    PROVE  \E l \in E : l[2] = n /\ l[1] \in Reached(S, E, r)
<1> SUFFICES ASSUME \A l \in E : ~(l[2] = n /\ l[1] \in Reached(S, E, r))
             PROVE  FALSE
  OBVIOUS
<1> DEFINE A == Reached(S, E, r)
           C == A \ {n}
<1>1. /\ A \subseteq S /\ r \in A
      /\ \A l \in E : l[1] \in A /\ l[2] \in S => l[2] \in A
  BY ReachedFacts
<1>2. A \subseteq C
  <2> HIDE DEF A
  <2>1. C \in SUBSET S /\ r \in C
    BY <1>1
  <2>2. \A l \in E : l[1] \in C /\ l[2] \in S => l[2] \in C
    BY <1>1 DEF A
  <2> HIDE DEF C
  <2>3. Reached(S, E, r) \subseteq C
    BY <2>1, <2>2, ReachedLeast
  <2> QED BY <2>3 DEF A
<1> QED BY <1>2

(* From where the only link leads on, the rest of a walk is the walk from there. *)
LEMMA ReachedOnward ==
    ASSUME NEW S, NEW E, NEW r \in S, NEW q \in S, <<r, q>> \in E,
           \A l \in E : l[1] = r => l[2] = q,
           NEW n \in Reached(S, E, r), n # r
    PROVE  n \in Reached(S, E, q)
<1> DEFINE A == Reached(S, E, q)
           C == A \cup {r}
<1>1. /\ A \subseteq S /\ q \in A
      /\ \A l \in E : l[1] \in A /\ l[2] \in S => l[2] \in A
  BY ReachedFacts
<1> HIDE DEF A
<1>2. C \in SUBSET S /\ r \in C /\ \A l \in E : l[1] \in C /\ l[2] \in S => l[2] \in C
  BY <1>1
<1> HIDE DEF C
<1>3. Reached(S, E, r) \subseteq C
  BY <1>2, ReachedLeast
<1> QED BY <1>3 DEF A, C

-----------------------------------------------------------------------------
(* Lists without repetition. *)

(* The first n elements of a sequence. *)
LEMMA Prefix ==
    ASSUME NEW X, NEW s \in Seq(X), NEW n \in 0 .. Len(s)
    PROVE  /\ SubSeq(s, 1, n) \in Seq(X) /\ Len(SubSeq(s, 1, n)) = n
           /\ \A k \in 1 .. n : SubSeq(s, 1, n)[k] = s[k]
<1>1. Len(s) \in Nat /\ n \in Int /\ \A i \in 1 .. n : s[i] \in X
  OBVIOUS
<1> QED BY <1>1, SubSeqProperties

(* All but the first m elements. *)
LEMMA Suffix ==
    ASSUME NEW X, NEW s \in Seq(X), NEW m \in 0 .. Len(s)
    PROVE  /\ SubSeq(s, m + 1, Len(s)) \in Seq(X) /\ Len(SubSeq(s, m + 1, Len(s))) = Len(s) - m
           /\ \A k \in 1 .. Len(s) - m : SubSeq(s, m + 1, Len(s))[k] = s[m + k]
<1>1. Len(s) \in Nat /\ m \in Int /\ m + 1 \in Int /\ \A i \in m + 1 .. Len(s) : s[i] \in X
  OBVIOUS
<1>2. SubSeq(s, m + 1, Len(s)) \in Seq(X) /\ Len(SubSeq(s, m + 1, Len(s))) = Len(s) - m
  BY <1>1, SubSeqProperties
<1>3. ASSUME NEW k \in 1 .. Len(s) - m PROVE SubSeq(s, m + 1, Len(s))[k] = s[m + k]
  <2>1. SubSeq(s, m + 1, Len(s))[k] = s[m + 1 + k - 1]
    BY <1>1, SubSeqProperties
  <2>2. m + 1 + k - 1 = m + k
    BY <1>1
  <2> QED BY <2>1, <2>2, Zenon
<1> QED BY <1>2, <1>3

Once(s) == \A k, l \in DOMAIN s : s[k] = s[l] => k = l

(* What yogaNodeInsertChild does to a list without the child. *)
LEMMA InsertedAt ==
    ASSUME NEW X, NEW s \in Seq(X), Once(s), NEW at \in 0 .. Len(s), NEW e \in X,
           e \notin ToSet(s)
    PROVE  /\ InsertAt(s, at + 1, e) \in Seq(X)
           /\ Once(InsertAt(s, at + 1, e))
           /\ ToSet(InsertAt(s, at + 1, e)) = ToSet(s) \cup {e}
<1> DEFINE t == InsertAt(s, at + 1, e)
<1>1. Len(s) \in Nat /\ DOMAIN s = 1 .. Len(s) /\ at \in Nat /\ at <= Len(s)
  OBVIOUS
<1>2. t = SubSeq(s, 1, at) \o <<e>> \o SubSeq(s, at + 1, Len(s))
  <2>1. t = SubSeq(s, 1, (at + 1) - 1) \o <<e>> \o SubSeq(s, at + 1, Len(s))
    BY DEF InsertAt
  <2>2. (at + 1) - 1 = at
    BY <1>1
  <2> HIDE DEF t
  <2> QED BY <2>1, <2>2, Zenon
<1>3. /\ SubSeq(s, 1, at) \in Seq(X) /\ Len(SubSeq(s, 1, at)) = at
      /\ \A k \in 1 .. at : SubSeq(s, 1, at)[k] = s[k]
  BY <1>1, Prefix, SMTT(40)
<1>4. /\ SubSeq(s, at + 1, Len(s)) \in Seq(X)
      /\ Len(SubSeq(s, at + 1, Len(s))) = Len(s) - at
      /\ \A k \in 1 .. Len(s) - at : SubSeq(s, at + 1, Len(s))[k] = s[at + k]
  BY <1>1, Suffix
<1>5. /\ t \in Seq(X) /\ Len(t) = Len(s) + 1
      /\ \A k \in 1 .. Len(s) + 1 :
            t[k] = IF k <= at THEN s[k] ELSE IF k = at + 1 THEN e ELSE s[k - 1]
  <2> DEFINE a == SubSeq(s, 1, at)
             b == SubSeq(s, at + 1, Len(s))
  <2>1. a \in Seq(X) /\ b \in Seq(X) /\ Len(a) = at /\ Len(b) = Len(s) - at
    BY <1>3, <1>4
  <2>2. /\ \A k \in 1 .. at : a[k] = s[k]
        /\ \A k \in 1 .. Len(s) - at : b[k] = s[at + k]
    BY <1>3, <1>4
  <2>3. t = a \o <<e>> \o b
    BY <1>2
  <2> HIDE DEF a, b, t
  <2>4. /\ a \o <<e>> \in Seq(X) /\ Len(a \o <<e>>) = at + 1
        /\ \A k \in 1 .. at + 1 : (a \o <<e>>)[k] = IF k <= at THEN a[k] ELSE e
    BY <1>1, <2>1
  <2>5. /\ t \in Seq(X) /\ Len(t) = Len(s) + 1
        /\ \A k \in 1 .. Len(s) + 1 :
              t[k] = IF k <= at + 1 THEN (a \o <<e>>)[k] ELSE b[k - (at + 1)]
    BY <1>1, <2>1, <2>3, <2>4
  <2>6. ASSUME NEW k \in 1 .. Len(s) + 1
        PROVE  t[k] = IF k <= at THEN s[k] ELSE IF k = at + 1 THEN e ELSE s[k - 1]
    <3>1. CASE k <= at + 1
      BY <1>1, <2>2, <2>4, <2>5, <3>1
    <3>2. CASE k > at + 1
      <4>1. k - (at + 1) \in 1 .. Len(s) - at /\ at + (k - (at + 1)) = k - 1
        BY <1>1, <3>2
      <4>2. t[k] = b[k - (at + 1)]
        BY <1>1, <2>5, <3>2
      <4>3. b[k - (at + 1)] = s[k - 1]
        BY <2>2, <4>1
      <4> QED BY <1>1, <3>2, <4>2, <4>3
    <3> QED BY <1>1, <3>1, <3>2
  <2> QED BY <2>5, <2>6
<1> HIDE DEF t
<1>6. DOMAIN t = 1 .. Len(s) + 1
  BY <1>5
<1>7. Once(t)
  <2> SUFFICES ASSUME NEW k \in 1 .. Len(s) + 1, NEW l \in 1 .. Len(s) + 1, t[k] = t[l]
               PROVE  k = l
    BY <1>6 DEF Once
  <2> DEFINE f(j) == IF j <= at THEN j ELSE j - 1
  <2>1. \A j \in 1 .. Len(s) + 1 : j # at + 1 => f(j) \in DOMAIN s /\ t[j] = s[f(j)]
    BY <1>1, <1>5
  <2>2. \A j \in DOMAIN s : s[j] # e
    BY DEF ToSet
  <2>3. t[at + 1] = e
    BY <1>1, <1>5
  <2>4. k = at + 1 <=> l = at + 1
    BY <2>1, <2>2, <2>3
  <2>5. CASE k # at + 1
    <3>1. f(k) = f(l)
      BY <2>1, <2>4, <2>5 DEF Once
    <3> QED BY <1>1, <2>4, <2>5, <3>1
  <2> QED BY <2>4, <2>5
<1>8. ToSet(t) = ToSet(s) \cup {e}
  <2>1. ToSet(t) \subseteq ToSet(s) \cup {e}
    BY <1>1, <1>5, <1>6, SMTT(40) DEF ToSet
  <2>2. e \in ToSet(t)
    <3>1. at + 1 \in DOMAIN t /\ t[at + 1] = e
      BY <1>1, <1>5, <1>6
    <3> QED BY <3>1 DEF ToSet
  <2>3. ASSUME NEW j \in DOMAIN s PROVE s[j] \in ToSet(t)
    <3>1. CASE j <= at
      <4>1. j \in DOMAIN t
        BY <1>1, <1>6
      <4>2. t[j] = s[j]
        BY <1>1, <1>5, <3>1
      <4> QED BY <4>1, <4>2 DEF ToSet
    <3>2. CASE j > at
      <4>1. j + 1 \in DOMAIN t
        BY <1>1, <1>6
      <4>2. j + 1 \in 1 .. Len(s) + 1 /\ ~(j + 1 <= at) /\ j + 1 # at + 1 /\ (j + 1) - 1 = j
        BY <1>1, <3>2
      <4>3. t[j + 1] = s[j]
        <5> DEFINE k == j + 1
        <5>1. k \in 1 .. Len(s) + 1 /\ ~(k <= at) /\ k # at + 1 /\ k - 1 = j
          BY <4>2
        <5> HIDE DEF k
        <5>2. t[k] = s[k - 1]
          BY <1>5, <5>1
        <5> QED BY <5>1, <5>2 DEF k
      <4> QED BY <4>1, <4>3 DEF ToSet
    <3> QED BY <1>1, <3>1, <3>2
  <2> QED BY <2>1, <2>2, <2>3 DEF ToSet
<1> QED BY <1>5, <1>7, <1>8 DEF t

(* What yogaNodeRemoveChild does to a list. *)
LEMMA RemovedFirst ==
    ASSUME NEW X, NEW s \in Seq(X), Once(s), NEW e
    PROVE  /\ RemoveFirst(s, e) \in Seq(X)
           /\ Once(RemoveFirst(s, e))
           /\ ToSet(RemoveFirst(s, e)) = ToSet(s) \ {e}
           /\ e \in ToSet(s) => Len(RemoveFirst(s, e)) = Len(s) - 1
<1> DEFINE t == RemoveFirst(s, e)
<1>1. Len(s) \in Nat /\ DOMAIN s = 1 .. Len(s)
  OBVIOUS
<1>2. CASE \A i \in 1 .. Len(s) : s[i] # e
  <2>1. t = s
    BY <1>2 DEF RemoveFirst
  <2>2. ToSet(s) = ToSet(s) \ {e} /\ e \notin ToSet(s)
    BY <1>1, <1>2 DEF ToSet
  <2> QED BY <2>1, <2>2
<1>3. CASE \E i \in 1 .. Len(s) : s[i] = e
  <2>1. PICK p \in 1 .. Len(s) : s[p] = e
    BY <1>3
  <2>2. {i \in 1 .. Len(s) : s[i] = e} = {p}
    BY <1>1, <2>1 DEF Once
  <2>3. SelectInSeq(s, LAMBDA v : v = e) = p
    <3>1. Min({p}) = p
      BY <2>1 DEF Min
    <3> QED BY <2>2, <3>1 DEF SelectInSeq
  <2>4. t = SubSeq(s, 1, p - 1) \o SubSeq(s, p + 1, Len(s))
    BY <1>3, <2>3 DEF RemoveFirst, RemoveAt
  <2>5. /\ t \in Seq(X) /\ Len(t) = Len(s) - 1
        /\ \A k \in 1 .. Len(s) - 1 : t[k] = IF k < p THEN s[k] ELSE s[k + 1]
    <3> DEFINE a == SubSeq(s, 1, p - 1)
               b == SubSeq(s, p + 1, Len(s))
    <3>1. /\ a \in Seq(X) /\ Len(a) = p - 1
          /\ \A k \in 1 .. p - 1 : a[k] = s[k]
      <4>1. p - 1 \in 0 .. Len(s)
        BY <1>1, <2>1
      <4> QED BY <4>1, Prefix
    <3>2. /\ b \in Seq(X) /\ Len(b) = Len(s) - p
          /\ \A k \in 1 .. Len(s) - p : b[k] = s[p + k]
      <4>1. p \in 0 .. Len(s)
        BY <1>1, <2>1
      <4> QED BY <4>1, Suffix
    <3>3. t = a \o b
      BY <2>4
    <3> HIDE DEF a, b, t
    <3>4. /\ t \in Seq(X) /\ Len(t) = Len(s) - 1
          /\ \A k \in 1 .. Len(s) - 1 : t[k] = IF k <= p - 1 THEN a[k] ELSE b[k - (p - 1)]
      <4>1. Len(a) \in Nat /\ Len(b) \in Nat /\ Len(a) + Len(b) = Len(s) - 1
        BY <1>1, <2>1, <3>1, <3>2
      <4>2. t \in Seq(X) /\ Len(t) = Len(s) - 1
        BY <3>1, <3>2, <3>3, <4>1
      <4>3. \A k \in 1 .. Len(a) + Len(b) : t[k] = IF k <= Len(a) THEN a[k] ELSE b[k - Len(a)]
        BY <3>1, <3>2, <3>3, ConcatProperties
      <4> QED BY <3>1, <4>1, <4>2, <4>3
    <3>5. ASSUME NEW k \in 1 .. Len(s) - 1 PROVE t[k] = IF k < p THEN s[k] ELSE s[k + 1]
      <4>1. CASE k < p
        <5>1. k \in 1 .. p - 1 /\ k <= p - 1
          BY <2>1, <4>1
        <5>2. t[k] = a[k]
          BY <3>4, <5>1
        <5>3. a[k] = s[k]
          BY <3>1, <5>1
        <5> QED BY <4>1, <5>2, <5>3
      <4>2. CASE k >= p
        <5>1. k - (p - 1) \in 1 .. Len(s) - p /\ p + (k - (p - 1)) = k + 1
          BY <1>1, <2>1, <4>2
        <5> QED BY <1>1, <2>1, <3>2, <3>4, <4>2, <5>1
      <4> QED BY <2>1, <4>1, <4>2
    <3> QED BY <3>4, <3>5
  <2> HIDE DEF t
  <2>6. DOMAIN t = 1 .. Len(s) - 1
    BY <1>1, <2>1, <2>5
  <2> DEFINE f(j) == IF j < p THEN j ELSE j + 1
  <2>7. \A j \in DOMAIN t : f(j) \in DOMAIN s /\ t[j] = s[f(j)] /\ f(j) # p
    BY <1>1, <2>1, <2>5, <2>6
  <2>8. Once(t)
    <3> SUFFICES ASSUME NEW k \in DOMAIN t, NEW l \in DOMAIN t, t[k] = t[l]
                 PROVE  k = l
      BY DEF Once
    <3>1. f(k) = f(l)
      BY <2>7 DEF Once
    <3> QED BY <1>1, <2>1, <2>6, <3>1
  <2>9. ToSet(t) = ToSet(s) \ {e}
    <3>1. ASSUME NEW j \in DOMAIN t PROVE t[j] \in ToSet(s) /\ t[j] # e
      <4>1. f(j) \in DOMAIN s /\ t[j] = s[f(j)] /\ f(j) # p
        BY <2>7
      <4>2. s[f(j)] # s[p]
        BY <1>1, <2>1, <4>1 DEF Once
      <4> QED BY <2>1, <4>1, <4>2 DEF ToSet
    <3>2. ASSUME NEW j \in DOMAIN s, s[j] # e PROVE s[j] \in ToSet(t)
      <4>1. CASE j < p
        <5>1. j \in DOMAIN t /\ t[j] = s[j]
          BY <1>1, <2>1, <2>5, <2>6, <4>1
        <5> QED BY <5>1 DEF ToSet
      <4>2. CASE j > p
        <5>1. j - 1 \in 1 .. Len(s) - 1 /\ ~(j - 1 < p) /\ (j - 1) + 1 = j
          BY <1>1, <2>1, <4>2
        <5>2. t[j - 1] = s[j]
          BY <2>5, <5>1
        <5> QED BY <2>6, <5>1, <5>2 DEF ToSet
      <4> QED BY <1>1, <2>1, <3>2, <4>1, <4>2
    <3> QED BY <3>1, <3>2 DEF ToSet
  <2> QED BY <2>5, <2>8, <2>9 DEF t
<1> QED BY <1>1, <1>2, <1>3, ZenonT(60)

-----------------------------------------------------------------------------
(* Live slots and their parents. *)

(* A live slot has a node of its own and a token that resolves. *)
LEMMA LiveSlot ==
    ASSUME NEW T, NEW c, NEW N, TablePart(T, c, N), NEW i \in Alive(T)
    PROVE  /\ i \in NodeIndexes /\ T[i].alive
           /\ T[i].node \in NativeNodes /\ T[i].node \in 1 .. c
           /\ T[i].parent \in NodeTokens \cup {NoToken}
           /\ TokenAt(T, i) \in NodeTokens /\ TokenAt(T, i)[1] = i
           /\ TokenAt(T, i) # NoToken
           /\ Resolves(T, TokenAt(T, i))
           /\ \A j \in Alive(T) : T[j].node = T[i].node => j = i
<1>1. T \in [NodeIndexes -> SlotType] /\ i \in NodeIndexes /\ T[i].alive
  BY DEF TablePart, Alive
<1>2. T[i].generation # 0 /\ T[i].node \in 1 .. c /\ c \in 0 .. MaxNodes
  BY DEF TablePart, NodesOwn
<1>3. T[i].node \in NativeNodes
  BY <1>2, NodeConstants DEF NativeNodes
<1>4. \A j \in Alive(T) : T[j].node = T[i].node => j = i
  BY DEF TablePart, NodesOwn
<1>5. /\ TokenAt(T, i) \in NodeTokens /\ TokenAt(T, i)[1] = i
      /\ Resolves(T, TokenAt(T, i))
  BY <1>1, <1>2, LiveTokenResolves
<1> QED BY <1>1, <1>2, <1>3, <1>4, <1>5, SlotFields, TokenFacts

(* A token that resolves belongs to one live slot. *)
LEMMA LiveToken ==
    ASSUME NEW T, NEW c, NEW N, TablePart(T, c, N),
           NEW t \in NodeTokens \cup {NoToken}, Resolves(T, t)
    PROVE  t[1] \in Alive(T) /\ t = TokenAt(T, t[1]) /\ t \in NodeTokens
<1>1. T \in [NodeIndexes -> SlotType]
  BY DEF TablePart
<1> QED BY <1>1, ResolvesFacts

(* The parent of a live slot is a live slot. *)
LEMMA ParentSlot ==
    ASSUME NEW T, NEW c, NEW N, TablePart(T, c, N), ParentsResolve(T),
           NEW i \in Alive(T), T[i].parent # NoToken
    PROVE  /\ T[i].parent[1] \in Alive(T) /\ T[i].parent[1] \in NodeIndexes
           /\ T[i].parent = TokenAt(T, T[i].parent[1])
           /\ T[T[i].parent[1]].node \in NativeNodes
<1>1. Resolves(T, T[i].parent)
  BY DEF ParentsResolve
<1>2. T[i].parent[1] \in Alive(T) /\ T[i].parent = TokenAt(T, T[i].parent[1])
  BY <1>1, LiveSlot, LiveToken
<1> QED BY <1>2, LiveSlot

(* A change of flags leaves the forest alone. *)
LEMMA ForestSame ==
    ASSUME NEW T, NEW c, NEW N, TablePart(T, c, N),
           NEW K, NEW D, ForestPart(T, K, D),
           NEW U \in [NodeIndexes -> SlotType],
           \A i \in NodeIndexes :
              /\ U[i].generation = T[i].generation /\ U[i].alive = T[i].alive
              /\ U[i].node = T[i].node /\ U[i].parent = T[i].parent
    PROVE  ForestPart(U, K, D)
<1> USE DEF ForestPart
<1>1. Alive(U) = Alive(T) /\ Alive(T) \subseteq NodeIndexes
  BY DEF Alive
<1>2. T \in [NodeIndexes -> SlotType]
  BY DEF TablePart
<1>3. \A i \in Alive(T) : T[i].parent # NoToken =>
          /\ T[i].parent[1] \in NodeIndexes
          /\ U[T[i].parent[1]].node = T[T[i].parent[1]].node
  BY ParentSlot
<1>4. ParentsResolve(U)
  BY <1>1, <1>2 DEF ParentsResolve, Resolves
<1>5. Grounded(U)
  BY <1>1 DEF Grounded
<1>6. ListsAgree(U, K)
  BY <1>1, <1>3 DEF ListsAgree
<1>7. ListsLive(U, K)
  BY <1>1 DEF ListsLive
<1>8. DirtyAbove(U, D)
  BY <1>1, <1>3, SMTT(40) DEF DirtyAbove
<1> QED BY <1>4, <1>5, <1>6, <1>7, <1>8

-----------------------------------------------------------------------------
(* The mark of a node that is out of date. *)

(* The links of the native tree are its lists. *)
LEMMA ChildLinkFacts ==
    ASSUME children \in [NativeNodes -> Seq(NativeNodes)]
    PROVE  /\ \A m \in NativeNodes : ToSet(children[m]) \subseteq NativeNodes
           /\ \A m \in NativeNodes : \A n \in ToSet(children[m]) : <<m, n>> \in ChildLinks
           /\ \A l \in ChildLinks :
                 \E m \in NativeNodes : \E n \in ToSet(children[m]) : l = <<m, n>>
<1>1. \A m \in NativeNodes : children[m] \in Seq(NativeNodes)
  OBVIOUS
<1>2. \A m \in NativeNodes : ToSet(children[m]) \subseteq NativeNodes
  BY <1>1 DEF ToSet
<1> QED BY <1>2 DEF ChildLinks

(* The mark goes up as far as it must. *)
LEMMA MarkedDirty ==
    ASSUME TablePart(slots, created, nodes), ForestPart(slots, children, dirty),
           NEW n \in NativeNodes
    PROVE  /\ yogaNodeMarkDirty(n) \subseteq NativeNodes
           /\ n \in yogaNodeMarkDirty(n)
           /\ DirtyAbove(slots, yogaNodeMarkDirty(n))
<1> DEFINE E == {<<l[2], l[1]>> : l \in ChildLinks}
           S == NativeNodes \ dirty
<1>1. CASE n \in dirty
  BY <1>1 DEF yogaNodeMarkDirty, ForestPart
<1>2. CASE n \notin dirty
  <2> DEFINE A == Reached(S, E, n)
  <2>1. yogaNodeMarkDirty(n) = dirty \cup A
    BY <1>2 DEF yogaNodeMarkDirty
  <2>2. n \in S
    BY <1>2
  <2>3. /\ A \subseteq S /\ n \in A
        /\ \A l \in E : l[1] \in A /\ l[2] \in S => l[2] \in A
    <3> HIDE DEF S, E
    <3> QED BY <2>2, ReachedFacts
  <2>4. ASSUME NEW i \in Alive(slots), slots[i].parent # NoToken,
               slots[i].node \in dirty \cup A
        PROVE  slots[slots[i].parent[1]].node \in dirty \cup A
    <3> DEFINE m == slots[slots[i].parent[1]].node
    <3>1. m \in NativeNodes
      BY <2>4, ParentSlot DEF ForestPart
    <3>2. CASE slots[i].node \in dirty
      BY <2>4, <3>2 DEF ForestPart, DirtyAbove
    <3>3. CASE slots[i].node \in A /\ m \notin dirty
      <4>1. slots[i].node \in ToSet(children[m])
        BY <2>4, <3>1 DEF ForestPart, ListsAgree
      <4>2. <<m, slots[i].node>> \in ChildLinks
        BY <3>1, <4>1, ChildLinkFacts DEF ForestPart
      <4>3. <<slots[i].node, m>> \in E
        BY <4>2
      <4>4. m \in S
        BY <3>1, <3>3
      <4> HIDE DEF A, E, S, m
      <4>5. m \in A
        BY <2>3, <3>3, <4>3, <4>4
      <4> QED BY <4>5 DEF m
    <3> QED BY <2>4, <3>2, <3>3
  <2> HIDE DEF A
  <2> QED BY <2>1, <2>3, <2>4 DEF ForestPart, DirtyAbove
<1> QED BY <1>1, <1>2

(* A calculation cleans a subtree, so nothing dirty is left below it. *)
LEMMA CalculatedClean ==
    ASSUME TablePart(slots, created, nodes), ForestPart(slots, children, dirty),
           NEW n \in NativeNodes
    PROVE  ForestPart(slots, children, yogaNodeCalculateLayout(n))
<1> DEFINE A == NativeSubtree(n)
<1>1. \A l \in ChildLinks : l[1] \in A /\ l[2] \in NativeNodes => l[2] \in A
  BY ReachedFacts DEF NativeSubtree
<1>2. ASSUME NEW i \in Alive(slots), slots[i].parent # NoToken, slots[i].node \in dirty \ A
      PROVE  slots[slots[i].parent[1]].node \in dirty \ A
  <2> DEFINE m == slots[slots[i].parent[1]].node
  <2>1. m \in NativeNodes /\ m \in dirty /\ slots[i].node \in NativeNodes
    BY <1>2, ParentSlot, LiveSlot DEF ForestPart, DirtyAbove
  <2>2. slots[i].node \in ToSet(children[m])
    BY <1>2, <2>1 DEF ForestPart, ListsAgree
  <2>3. <<m, slots[i].node>> \in ChildLinks
    BY <2>1, <2>2, ChildLinkFacts DEF ForestPart
  <2> HIDE DEF A, m
  <2>4. m \notin A
    BY <1>1, <1>2, <2>1, <2>3
  <2> QED BY <2>1, <2>4 DEF m
<1> HIDE DEF A
<1> QED BY <1>2 DEF ForestPart, DirtyAbove, yogaNodeCalculateLayout, A

-----------------------------------------------------------------------------
(* Creation. *)

(* The parts of the invariant after a step. *)
LEMMA InvParts ==
    ASSUME TablePart(slots', created', nodes'), ForestPart(slots', children', dirty'),
           ClaimPart(slots', children', renderables', native'),
           UserPart(renderables', views', buffers'), CallbackPart'
    PROVE  LayoutInv'
  BY DEF LayoutInv

Fresh(g, ok, n) == [DeadNode EXCEPT !.generation = g, !.alive = ok, !.node = n]

(* The slot that yoga_node_create writes. *)
LEMMA FreshSlot ==
    ASSUME NEW g \in 1 .. MaxGeneration, NEW ok \in BOOLEAN, NEW n \in 0 .. MaxNodes,
           NEW u, u = Fresh(g, ok, n)
    PROVE  /\ u \in SlotType /\ u.generation = g /\ u.alive = ok /\ u.node = n
           /\ u.parent = NoToken /\ ~u.measureAttached
<1>1. g \in 0 .. MaxGeneration
  BY MaxGenerationAssumption
<1>2. u = [generation |-> g, alive |-> ok, renderableAttached |-> FALSE,
           measureAttached |-> FALSE, node |-> n, parent |-> NoToken]
  BY DEF Fresh, DeadNode
<1>3. u \in SlotType
  BY <1>1, <1>2 DEF SlotType
<1>4. u.generation = g /\ u.alive = ok /\ u.node = n /\ u.parent = NoToken /\ ~u.measureAttached
  BY <1>2
<1> QED BY <1>3, <1>4

(* The table after a creation: no old token means the new node. *)
LEMMA CreateTable ==
    ASSUME NEW T, NEW c, NEW N, TablePart(T, c, N), c < MaxNodes, FreeIndexes(T) # {},
           NEW ok \in BOOLEAN, NEW i, i = FirstFree(T), NEW g, g = ClaimGeneration(T[i]),
           NEW U, U = [T EXCEPT ![i] = Fresh(g, ok, IF ok THEN c + 1 ELSE 0)],
           NEW P \in SUBSET (N \cup {NodeObject(make_token(i, g), c + 1)}),
           ~ok => P \subseteq N
    PROVE  TablePart(U, c + 1, P)
<1>1. /\ i \in NodeIndexes /\ ~T[i].alive /\ g = T[i].generation + 1
      /\ g \in 1 .. MaxGeneration /\ g <= c + 1
  BY FreeSlot
<1>2. T \in [NodeIndexes -> SlotType] /\ c \in 0 .. MaxNodes /\ c \in Nat
  BY NodeConstants DEF TablePart
<1>3. c + 1 \in 0 .. MaxNodes /\ c + 1 \in NativeNodes
  BY <1>2, NodeConstants DEF NativeNodes
<1>4. /\ U[i] \in SlotType /\ U[i].generation = g /\ U[i].alive = ok
      /\ U[i].node = IF ok THEN c + 1 ELSE 0
  <2>1. U[i] = Fresh(g, ok, IF ok THEN c + 1 ELSE 0)
    BY <1>1, <1>2
  <2>2. (IF ok THEN c + 1 ELSE 0) \in 0 .. MaxNodes
    BY <1>3, NodeConstants
  <2> QED BY <1>1, <2>1, <2>2, FreshSlot
<1>5. U \in [NodeIndexes -> SlotType] /\ \A j \in NodeIndexes \ {i} : U[j] = T[j]
  BY <1>1, <1>2, <1>4
<1>6. \A j \in NodeIndexes : T[j].generation <= c /\ T[j].generation \in Nat
  BY <1>2, SlotFields DEF TablePart, NodesOwn
<1>7. NodesOwn(U, c + 1)
  <2>1. \A j \in NodeIndexes : U[j].generation <= c + 1
    BY <1>1, <1>2, <1>4, <1>5, <1>6
  <2>2. \A j \in Alive(U) : (j # i /\ j \in Alive(T) /\ U[j] = T[j]) \/ (j = i /\ ok)
    BY <1>4, <1>5 DEF Alive
  <2>3. \A j \in Alive(T) : T[j].generation # 0 /\ T[j].node \in 1 .. c
    BY DEF TablePart, NodesOwn
  <2>4. \A j \in Alive(U) : U[j].generation # 0 /\ U[j].node \in 1 .. c + 1
    BY <1>1, <1>2, <1>4, <2>2, <2>3
  <2>5. \A j, k \in Alive(U) : U[j].node = U[k].node => j = k
    <3>1. \A j \in Alive(U) : j # i => U[j].node # c + 1
      BY <1>2, <2>2, <2>3
    <3>2. \A j, k \in Alive(U) : j # i /\ k # i /\ U[j].node = U[k].node => j = k
      BY <2>2 DEF TablePart, NodesOwn
    <3>3. i \in Alive(U) => U[i].node = c + 1
      BY <1>4 DEF Alive
    <3>4. ASSUME NEW j \in Alive(U), NEW k \in Alive(U), U[j].node = U[k].node, j # k
          PROVE  FALSE
      <4>1. CASE j = i
        BY <3>1, <3>3, <3>4, <4>1
      <4>2. CASE k = i
        BY <3>1, <3>3, <3>4, <4>2
      <4> QED BY <3>2, <3>4, <4>1, <4>2
    <3> QED BY <3>4
  <2> QED BY <2>1, <2>4, <2>5 DEF NodesOwn
<1>8. NodeObject(make_token(i, g), c + 1) \in ObjectType
  BY <1>1, <1>3, TokenFacts DEF NodeObject, ObjectType
<1>9. P \subseteq ObjectType
  BY <1>8 DEF TablePart
<1>10. ASSUME NEW x \in P
       PROVE  /\ x.token[2] <= U[x.token[1]].generation
              /\ Resolves(U, x.token) => U[x.token[1]].node = x.node
  <2>1. x.token \in NodeTokens /\ x.token[1] \in NodeIndexes
    BY <1>9, TokenFacts DEF ObjectType
  <2>2. CASE x \in N
    <3>1. /\ x.token[2] <= T[x.token[1]].generation
          /\ Resolves(T, x.token) => T[x.token[1]].node = x.node
      BY <2>2 DEF TablePart, ObjectsName
    <3>2. CASE x.token[1] # i
      BY <1>2, <1>5, <2>1, <3>1, <3>2 DEF Resolves
    <3>3. CASE x.token[1] = i
      <4>1. x.token[2] \in Nat
        BY <2>1, TokenFacts, MaxGenerationAssumption
      <4>2. x.token[2] < g
        BY <1>1, <1>6, <3>1, <3>3, <4>1
      <4> QED BY <1>1, <1>4, <3>3, <4>1, <4>2 DEF Resolves
    <3> QED BY <3>2, <3>3
  <2>3. CASE x \notin N
    <3>1. x = NodeObject(make_token(i, g), c + 1) /\ ok
      BY <2>3
    <3>2. x.token[1] = i /\ x.token[2] = g /\ x.node = c + 1
      BY <3>1 DEF NodeObject, make_token
    <3>3. U[i].node = c + 1 /\ U[i].generation = g
      BY <1>4, <3>1
    <3> QED BY <1>1, <3>2, <3>3
  <2> QED BY <2>2, <2>3
<1> QED BY <1>3, <1>5, <1>7, <1>9, <1>10 DEF TablePart, ObjectsName

(* The new slot is nobody's parent, and nobody's node. *)
LEMMA CreateForest ==
    ASSUME NEW T, NEW c, NEW N, TablePart(T, c, N), NEW K, NEW D, ForestPart(T, K, D),
           NEW i \in NodeIndexes, ~T[i].alive, NEW U \in [NodeIndexes -> SlotType],
           \A j \in NodeIndexes \ {i} : U[j] = T[j],
           U[i].parent = NoToken,
           U[i].alive => U[i].node = c + 1 /\ c + 1 \in NativeNodes,
           NEW F \in SUBSET NativeNodes, F \ {c + 1} = D \ {c + 1}
    PROVE  ForestPart(U, K, F)
<1> USE DEF ForestPart
<1>1. /\ Alive(U) \subseteq Alive(T) \cup {i} /\ Alive(T) \subseteq Alive(U)
      /\ i \notin Alive(T) /\ \A j \in Alive(T) : U[j] = T[j]
  BY DEF Alive
<1>2. \A j \in Alive(T) : T[j].node \in NativeNodes /\ T[j].node # c + 1
  <2>1. c \in Nat
    BY NodeConstants DEF TablePart
  <2> QED BY <2>1, LiveSlot
<1>3. \A j \in Alive(T) : T[j].parent # NoToken =>
          /\ T[j].parent[1] \in Alive(T) /\ U[T[j].parent[1]] = T[T[j].parent[1]]
  BY <1>1, ParentSlot
<1>4. ParentsResolve(U)
  <2>1. DOMAIN U = NodeIndexes /\ DOMAIN T = NodeIndexes
    BY DEF TablePart
  <2> QED BY <1>1, <1>3, <2>1 DEF ParentsResolve, Resolves
<1>5. Grounded(U)
  <2> SUFFICES ASSUME NEW C \in SUBSET Alive(U), C # {}
               PROVE  \E j \in C : U[j].parent = NoToken \/ U[j].parent[1] \notin C
    BY DEF Grounded
  <2>1. CASE i \in C
    BY <2>1
  <2>2. CASE i \notin C
    BY <1>1, <2>2 DEF Grounded
  <2> QED BY <2>1, <2>2
<1>6. \A m \in NativeNodes : c + 1 \notin ToSet(K[m])
  BY <1>2 DEF ListsLive
<1>7. ListsAgree(U, K)
  <2> SUFFICES ASSUME NEW j \in Alive(U), NEW m \in NativeNodes
               PROVE  U[j].node \in ToSet(K[m]) <=>
                        U[j].parent # NoToken /\ m = U[U[j].parent[1]].node
    BY DEF ListsAgree
  <2>1. CASE j = i
    BY <1>6, <2>1 DEF Alive
  <2>2. CASE j # i
    BY <1>1, <1>3, <2>2 DEF ListsAgree
  <2> QED BY <2>1, <2>2
<1>8. ListsLive(U, K)
  BY <1>1 DEF ListsLive
<1>9. DirtyAbove(U, F)
  <2> SUFFICES ASSUME NEW j \in Alive(U), U[j].parent # NoToken, U[j].node \in F
               PROVE  U[U[j].parent[1]].node \in F
    BY DEF DirtyAbove
  <2>1. j # i
    OBVIOUS
  <2> QED BY <1>1, <1>2, <1>3, <2>1 DEF DirtyAbove
<1> QED BY <1>4, <1>5, <1>7, <1>8, <1>9

(* yoga_node_create. *)
LEMMA CreateStep ==
    ASSUME LayoutInv, NEW ok \in BOOLEAN, NEW delivered \in BOOLEAN,
           yoga_node_create(ok, delivered), UNCHANGED ownerVars
    PROVE  LayoutInv'
<1> DEFINE i == FirstFree(slots)
           g == ClaimGeneration(slots[i])
           P == IF ok /\ delivered
                THEN nodes \cup {NodeObject(make_token(i, g), created + 1)} ELSE nodes
<1> USE DEF LayoutInv
<1>1. /\ created < MaxNodes /\ FreeIndexes(slots) # {}
      /\ slots' = [slots EXCEPT ![i] = Fresh(g, ok, IF ok THEN created + 1 ELSE 0)]
      /\ nodes' = P /\ created' = created + 1
      /\ dirty' = IF ok THEN dirty \cup {created + 1} ELSE dirty
      /\ UNCHANGED <<children, callbackVars>> /\ UNCHANGED ownerVars
  BY DEF yoga_node_create, Fresh
<1>2. i \in NodeIndexes /\ ~slots[i].alive
  BY <1>1, FreeSlot
<1>3. TablePart(slots', created', nodes')
  <2>1. P \in SUBSET (nodes \cup {NodeObject(make_token(i, g), created + 1)})
    OBVIOUS
  <2>2. ~ok => P \subseteq nodes
    OBVIOUS
  <2> HIDE DEF P, i, g
  <2> QED BY <1>1, <2>1, <2>2, CreateTable DEF i, g
<1>4. slots \in [NodeIndexes -> SlotType] /\ slots' \in [NodeIndexes -> SlotType]
  BY <1>3 DEF TablePart
<1>5. \A j \in NodeIndexes \ {i} : slots'[j] = slots[j]
  BY <1>1, <1>4
<1>6. /\ slots'[i].parent = NoToken /\ slots'[i].measureAttached = FALSE
      /\ slots'[i].alive = ok /\ slots'[i].node = IF ok THEN created + 1 ELSE 0
  BY <1>1, <1>2, <1>4 DEF Fresh, DeadNode
<1>7. created + 1 \in NativeNodes
  BY <1>1, NodeConstants DEF NativeNodes, TablePart
<1> HIDE DEF i, g, P
<1>8. ForestPart(slots', children', dirty')
  <2>1. dirty' \in SUBSET NativeNodes /\ dirty' \ {created + 1} = dirty \ {created + 1}
    BY <1>1, <1>7 DEF ForestPart
  <2>2. ForestPart(slots', children, dirty')
    BY <1>2, <1>4, <1>5, <1>6, <1>7, <2>1, CreateForest
  <2> QED BY <1>1, <2>2
<1>9. ClaimPart(slots', children', renderables', native')
  <2>1. \A r \in Renderables : renderables[r].node # NoToken =>
            /\ renderables[r].node \in NodeTokens
            /\ renderables[r].node[1] \in Alive(slots) /\ renderables[r].node[1] # i
    <3>1. \A r \in Renderables : renderables[r].node \in NodeTokens \cup {NoToken}
      BY DEF ClaimPart, ClaimsTyped
    <3>2. i \notin Alive(slots)
      BY <1>2 DEF Alive
    <3> QED BY <3>1, <3>2, LiveToken DEF ClaimPart, ClaimsHold
  <2>2. ClaimsHold(slots', renderables, native)
    <3>1. DOMAIN slots' = NodeIndexes /\ DOMAIN slots = NodeIndexes
      BY <1>4
    <3>2. \A r \in Renderables : renderables[r].node # NoToken =>
             slots'[renderables[r].node[1]] = slots[renderables[r].node[1]]
      BY <1>5, <2>1 DEF Alive
    <3> QED BY <3>1, <3>2 DEF ClaimPart, ClaimsHold, Resolves
  <2>3. FlagsTrue(slots', children, renderables)
    <3> SUFFICES ASSUME NEW j \in Alive(slots')
                 PROVE  /\ slots'[j].measureAttached <=>
                              \E r \in Renderables : renderables[r].node = TokenAt(slots', j)
                                                     /\ renderables[r].target # NoOne
                        /\ slots'[j].measureAttached => children[slots'[j].node] = <<>>
      BY DEF FlagsTrue
    <3>1. CASE j = i
      <4>1. TokenAt(slots', i)[1] = i
        BY DEF TokenAt, make_token
      <4>2. TokenAt(slots', i) # NoToken
        BY <1>2, <4>1, TokenFacts DEF NoToken
      <4> QED BY <1>6, <2>1, <3>1, <4>1, <4>2
    <3>2. CASE j # i
      <4>1. j \in Alive(slots) /\ slots'[j] = slots[j] /\ TokenAt(slots', j) = TokenAt(slots, j)
        BY <1>5, <3>2 DEF Alive, TokenAt
      <4> QED BY <4>1 DEF ClaimPart, FlagsTrue
    <3> QED BY <3>1, <3>2
  <2> QED BY <1>1, <2>2, <2>3 DEF ClaimPart, ownerVars
<1>10. UserPart(renderables', views', buffers') /\ CallbackPart'
  BY <1>1 DEF ownerVars, callbackVars, CallbackPart
<1> QED BY <1>3, <1>8, <1>9, <1>10, InvParts

-----------------------------------------------------------------------------
(* Release. *)

(* A set of slots that is released together: no link leads into it or out of *)
(* it, and no native renderable holds one of them.                           *)
Separable(T, G) ==
    /\ G \subseteq Alive(T)
    /\ \A i \in Alive(T) : T[i].parent # NoToken => (i \in G <=> T[i].parent[1] \in G)
    /\ \A i \in G : ~T[i].renderableAttached

NodesOf(T, G) == {T[i].node : i \in G}
Released(T, G) == [i \in NodeIndexes |-> IF i \in G THEN yoga_release_node(T[i]) ELSE T[i]]
Emptied(K, Z) == [n \in NativeNodes |-> IF n \in Z THEN <<>> ELSE K[n]]

(* Released slots are dead and keep their generation. *)
LEMMA ReleasedSlots ==
    ASSUME NEW T \in [NodeIndexes -> SlotType], NEW G
    PROVE  /\ Released(T, G) \in [NodeIndexes -> SlotType]
           /\ \A i \in NodeIndexes : Released(T, G)[i].generation = T[i].generation
           /\ \A i \in NodeIndexes \cap G : ~Released(T, G)[i].alive
           /\ \A i \in NodeIndexes \ G : Released(T, G)[i] = T[i]
<1>1. ASSUME NEW i \in NodeIndexes, NEW u, u = yoga_release_node(T[i])
      PROVE  u \in SlotType /\ u.generation = T[i].generation /\ ~u.alive
  <2>1. T[i].generation \in 0 .. MaxGeneration /\ 0 \in 0 .. MaxNodes
    BY SlotFields, NodeConstants, MaxGenerationAssumption
  <2>2. u = [generation |-> T[i].generation, alive |-> FALSE, renderableAttached |-> FALSE,
             measureAttached |-> FALSE, node |-> 0, parent |-> NoToken]
    BY <1>1 DEF yoga_release_node, DeadNode
  <2> QED BY <2>1, <2>2 DEF SlotType
<1> QED BY <1>1 DEF Released

(* What is left of a forest when whole trees are released is a forest. *)
LEMMA ReleaseForest ==
    ASSUME NEW T, NEW c, NEW N, TablePart(T, c, N), NEW K, NEW D, ForestPart(T, K, D),
           NEW G, Separable(T, G)
    PROVE  ForestPart(Released(T, G), Emptied(K, NodesOf(T, G)), D \ NodesOf(T, G))
<1> DEFINE U == Released(T, G)
           Z == NodesOf(T, G)
           L == Emptied(K, Z)
<1> USE DEF ForestPart
<1>1. T \in [NodeIndexes -> SlotType] /\ G \subseteq Alive(T) /\ Alive(T) \subseteq NodeIndexes
  BY DEF TablePart, Separable, Alive
<1>2. /\ U \in [NodeIndexes -> SlotType]
      /\ \A i \in NodeIndexes : U[i].generation = T[i].generation
      /\ \A i \in NodeIndexes \cap G : ~U[i].alive
      /\ \A i \in NodeIndexes \ G : U[i] = T[i]
  BY <1>1, ReleasedSlots
<1>3. \A i \in Alive(T) : T[i].node \in Z <=> i \in G
  <2>1. \A i, j \in Alive(T) : T[j].node = T[i].node => j = i
    BY LiveSlot
  <2> QED BY <1>1, <2>1 DEF NodesOf
<1>4. L \in [NativeNodes -> Seq(NativeNodes)] /\ ToSet(<<>>) = {}
  BY DEF Emptied, ToSet
<1>5. \A m \in NativeNodes : L[m] = IF m \in Z THEN <<>> ELSE K[m]
  BY DEF Emptied
<1> HIDE DEF U, L, Z
<1>6. Alive(U) = Alive(T) \ G /\ \A i \in Alive(U) : U[i] = T[i]
  BY <1>1, <1>2 DEF Alive
<1>7. \A i \in Alive(U) : T[i].parent # NoToken =>
          /\ T[i].parent[1] \in Alive(U) /\ U[T[i].parent[1]] = T[T[i].parent[1]]
          /\ T[T[i].parent[1]].node \notin Z
  BY <1>3, <1>6, ParentSlot DEF Separable
<1>8. ParentsResolve(U)
  <2>1. DOMAIN U = NodeIndexes /\ DOMAIN T = NodeIndexes
    BY <1>1, <1>2
  <2> QED BY <1>6, <1>7, <2>1 DEF ParentsResolve, Resolves
<1>9. Grounded(U)
  <2> SUFFICES ASSUME NEW C \in SUBSET Alive(U), C # {}
               PROVE  \E j \in C : U[j].parent = NoToken \/ U[j].parent[1] \notin C
    BY DEF Grounded
  <2>1. C \in SUBSET Alive(T)
    BY <1>6
  <2>2. PICK j \in C : T[j].parent = NoToken \/ T[j].parent[1] \notin C
    BY <2>1 DEF Grounded
  <2> QED BY <1>6, <2>2
<1>10. ListsAgree(U, L)
  <2> SUFFICES ASSUME NEW i \in Alive(U), NEW m \in NativeNodes
               PROVE  U[i].node \in ToSet(L[m]) <=>
                        U[i].parent # NoToken /\ m = U[U[i].parent[1]].node
    BY DEF ListsAgree
  <2>1. CASE m \in Z
    BY <1>4, <1>5, <1>6, <1>7, <2>1
  <2>2. CASE m \notin Z
    <3>1. T[i].node \in ToSet(K[m]) <=> T[i].parent # NoToken /\ m = T[T[i].parent[1]].node
      BY <1>6 DEF ListsAgree
    <3> QED BY <1>5, <1>6, <1>7, <2>2, <3>1
  <2> QED BY <2>1, <2>2
<1>11. ListsOnce(L)
  <2>1. DOMAIN <<>> = {}
    OBVIOUS
  <2> QED BY <1>5, <2>1 DEF ListsOnce
<1>12. ListsLive(U, L)
  <2> SUFFICES ASSUME NEW m \in NativeNodes, NEW n \in ToSet(L[m])
               PROVE  \E i \in Alive(U) : U[i].node = n
    BY DEF ListsLive
  <2>1. m \notin Z /\ n \in ToSet(K[m])
    BY <1>4, <1>5
  <2>2. PICK i \in Alive(T) : T[i].node = n
    BY <2>1 DEF ListsLive
  <2>3. T[i].parent # NoToken /\ m = T[T[i].parent[1]].node
    BY <2>1, <2>2 DEF ListsAgree
  <2>4. T[i].parent[1] \in Alive(T)
    BY <2>3, ParentSlot
  <2>5. i \notin G
    BY <1>3, <2>1, <2>3, <2>4 DEF Separable
  <2> QED BY <1>6, <2>2, <2>5
<1>13. DirtyAbove(U, D \ Z)
  BY <1>6, <1>7 DEF DirtyAbove
<1> QED BY <1>4, <1>8, <1>9, <1>10, <1>11, <1>12, <1>13 DEF U, L, Z

(* A token of a claim keeps its slot when other slots are released. *)
LEMMA ReleaseClaims ==
    ASSUME NEW T, NEW c, NEW N, TablePart(T, c, N), NEW G, Separable(T, G),
           NEW K, NEW R, NEW M, ClaimPart(T, K, R, M)
    PROVE  ClaimPart(Released(T, G), Emptied(K, NodesOf(T, G)), R, M)
<1> DEFINE U == Released(T, G)
           L == Emptied(K, NodesOf(T, G))
<1>1. T \in [NodeIndexes -> SlotType] /\ G \subseteq Alive(T) /\ Alive(T) \subseteq NodeIndexes
  BY DEF TablePart, Separable, Alive
<1>2. /\ U \in [NodeIndexes -> SlotType]
      /\ \A i \in NodeIndexes \cap G : ~U[i].alive
      /\ \A i \in NodeIndexes \ G : U[i] = T[i]
  BY <1>1, ReleasedSlots
<1> HIDE DEF U
<1>3. \A i \in Alive(U) : i \in Alive(T) /\ U[i] = T[i]
  BY <1>1, <1>2 DEF Alive
<1>4. \A r \in Renderables : R[r].node # NoToken =>
          /\ R[r].node[1] \in NodeIndexes /\ U[R[r].node[1]] = T[R[r].node[1]]
  <2> SUFFICES ASSUME NEW r \in Renderables, R[r].node # NoToken
               PROVE  R[r].node[1] \in NodeIndexes \ G
    BY <1>2
  <2>1. R[r].node \in NodeTokens \cup {NoToken} /\ Resolves(T, R[r].node)
    BY DEF ClaimPart, ClaimsTyped, ClaimsHold
  <2>2. T[R[r].node[1]].renderableAttached
    BY DEF ClaimPart, ClaimsHold
  <2> QED BY <1>1, <2>1, <2>2, LiveToken DEF Separable
<1>5. ClaimsHold(U, R, M)
  <2>1. DOMAIN U = NodeIndexes /\ DOMAIN T = NodeIndexes
    BY <1>1, <1>2
  <2> QED BY <1>4, <2>1 DEF ClaimPart, ClaimsHold, Resolves
<1>6. FlagsTrue(U, L, R)
  <2> SUFFICES ASSUME NEW i \in Alive(U)
               PROVE  /\ U[i].measureAttached <=>
                            \E r \in Renderables : R[r].node = TokenAt(U, i) /\ R[r].target # NoOne
                      /\ U[i].measureAttached => L[U[i].node] = <<>>
    BY DEF FlagsTrue
  <2>1. i \in Alive(T) /\ U[i] = T[i] /\ TokenAt(U, i) = TokenAt(T, i)
    BY <1>3 DEF TokenAt
  <2>2. T[i].node \in NativeNodes
    BY <2>1, LiveSlot
  <2>3. L[T[i].node] = <<>> \/ L[T[i].node] = K[T[i].node]
    BY <2>2 DEF Emptied
  <2> HIDE DEF L
  <2> QED BY <2>1, <2>3 DEF ClaimPart, FlagsTrue
<1> QED BY <1>5, <1>6 DEF ClaimPart, U

(* What the two ways of freeing have in common. *)
LEMMA ReleaseStep ==
    ASSUME LayoutInv, NEW G, Separable(slots, G),
           slots' = Released(slots, G), children' = Emptied(children, NodesOf(slots, G)),
           dirty' = dirty \ NodesOf(slots, G), nodes' \subseteq nodes, created' = created,
           measured' \subseteq measured, UNCHANGED <<registered, registrations, ownerVars>>
    PROVE  LayoutInv'
<1>1. slots \in [NodeIndexes -> SlotType] /\ G \subseteq Alive(slots)
  BY DEF LayoutInv, TablePart, Separable
<1>2. TablePart(slots', created', nodes')
  <2>1. \A i \in NodeIndexes :
           /\ slots'[i].generation = slots[i].generation
           /\ slots'[i].alive => slots[i].alive /\ slots'[i].node = slots[i].node
    BY <1>1, ReleasedSlots
  <2>2. slots' \in [NodeIndexes -> SlotType] /\ nodes' \in SUBSET nodes
    BY <1>1, ReleasedSlots
  <2> QED BY <2>1, <2>2, TableKept DEF LayoutInv
<1>3. ForestPart(slots', children', dirty')
  BY ReleaseForest DEF LayoutInv
<1>4. ClaimPart(slots', children', renderables', native')
  BY ReleaseClaims DEF LayoutInv, ownerVars
<1>5. UserPart(renderables', views', buffers') /\ CallbackPart'
  BY DEF LayoutInv, ownerVars, CallbackPart
<1> QED BY <1>2, <1>3, <1>4, <1>5, InvParts

(* The token of an object, when it resolves. *)
LEMMA ObjectSlot ==
    ASSUME LayoutInv, NEW x \in nodes, yoga_node_from_handle(x.token)
    PROVE  /\ x.token \in NodeTokens /\ x.token[1] \in Alive(slots)
           /\ x.token[1] \in NodeIndexes /\ x.token = TokenAt(slots, x.token[1])
           /\ Slot(x.token) = slots[x.token[1]] /\ NativeOf(x.token) = slots[x.token[1]].node
           /\ NativeOf(x.token) \in NativeNodes
<1>1. x.token \in NodeTokens
  BY DEF LayoutInv, TablePart, ObjectType
<1>2. x.token[1] \in Alive(slots) /\ x.token = TokenAt(slots, x.token[1])
  BY <1>1, LiveToken, SMTT(40) DEF LayoutInv, yoga_node_from_handle
<1> QED BY <1>1, <1>2, LiveSlot DEF LayoutInv, Slot, NativeOf

(* yoga_node_free: a leaf without a parent is a whole tree. *)
LEMMA FreeStep ==
    ASSUME LayoutInv, NEW x \in nodes, yoga_node_free(x), UNCHANGED ownerVars
    PROVE  LayoutInv'
<1> DEFINE i == x.token[1]
           n == slots[i].node
           G == {i}
<1>1. /\ i \in Alive(slots) /\ i \in NodeIndexes /\ n \in NativeNodes
      /\ Slot(x.token) = slots[i] /\ NativeOf(x.token) = n
  BY ObjectSlot DEF yoga_node_free
<1>2. /\ ~slots[i].renderableAttached /\ slots[i].parent = NoToken /\ Len(children[n]) = 0
      /\ slots' = [slots EXCEPT ![i] = yoga_release_node(@)]
      /\ nodes' = nodes \ {x} /\ measured' = measured \ {n} /\ dirty' = dirty \ {n}
      /\ UNCHANGED <<children, created, registered, registrations>>
  BY <1>1 DEF yoga_node_free, yogaNodeGetChildCount
<1> HIDE DEF i, n
<1>3. children[n] = <<>>
  <2>1. children[n] \in Seq(NativeNodes)
    BY <1>1 DEF LayoutInv, ForestPart
  <2> QED BY <1>2, <2>1
<1>4. NodesOf(slots, G) = {n}
  BY DEF NodesOf, n
<1>5. Separable(slots, G)
  <2>1. ASSUME NEW j \in Alive(slots), slots[j].parent # NoToken, slots[j].parent[1] = i
        PROVE  FALSE
    <3>1. slots[j].node \in ToSet(children[n])
      BY <1>1, <2>1 DEF LayoutInv, ForestPart, ListsAgree, n
    <3> QED BY <1>3, <3>1 DEF ToSet
  <2> QED BY <1>1, <1>2, <2>1 DEF Separable
<1>6. slots' = Released(slots, G)
  <2>1. slots \in [NodeIndexes -> SlotType]
    BY DEF LayoutInv, TablePart
  <2> QED BY <1>1, <1>2, <2>1 DEF Released
<1>7. children' = Emptied(children, NodesOf(slots, G))
  <2>1. children \in [NativeNodes -> Seq(NativeNodes)]
    BY DEF LayoutInv, ForestPart
  <2> QED BY <1>2, <1>3, <1>4, <2>1 DEF Emptied
<1> HIDE DEF G
<1> QED BY <1>2, <1>4, <1>5, <1>6, <1>7, ReleaseStep

(* The slots below a token, found along the parent links, are those of the   *)
(* native nodes below its node, found along the lists of children: what      *)
(* free_recursive releases in the table is what Yoga frees.                  *)
Below(root) == {i \in Alive(slots) : TokenAt(slots, i) \in Subtree(root)}

(* The parent links of the table, in terms of its live slots. *)
LEMMA LinkFacts ==
    ASSUME LayoutInv
    PROVE  /\ LiveIndexes = Alive(slots)
           /\ \A i \in Alive(slots) : yoga_handle(i) = TokenAt(slots, i)
           /\ LinkedTokens = {TokenAt(slots, i) : i \in Alive(slots)}
           /\ \A i \in Alive(slots) : slots[i].parent # NoToken =>
                 <<TokenAt(slots, i), slots[i].parent>> \in ParentLinks
           /\ \A l \in ParentLinks : \E i \in Alive(slots) :
                 slots[i].parent # NoToken /\ l = <<TokenAt(slots, i), slots[i].parent>>
<1>1. LiveIndexes = Alive(slots)
  BY DEF LiveIndexes, Alive
<1>2. \A i \in Alive(slots) : yoga_handle(i) = TokenAt(slots, i)
  BY DEF yoga_handle, TokenAt
<1>3. \A i \in Alive(slots) : TokenAt(slots, i) # NoToken
  BY LiveSlot DEF LayoutInv
<1>4. \A i \in Alive(slots) : slots[i].parent # NoToken =>
          /\ slots[i].parent[1] \in Alive(slots)
          /\ slots[i].parent = TokenAt(slots, slots[i].parent[1])
  BY ParentSlot DEF LayoutInv, ForestPart
<1>5. LinkedTokens = {TokenAt(slots, i) : i \in Alive(slots)}
  BY <1>1, <1>2, <1>3, <1>4 DEF LinkedTokens
<1>6. \A i \in Alive(slots) : slots[i].parent # NoToken =>
          <<TokenAt(slots, i), slots[i].parent>> \in ParentLinks
  BY <1>1, <1>2 DEF ParentLinks
<1>7. \A l \in ParentLinks : \E i \in Alive(slots) :
          slots[i].parent # NoToken /\ l = <<TokenAt(slots, i), slots[i].parent>>
  BY <1>1, <1>2 DEF ParentLinks
<1> QED BY <1>1, <1>2, <1>5, <1>6, <1>7

(* The slots below a root, one step at a time. *)
LEMMA BelowFacts ==
    ASSUME LayoutInv, NEW r \in Alive(slots), NEW root, root = TokenAt(slots, r)
    PROVE  /\ r \in Below(root) /\ Subtree(root) = {TokenAt(slots, i) : i \in Below(root)}
           /\ \A i \in Alive(slots) : slots[i].parent # NoToken /\ slots[i].parent[1] \in Below(root)
                 => i \in Below(root)
           /\ \A i \in Below(root) \ {r} :
                 slots[i].parent # NoToken /\ slots[i].parent[1] \in Below(root)
<1> DEFINE S == LinkedTokens
           E == {<<l[2], l[1]>> : l \in ParentLinks}
           A == Reached(S, E, root)
<1>1. Subtree(root) = A
  BY DEF Subtree
<1>2. S = {TokenAt(slots, i) : i \in Alive(slots)}
  BY LinkFacts
<1>3. root \in S
  BY <1>2
<1>4. \A i \in Alive(slots) : slots[i].parent # NoToken =>
          <<slots[i].parent, TokenAt(slots, i)>> \in E
  <2> SUFFICES ASSUME NEW i \in Alive(slots), slots[i].parent # NoToken
               PROVE  <<slots[i].parent, TokenAt(slots, i)>> \in E
    OBVIOUS
  <2> DEFINE l == <<TokenAt(slots, i), slots[i].parent>>
  <2>1. l \in ParentLinks
    BY LinkFacts
  <2>2. <<l[2], l[1]>> \in E
    BY <2>1
  <2> QED BY <2>2
<1>5. \A l \in E : \E i \in Alive(slots) :
          slots[i].parent # NoToken /\ l = <<slots[i].parent, TokenAt(slots, i)>>
  BY LinkFacts
<1> HIDE DEF S, E
<1>6. /\ A \subseteq S /\ root \in A
      /\ \A l \in E : l[1] \in A /\ l[2] \in S => l[2] \in A
  BY <1>3, ReachedFacts
<1>7. \A t \in A : t # root => \E l \in E : l[2] = t /\ l[1] \in A
  BY <1>3, ReachedThrough
<1> HIDE DEF A
<1>8. \A i \in Alive(slots) : slots[i].parent # NoToken =>
          /\ slots[i].parent[1] \in Alive(slots)
          /\ slots[i].parent = TokenAt(slots, slots[i].parent[1])
  BY ParentSlot DEF LayoutInv, ForestPart
<1>9. \A i \in Alive(slots) : TokenAt(slots, i)[1] = i
  BY LiveSlot DEF LayoutInv
<1>10. \A i \in Alive(slots) : i \in Below(root) <=> TokenAt(slots, i) \in A
  BY <1>1 DEF Below
<1>11. r \in Below(root) /\ Subtree(root) = {TokenAt(slots, i) : i \in Below(root)}
  BY <1>1, <1>2, <1>6, <1>10 DEF Below
<1>12. ASSUME NEW i \in Alive(slots), slots[i].parent # NoToken, slots[i].parent[1] \in Below(root)
       PROVE  i \in Below(root)
  <2>1. slots[i].parent \in A
    BY <1>8, <1>10, <1>12
  <2>2. <<slots[i].parent, TokenAt(slots, i)>> \in E /\ TokenAt(slots, i) \in S
    BY <1>2, <1>4, <1>12
  <2>3. TokenAt(slots, i) \in A
    BY <1>6, <2>1, <2>2
  <2> QED BY <1>10, <2>3
<1>13. ASSUME NEW i \in Below(root) \ {r}
       PROVE  slots[i].parent # NoToken /\ slots[i].parent[1] \in Below(root)
  <2>1. i \in Alive(slots) /\ TokenAt(slots, i) \in A /\ TokenAt(slots, i) # root
    BY <1>9, <1>10 DEF Below
  <2>2. PICK l \in E : l[2] = TokenAt(slots, i) /\ l[1] \in A
    BY <1>7, <2>1
  <2>3. PICK j \in Alive(slots) :
           slots[j].parent # NoToken /\ l = <<slots[j].parent, TokenAt(slots, j)>>
    BY <1>5
  <2>4. TokenAt(slots, j) = TokenAt(slots, i) /\ slots[j].parent \in A
    BY <2>2, <2>3
  <2>5. j = i
    BY <1>9, <2>1, <2>4
  <2> QED BY <1>8, <1>10, <2>1, <2>3, <2>4, <2>5
<1> QED BY <1>11, <1>12, <1>13

(* The two walks of free_recursive find the same nodes. *)
LEMMA SubtreesAgree ==
    ASSUME LayoutInv, NEW r \in Alive(slots), NEW root, root = TokenAt(slots, r)
    PROVE  NativeSubtree(slots[r].node) = NodesOf(slots, Below(root))
<1> DEFINE G == Below(root)
           A == NativeSubtree(slots[r].node)
           Z == NodesOf(slots, G)
<1>1. G \subseteq Alive(slots)
  BY DEF Below
<1>2. /\ \A i \in Alive(slots) : slots[i].node \in NativeNodes
      /\ \A i, j \in Alive(slots) : slots[i].node = slots[j].node => i = j
  BY LiveSlot DEF LayoutInv
<1>3. children \in [NativeNodes -> Seq(NativeNodes)]
  BY DEF LayoutInv, ForestPart
<1>4. A \subseteq Z
  <2>1. Z \in SUBSET NativeNodes /\ slots[r].node \in Z
    BY <1>1, <1>2, BelowFacts DEF NodesOf
  <2>2. ASSUME NEW l \in ChildLinks, l[1] \in Z PROVE l[2] \in Z
    <3>1. PICK m \in NativeNodes : \E n \in ToSet(children[m]) : l = <<m, n>>
      BY <1>3, ChildLinkFacts
    <3>2. PICK n \in ToSet(children[m]) : l = <<m, n>>
      BY <3>1
    <3>3. PICK i \in G : slots[i].node = m
      BY <2>2, <3>2 DEF NodesOf
    <3>4. PICK j \in Alive(slots) : slots[j].node = n
      BY DEF LayoutInv, ForestPart, ListsLive
    <3>5. slots[j].parent # NoToken /\ m = slots[slots[j].parent[1]].node
      BY <3>4 DEF LayoutInv, ForestPart, ListsAgree
    <3>6. slots[j].parent[1] \in Alive(slots)
      BY <3>5, ParentSlot DEF LayoutInv, ForestPart
    <3>7. slots[j].parent[1] = i
      BY <1>1, <1>2, <3>3, <3>5, <3>6
    <3>8. j \in G
      BY <3>5, <3>7, BelowFacts
    <3> QED BY <3>2, <3>4, <3>8 DEF NodesOf
  <2>3. slots[r].node \in NativeNodes
    BY <1>2
  <2> HIDE DEF Z
  <2> QED BY <2>1, <2>2, <2>3, ReachedLeast DEF NativeSubtree
<1>5. Z \subseteq A
  <2> DEFINE E == {<<l[2], l[1]>> : l \in ParentLinks}
             C == {t \in LinkedTokens : slots[t[1]].node \in A}
  <2>1. /\ slots[r].node \in A
        /\ \A l \in ChildLinks : l[1] \in A /\ l[2] \in NativeNodes => l[2] \in A
    BY <1>2, ReachedFacts DEF NativeSubtree
  <2> HIDE DEF A
  <2>2. \A i \in Alive(slots) : TokenAt(slots, i)[1] = i
    BY LiveSlot DEF LayoutInv
  <2>3. C \in SUBSET LinkedTokens /\ root \in C /\ root \in LinkedTokens
    BY <2>1, <2>2, LinkFacts
  <2>4. ASSUME NEW l \in E, l[1] \in C PROVE l[2] \in C
    <3>1. PICK i \in Alive(slots) :
             slots[i].parent # NoToken /\ l = <<slots[i].parent, TokenAt(slots, i)>>
      BY LinkFacts
    <3>2. slots[slots[i].parent[1]].node \in A /\ slots[slots[i].parent[1]].node \in NativeNodes
      BY <2>4, <3>1, ParentSlot DEF LayoutInv, ForestPart
    <3>3. slots[i].node \in ToSet(children[slots[slots[i].parent[1]].node])
      BY <3>1, <3>2 DEF LayoutInv, ForestPart, ListsAgree
    <3>4. <<slots[slots[i].parent[1]].node, slots[i].node>> \in ChildLinks
      BY <1>3, <3>2, <3>3, ChildLinkFacts
    <3>5. slots[i].node \in A
      BY <1>2, <2>1, <3>2, <3>4
    <3>6. TokenAt(slots, i) \in LinkedTokens
      BY LinkFacts
    <3> QED BY <2>2, <3>1, <3>5, <3>6
  <2> HIDE DEF C, E
  <2>5. Subtree(root) \subseteq C
    BY <2>3, <2>4, ReachedLeast DEF Subtree, E
  <2>6. \A i \in G : slots[i].node \in A
    BY <2>2, <2>5 DEF Below, C
  <2> QED BY <2>6 DEF NodesOf
<1> QED BY <1>4, <1>5

(* yoga_node_free_recursive. *)
LEMMA FreeRecursiveStep ==
    ASSUME LayoutInv, NEW x \in nodes, yoga_node_free_recursive(x), UNCHANGED ownerVars
    PROVE  LayoutInv'
<1> DEFINE r == x.token[1]
           G == Below(x.token)
<1>1. /\ r \in Alive(slots) /\ x.token = TokenAt(slots, r)
      /\ Slot(x.token) = slots[r] /\ NativeOf(x.token) = slots[r].node
  BY ObjectSlot DEF yoga_node_free_recursive
<1>2. NativeSubtree(NativeOf(x.token)) = NodesOf(slots, G)
  BY <1>1, SubtreesAgree
<1>3. /\ slots[r].parent = NoToken /\ ~yoga_subtree_has_native_renderable(x.token)
      /\ slots' = yoga_release_subtree_slots(x.token)
      /\ children' = Emptied(children, NodesOf(slots, G))
      /\ measured' \subseteq measured /\ dirty' = dirty \ NodesOf(slots, G)
      /\ nodes' \subseteq nodes /\ UNCHANGED <<created, registered, registrations>>
  BY <1>1, <1>2 DEF yoga_node_free_recursive, Emptied
<1>4. slots' = Released(slots, G)
  <2>1. \A i \in NodeIndexes :
           (slots[i].alive /\ yoga_handle(i) \in Subtree(x.token)) <=> i \in G
    BY DEF Below, Alive, yoga_handle, TokenAt
  <2> QED BY <1>3, <2>1 DEF yoga_release_subtree_slots, Released
<1>5. Separable(slots, G)
  <2>1. G \subseteq Alive(slots)
    BY DEF Below
  <2>2. ASSUME NEW i \in Alive(slots), slots[i].parent # NoToken
        PROVE  i \in G <=> slots[i].parent[1] \in G
    <3>1. i # r
      BY <1>3, <2>2
    <3> HIDE DEF r
    <3> QED BY <1>1, <2>2, <3>1, BelowFacts
  <2>3. \A i \in G : ~slots[i].renderableAttached
    <3>1. \A i \in G : TokenAt(slots, i) \in Subtree(x.token) /\ TokenAt(slots, i)[1] = i
      BY <2>1, LiveSlot DEF LayoutInv, Below
    <3> QED BY <1>3, <3>1 DEF yoga_subtree_has_native_renderable, Slot
  <2> QED BY <2>1, <2>2, <2>3 DEF Separable
<1> HIDE DEF G
<1> QED BY <1>3, <1>4, <1>5, ReleaseStep

-----------------------------------------------------------------------------
(* Structure. *)

SameSlots(T, U) ==
    \A i \in NodeIndexes :
        /\ U[i].generation = T[i].generation /\ U[i].alive = T[i].alive
        /\ U[i].node = T[i].node /\ U[i].renderableAttached = T[i].renderableAttached
        /\ U[i].measureAttached = T[i].measureAttached

(* Claims depend on the slots except for their parents, and on the lists of  *)
(* children only as far as measured nodes have none.                         *)
LEMMA ClaimsKept ==
    ASSUME NEW T, NEW c, NEW N, TablePart(T, c, N), NEW K, NEW R, NEW M, ClaimPart(T, K, R, M),
           NEW U \in [NodeIndexes -> SlotType],
           SameSlots(T, U),
           NEW L, \A i \in Alive(T) : T[i].measureAttached => L[T[i].node] = <<>>
    PROVE  ClaimPart(U, L, R, M)
<1> USE DEF SameSlots
<1>1. T \in [NodeIndexes -> SlotType] /\ DOMAIN U = NodeIndexes /\ DOMAIN T = NodeIndexes
  BY DEF TablePart
<1>2. Alive(U) = Alive(T) /\ \A i \in Alive(T) : TokenAt(U, i) = TokenAt(T, i)
  BY DEF Alive, TokenAt
<1>3. \A r \in Renderables : R[r].node # NoToken =>
          R[r].node[1] \in NodeIndexes /\ Resolves(U, R[r].node)
  BY <1>1 DEF ClaimPart, ClaimsHold, Resolves
<1>4. ClaimsHold(U, R, M)
  BY <1>3 DEF ClaimPart, ClaimsHold
<1>5. FlagsTrue(U, L, R)
  <2>1. \A i \in Alive(T) : i \in NodeIndexes
    BY DEF Alive
  <2> QED BY <1>2, <2>1 DEF ClaimPart, FlagsTrue
<1> QED BY <1>4, <1>5 DEF ClaimPart

(* A slot whose parent link changes. *)
WithParent(T, c, q) == [T EXCEPT ![c].parent = q]

LEMMA Relinked ==
    ASSUME NEW T \in [NodeIndexes -> SlotType], NEW c \in NodeIndexes,
           NEW q \in NodeTokens \cup {NoToken}, NEW U, U = WithParent(T, c, q)
    PROVE  /\ U \in [NodeIndexes -> SlotType]
           /\ U[c].parent = q /\ \A i \in NodeIndexes \ {c} : U[i] = T[i]
           /\ SameSlots(T, U)
           /\ Alive(U) = Alive(T)
<1>1. T[c] \in SlotType /\ [T[c] EXCEPT !.parent = q] \in SlotType
  BY DEF SlotType
<1>2. U \in [NodeIndexes -> SlotType]
  BY <1>1 DEF WithParent
<1>3. U[c] = [T[c] EXCEPT !.parent = q] /\ \A i \in NodeIndexes \ {c} : U[i] = T[i]
  BY DEF WithParent
<1>4. /\ U[c].parent = q
      /\ U[c].generation = T[c].generation /\ U[c].alive = T[c].alive
      /\ U[c].node = T[c].node /\ U[c].renderableAttached = T[c].renderableAttached
      /\ U[c].measureAttached = T[c].measureAttached
  BY <1>1, <1>3 DEF SlotType
<1>5. SameSlots(T, U)
  BY <1>3, <1>4 DEF SameSlots
<1>6. Alive(U) = Alive(T)
  BY <1>5, Zenon DEF Alive, SameSlots
<1> QED BY <1>2, <1>3, <1>4, <1>5, <1>6

(* What every change of a parent link or a list has in common: c is the slot *)
(* whose parent may change, and the dirty mark starts at the node n.         *)
LEMMA RelinkStep ==
    ASSUME LayoutInv, UNCHANGED <<created, nodes, callbackVars, ownerVars>>,
           NEW c \in NodeIndexes, NEW q \in NodeTokens \cup {NoToken},
           slots' = WithParent(slots, c, q),
           children' \in [NativeNodes -> Seq(NativeNodes)], dirty' \subseteq NativeNodes,
           ParentsResolve(slots'), Grounded(slots'), ListsAgree(slots', children'),
           ListsOnce(children'), ListsLive(slots, children'), DirtyAbove(slots', dirty'),
           \A i \in Alive(slots) : slots[i].measureAttached => children'[slots[i].node] = <<>>
    PROVE  LayoutInv'
<1>1. slots \in [NodeIndexes -> SlotType]
  BY DEF LayoutInv, TablePart
<1>2. slots' \in [NodeIndexes -> SlotType] /\ SameSlots(slots, slots')
  BY <1>1, Relinked
<1>3. Alive(slots') = Alive(slots) /\ Alive(slots) \subseteq NodeIndexes
  BY <1>1, Relinked DEF Alive
<1>4. \A i \in NodeIndexes :
         /\ slots'[i].generation = slots[i].generation
         /\ slots'[i].node = slots[i].node /\ slots'[i].alive = slots[i].alive
  BY <1>2, Zenon DEF SameSlots
<1>5. TablePart(slots', created', nodes')
  <2>1. nodes' \in SUBSET nodes
    OBVIOUS
  <2>2. \A i \in NodeIndexes :
           /\ slots'[i].generation = slots[i].generation
           /\ slots'[i].alive => slots[i].alive /\ slots'[i].node = slots[i].node
    BY <1>4
  <2>3. TablePart(slots, created, nodes)
    BY DEF LayoutInv
  <2>4. TablePart(slots', created, nodes')
    BY <1>2, <2>1, <2>2, <2>3, TableKept, ZenonT(60)
  <2> QED BY <2>4
<1>6. ForestPart(slots', children', dirty')
  <2>1. ListsLive(slots', children')
    BY <1>3, <1>4 DEF ListsLive
  <2> QED BY <2>1 DEF ForestPart
<1>7. ClaimPart(slots', children', renderables', native')
  <2>1. ClaimPart(slots', children', renderables, native)
    BY <1>2, ClaimsKept DEF LayoutInv
  <2> QED BY <2>1 DEF ownerVars
<1>8. UserPart(renderables', views', buffers') /\ CallbackPart'
  BY DEF LayoutInv, ownerVars, callbackVars, CallbackPart
<1> QED BY <1>5, <1>6, <1>7, <1>8, InvParts

(* yoga_node_insert_child: its walk up from the parent rules out the cycle. *)
LEMMA InsertStep ==
    ASSUME LayoutInv, NEW p \in nodes, NEW c \in nodes, NEW at \in Nat,
           yoga_node_insert_child(p, c, at), UNCHANGED ownerVars
    PROVE  LayoutInv'
<1> DEFINE pi == p.token[1]
           ci == c.token[1]
           pn == slots[pi].node
           cn == slots[ci].node
           T == slots
           U == slots'
<1>1. /\ p.token \in NodeTokens /\ pi \in Alive(T) /\ pi \in NodeIndexes
      /\ p.token = TokenAt(T, pi) /\ pn \in NativeNodes
      /\ Slot(p.token) = T[pi] /\ NativeOf(p.token) = pn
  BY ObjectSlot DEF yoga_node_insert_child
<1>2. /\ c.token \in NodeTokens /\ ci \in Alive(T) /\ ci \in NodeIndexes
      /\ c.token = TokenAt(T, ci) /\ cn \in NativeNodes
      /\ Slot(c.token) = T[ci] /\ NativeOf(c.token) = cn
  BY ObjectSlot DEF yoga_node_insert_child
<1>3. /\ ~T[pi].measureAttached /\ T[ci].parent = NoToken /\ p.token # c.token
      /\ c.token \notin Ancestors(p.token)
      /\ at \in 0 .. Len(children[pn])
      /\ children' = [children EXCEPT ![pn] = InsertAt(@, at + 1, cn)]
      /\ U = WithParent(T, ci, p.token)
      /\ dirty' = yogaNodeMarkDirty(pn)
      /\ UNCHANGED <<created, nodes, callbackVars>>
  <2>1. children[pn] \in Seq(NativeNodes)
    BY <1>1 DEF LayoutInv, ForestPart
  <2>2. at \in 0 .. Len(children[pn])
    BY <1>1, <2>1 DEF yoga_node_insert_child, yogaNodeGetChildCount
  <2> QED BY <1>1, <1>2, <2>2 DEF yoga_node_insert_child, yoga_would_create_cycle,
                                 yogaNodeInsertChild, WithParent
<1> HIDE DEF pi, ci, pn, cn
<1>4. T \in [NodeIndexes -> SlotType] /\ children \in [NativeNodes -> Seq(NativeNodes)]
  BY DEF LayoutInv, TablePart, ForestPart
<1>5. \A i \in NodeIndexes \ {ci} : U[i] = T[i]
  BY <1>1, <1>2, <1>3, <1>4, Relinked
<1>6. /\ DOMAIN U = NodeIndexes /\ DOMAIN T = NodeIndexes /\ Alive(U) = Alive(T)
      /\ U[ci].parent = p.token /\ U[ci].node = cn
      /\ \A i \in NodeIndexes : U[i].node = T[i].node /\ U[i].generation = T[i].generation
                               /\ U[i].alive = T[i].alive
  <2>1. /\ SameSlots(T, U) /\ U \in [NodeIndexes -> SlotType] /\ Alive(U) = Alive(T)
        /\ U[ci].parent = p.token
    BY <1>1, <1>2, <1>3, <1>4, Relinked
  <2>2. \A i \in NodeIndexes : U[i].node = T[i].node /\ U[i].generation = T[i].generation
                              /\ U[i].alive = T[i].alive
    BY <2>1, Zenon DEF SameSlots
  <2> QED BY <1>2, <1>4, <2>1, <2>2 DEF cn
<1>7. ParentsResolve(U)
  <2> SUFFICES ASSUME NEW i \in Alive(T), U[i].parent # NoToken PROVE Resolves(U, U[i].parent)
    BY <1>6 DEF ParentsResolve
  <2>1. Resolves(T, U[i].parent)
    <3>1. CASE i = ci
      BY <1>1, <1>6, <3>1, LiveSlot DEF LayoutInv
    <3>2. CASE i # ci
      BY <1>5, <3>2 DEF LayoutInv, ForestPart, ParentsResolve, Alive
    <3> QED BY <3>1, <3>2
  <2> QED BY <1>6, <2>1 DEF Resolves
<1>8. Grounded(U)
  <2> SUFFICES ASSUME NEW C \in SUBSET Alive(T), C # {},
                      \A i \in C : U[i].parent # NoToken /\ U[i].parent[1] \in C
               PROVE  FALSE
    BY <1>6 DEF Grounded
  <2> DEFINE A == Ancestors(p.token)
             B == {i \in C : TokenAt(T, i) \in A}
  <2>1. p.token \in A /\ \A l \in ParentLinks : l[1] \in A /\ l[2] \in LinkedTokens => l[2] \in A
    <3>1. p.token \in LinkedTokens
      BY <1>1, LinkFacts
    <3> QED BY <3>1, ReachedFacts DEF Ancestors
  <2> HIDE DEF A
  <2>2. CASE ci \notin C
    <3>1. \A i \in C : T[i].parent # NoToken /\ T[i].parent[1] \in C
      BY <1>5, <2>2 DEF Alive
    <3> QED BY <3>1 DEF LayoutInv, ForestPart, Grounded
  <2>3. CASE ci \in C
    <3>1. pi \in C
      BY <1>6, <2>3 DEF pi
    <3>2. B \in SUBSET Alive(T) /\ B # {}
      BY <1>1, <2>1, <3>1
    <3>3. ASSUME NEW i \in B PROVE T[i].parent # NoToken /\ T[i].parent[1] \in B
      <4>1. i # ci
        BY <1>2, <1>3, <3>3 DEF A
      <4>2. i \in Alive(T) /\ U[i] = T[i]
        BY <1>5, <4>1 DEF Alive
      <4>3. T[i].parent # NoToken /\ T[i].parent[1] \in C
        BY <3>3, <4>2
      <4>4. T[i].parent[1] \in Alive(T) /\ T[i].parent = TokenAt(T, T[i].parent[1])
        BY <4>2, <4>3, ParentSlot DEF LayoutInv, ForestPart
      <4>5. <<TokenAt(T, i), T[i].parent>> \in ParentLinks /\ T[i].parent \in LinkedTokens
        BY <4>2, <4>3, <4>4, LinkFacts
      <4>6. T[i].parent \in A
        BY <2>1, <3>3, <4>5
      <4> QED BY <4>3, <4>4, <4>6
    <3> HIDE DEF B
    <3> QED BY <3>2, <3>3 DEF LayoutInv, ForestPart, Grounded
  <2> QED BY <2>2, <2>3
<1>9. \A m \in NativeNodes : cn \notin ToSet(children[m])
  BY <1>2, <1>3 DEF LayoutInv, ForestPart, ListsAgree, cn
<1>10. /\ children' \in [NativeNodes -> Seq(NativeNodes)]
       /\ \A m \in NativeNodes \ {pn} : children'[m] = children[m]
       /\ Once(children'[pn]) /\ ToSet(children'[pn]) = ToSet(children[pn]) \cup {cn}
  <2>1. children[pn] \in Seq(NativeNodes) /\ Once(children[pn])
    BY <1>1, <1>4 DEF LayoutInv, ForestPart, ListsOnce, Once
  <2>2. /\ InsertAt(children[pn], at + 1, cn) \in Seq(NativeNodes)
        /\ Once(InsertAt(children[pn], at + 1, cn))
        /\ ToSet(InsertAt(children[pn], at + 1, cn)) = ToSet(children[pn]) \cup {cn}
    BY <1>1, <1>2, <1>3, <1>9, <2>1, InsertedAt
  <2>3. children'[pn] = InsertAt(children[pn], at + 1, cn)
    BY <1>1, <1>3, <1>4
  <2> QED BY <1>1, <1>3, <1>4, <2>2, <2>3
<1>11. ListsOnce(children')
  BY <1>10 DEF LayoutInv, ForestPart, ListsOnce, Once
<1>12. \A i \in Alive(T) : T[i].node = cn => i = ci
  BY <1>2, LiveSlot DEF LayoutInv, cn
<1>13. ListsAgree(U, children')
  <2> SUFFICES ASSUME NEW i \in Alive(T), NEW m \in NativeNodes
               PROVE  U[i].node \in ToSet(children'[m]) <=>
                        U[i].parent # NoToken /\ m = U[U[i].parent[1]].node
    BY <1>6 DEF ListsAgree
  <2>1. CASE i = ci
    <3>1. U[i].parent # NoToken /\ U[U[i].parent[1]].node = pn
      BY <1>1, <1>5, <1>6, <2>1, TokenFacts DEF pi, pn
    <3>2. cn \in ToSet(children'[m]) <=> m = pn
      BY <1>9, <1>10
    <3> QED BY <1>6, <2>1, <3>1, <3>2
  <2>2. CASE i # ci
    <3>1. U[i] = T[i] /\ T[i].node # cn /\ i \in NodeIndexes
      BY <1>5, <1>12, <2>2 DEF Alive
    <3>2. T[i].node \in ToSet(children'[m]) <=> T[i].node \in ToSet(children[m])
      BY <1>10, <3>1
    <3>3. T[i].node \in ToSet(children[m]) <=> T[i].parent # NoToken /\ m = T[T[i].parent[1]].node
      BY DEF LayoutInv, ForestPart, ListsAgree
    <3>4. T[i].parent # NoToken => U[T[i].parent[1]].node = T[T[i].parent[1]].node
      BY <1>6, ParentSlot DEF LayoutInv, ForestPart
    <3> QED BY <3>1, <3>2, <3>3, <3>4
  <2> QED BY <2>1, <2>2
<1>14. ListsLive(T, children')
  <2>1. T[ci].node = cn
    BY DEF cn
  <2> QED BY <1>2, <1>10, <2>1, ZenonT(60) DEF LayoutInv, ForestPart, ListsLive
<1>15. dirty' \subseteq NativeNodes /\ pn \in dirty' /\ DirtyAbove(T, dirty')
  BY <1>1, <1>3, MarkedDirty DEF LayoutInv
<1>16. DirtyAbove(U, dirty')
  <2> SUFFICES ASSUME NEW i \in Alive(T), U[i].parent # NoToken, U[i].node \in dirty'
               PROVE  U[U[i].parent[1]].node \in dirty'
    BY <1>6 DEF DirtyAbove
  <2>1. CASE i = ci
    BY <1>1, <1>5, <1>6, <1>15, <2>1 DEF pi, pn
  <2>2. CASE i # ci
    <3>1. U[i] = T[i] /\ i \in NodeIndexes
      BY <1>5, <2>2 DEF Alive
    <3>2. U[T[i].parent[1]].node = T[T[i].parent[1]].node
      BY <1>6, <3>1, ParentSlot DEF LayoutInv, ForestPart
    <3> QED BY <1>15, <3>1, <3>2 DEF DirtyAbove
  <2> QED BY <2>1, <2>2
<1>17. \A i \in Alive(T) : T[i].measureAttached => children'[T[i].node] = <<>>
  <2> SUFFICES ASSUME NEW i \in Alive(T), T[i].measureAttached PROVE children'[T[i].node] = <<>>
    OBVIOUS
  <2>1. i # pi
    BY <1>3
  <2>2. T[i].node # pn /\ T[i].node \in NativeNodes
    BY <1>1, <2>1, LiveSlot DEF LayoutInv, pn
  <2> QED BY <1>10, <2>2 DEF LayoutInv, ClaimPart, FlagsTrue
<1> HIDE DEF T, U
<1> QED
  BY <1>1, <1>2, <1>3, <1>7, <1>8, <1>10, <1>11, <1>13, <1>14, <1>15, <1>16, <1>17,
     RelinkStep DEF T, U

(* yoga_node_remove_child. *)
LEMMA RemoveStep ==
    ASSUME LayoutInv, NEW p \in nodes, NEW c \in nodes,
           yoga_node_remove_child(p, c), UNCHANGED ownerVars
    PROVE  LayoutInv'
<1> DEFINE pi == p.token[1]
           ci == c.token[1]
           pn == slots[pi].node
           cn == slots[ci].node
           T == slots
           U == slots'
<1>1. /\ p.token \in NodeTokens /\ pi \in Alive(T) /\ pn \in NativeNodes
      /\ Slot(p.token) = T[pi] /\ NativeOf(p.token) = pn
  BY ObjectSlot DEF yoga_node_remove_child
<1>2. /\ ci \in Alive(T) /\ ci \in NodeIndexes /\ cn \in NativeNodes
      /\ Slot(c.token) = T[ci] /\ NativeOf(c.token) = cn
  BY ObjectSlot DEF yoga_node_remove_child
<1>3. /\ T[ci].parent = p.token
      /\ children' = [children EXCEPT ![pn] = RemoveFirst(@, cn)]
      /\ U = WithParent(T, ci, NoToken)
      /\ dirty' = yogaNodeMarkDirty(pn)
      /\ UNCHANGED <<created, nodes, callbackVars>>
  BY <1>1, <1>2 DEF yoga_node_remove_child, yogaNodeRemoveChild, WithParent
<1> HIDE DEF pi, ci, pn, cn
<1>4. T \in [NodeIndexes -> SlotType] /\ children \in [NativeNodes -> Seq(NativeNodes)]
  BY DEF LayoutInv, TablePart, ForestPart
<1>5. \A i \in NodeIndexes \ {ci} : U[i] = T[i]
  BY <1>2, <1>3, <1>4 DEF WithParent
<1>6. /\ DOMAIN U = NodeIndexes /\ DOMAIN T = NodeIndexes /\ Alive(U) = Alive(T)
      /\ U[ci].parent = NoToken /\ U[ci].node = cn
      /\ \A i \in NodeIndexes : U[i].node = T[i].node /\ U[i].generation = T[i].generation
                               /\ U[i].alive = T[i].alive
  <2>1. /\ SameSlots(T, U) /\ U \in [NodeIndexes -> SlotType] /\ Alive(U) = Alive(T)
        /\ U[ci].parent = NoToken
    <3> DEFINE q == NoToken
    <3>1. q \in NodeTokens \cup {NoToken} /\ U = WithParent(T, ci, q)
      BY <1>3
    <3> HIDE DEF q
    <3>2. /\ SameSlots(T, U) /\ U \in [NodeIndexes -> SlotType] /\ Alive(U) = Alive(T)
          /\ U[ci].parent = q
      BY <1>2, <1>4, <3>1, Relinked
    <3> QED BY <3>2 DEF q
  <2>2. \A i \in NodeIndexes : U[i].node = T[i].node /\ U[i].generation = T[i].generation
                              /\ U[i].alive = T[i].alive
    BY <2>1, Zenon DEF SameSlots
  <2> QED BY <1>2, <1>4, <2>1, <2>2 DEF cn
<1>7. ParentsResolve(U)
  <2> SUFFICES ASSUME NEW i \in Alive(T), U[i].parent # NoToken PROVE Resolves(U, U[i].parent)
    BY <1>6 DEF ParentsResolve
  <2>1. Resolves(T, U[i].parent)
    BY <1>5, <1>6 DEF LayoutInv, ForestPart, ParentsResolve, Alive
  <2> QED BY <1>6, <2>1 DEF Resolves
<1>8. Grounded(U)
  <2> SUFFICES ASSUME NEW C \in SUBSET Alive(T), C # {},
                      \A i \in C : U[i].parent # NoToken /\ U[i].parent[1] \in C
               PROVE  FALSE
    BY <1>6 DEF Grounded
  <2>1. \A i \in C : T[i].parent # NoToken /\ T[i].parent[1] \in C
    BY <1>5, <1>6 DEF Alive
  <2> QED BY <2>1 DEF LayoutInv, ForestPart, Grounded
<1>9. \A m \in NativeNodes : cn \in ToSet(children[m]) <=> m = pn
  <2>1. p.token # NoToken
    BY <1>1, TokenFacts
  <2> QED BY <1>2, <1>3, <2>1 DEF LayoutInv, ForestPart, ListsAgree, cn, pn, pi
<1>10. /\ children' \in [NativeNodes -> Seq(NativeNodes)]
       /\ \A m \in NativeNodes \ {pn} : children'[m] = children[m]
       /\ Once(children'[pn]) /\ ToSet(children'[pn]) = ToSet(children[pn]) \ {cn}
  <2>1. children[pn] \in Seq(NativeNodes) /\ Once(children[pn])
    BY <1>1, <1>4 DEF LayoutInv, ForestPart, ListsOnce, Once
  <2>2. /\ RemoveFirst(children[pn], cn) \in Seq(NativeNodes)
        /\ Once(RemoveFirst(children[pn], cn))
        /\ ToSet(RemoveFirst(children[pn], cn)) = ToSet(children[pn]) \ {cn}
    BY <2>1, RemovedFirst
  <2>3. children'[pn] = RemoveFirst(children[pn], cn)
    BY <1>1, <1>3, <1>4
  <2> QED BY <1>1, <1>3, <1>4, <2>2, <2>3
<1>11. ListsOnce(children')
  BY <1>10 DEF LayoutInv, ForestPart, ListsOnce, Once
<1>12. \A i \in Alive(T) : T[i].node = cn => i = ci
  BY <1>2, LiveSlot DEF LayoutInv, cn
<1>13. ListsAgree(U, children')
  <2> SUFFICES ASSUME NEW i \in Alive(T), NEW m \in NativeNodes
               PROVE  U[i].node \in ToSet(children'[m]) <=>
                        U[i].parent # NoToken /\ m = U[U[i].parent[1]].node
    BY <1>6 DEF ListsAgree
  <2>1. CASE i = ci
    BY <1>6, <1>9, <1>10, <2>1
  <2>2. CASE i # ci
    <3>1. U[i] = T[i] /\ T[i].node # cn /\ i \in NodeIndexes
      BY <1>5, <1>12, <2>2 DEF Alive
    <3>2. T[i].node \in ToSet(children'[m]) <=> T[i].node \in ToSet(children[m])
      BY <1>10, <3>1
    <3>3. T[i].node \in ToSet(children[m]) <=> T[i].parent # NoToken /\ m = T[T[i].parent[1]].node
      BY DEF LayoutInv, ForestPart, ListsAgree
    <3>4. T[i].parent # NoToken => U[T[i].parent[1]].node = T[T[i].parent[1]].node
      BY <1>6, ParentSlot DEF LayoutInv, ForestPart
    <3> QED BY <3>1, <3>2, <3>3, <3>4
  <2> QED BY <2>1, <2>2
<1>14. ListsLive(T, children')
  BY <1>10 DEF LayoutInv, ForestPart, ListsLive
<1>15. dirty' \subseteq NativeNodes /\ DirtyAbove(T, dirty')
  BY <1>1, <1>3, MarkedDirty DEF LayoutInv
<1>16. DirtyAbove(U, dirty')
  <2> SUFFICES ASSUME NEW i \in Alive(T), U[i].parent # NoToken, U[i].node \in dirty'
               PROVE  U[U[i].parent[1]].node \in dirty'
    BY <1>6 DEF DirtyAbove
  <2>1. U[i] = T[i] /\ i \in NodeIndexes
    BY <1>5, <1>6 DEF Alive
  <2>2. U[T[i].parent[1]].node = T[T[i].parent[1]].node
    BY <1>6, <2>1, ParentSlot DEF LayoutInv, ForestPart
  <2> QED BY <1>15, <2>1, <2>2 DEF DirtyAbove
<1>17. \A i \in Alive(T) : T[i].measureAttached => children'[T[i].node] = <<>>
  <2> SUFFICES ASSUME NEW i \in Alive(T), T[i].measureAttached PROVE children'[T[i].node] = <<>>
    OBVIOUS
  <2>1. children[T[i].node] = <<>> /\ T[i].node \in NativeNodes
    BY LiveSlot DEF LayoutInv, ClaimPart, FlagsTrue
  <2>2. T[i].node # pn
    BY <1>1, <1>9, <2>1 DEF ToSet
  <2> QED BY <1>10, <2>1, <2>2
<1> HIDE DEF T, U
<1> QED
  BY <1>1, <1>2, <1>3, <1>7, <1>8, <1>10, <1>11, <1>13, <1>14, <1>15, <1>16, <1>17,
     RelinkStep DEF T, U

(* yoga_node_move_child. *)
LEMMA MoveStep ==
    ASSUME LayoutInv, NEW p \in nodes, NEW c \in nodes, NEW at \in Nat,
           yoga_node_move_child(p, c, at), UNCHANGED ownerVars
    PROVE  LayoutInv'
<1> DEFINE pi == p.token[1]
           ci == c.token[1]
           pn == slots[pi].node
           cn == slots[ci].node
           s == RemoveFirst(children[pn], cn)
<1>1. /\ p.token \in NodeTokens /\ pn \in NativeNodes /\ NativeOf(p.token) = pn
  BY ObjectSlot DEF yoga_node_move_child
<1>2. /\ ci \in Alive(slots) /\ ci \in NodeIndexes /\ cn \in NativeNodes
      /\ Slot(c.token) = slots[ci] /\ NativeOf(c.token) = cn
  BY ObjectSlot DEF yoga_node_move_child
<1>3. slots \in [NodeIndexes -> SlotType] /\ children \in [NativeNodes -> Seq(NativeNodes)]
  BY DEF LayoutInv, TablePart, ForestPart
<1>4. /\ slots[ci].parent = p.token /\ at < Len(children[pn])
      /\ children' = [[children EXCEPT ![pn] = RemoveFirst(@, cn)]
                        EXCEPT ![pn] = InsertAt(@, at + 1, cn)]
      /\ dirty' = yogaNodeMarkDirty(pn)
      /\ UNCHANGED <<slots, created, nodes, callbackVars>>
  BY <1>1, <1>2 DEF yoga_node_move_child, yogaNodeRemoveChild, yogaNodeInsertChild,
                    yogaNodeGetChildCount
<1>5. \A m \in NativeNodes : cn \in ToSet(children[m]) <=> m = pn
  <2>1. p.token # NoToken
    BY <1>1, TokenFacts
  <2> QED BY <1>2, <1>4, <2>1, SMTT(40) DEF LayoutInv, ForestPart, ListsAgree
<1> HIDE DEF pi, ci, pn, cn
<1>6. children[pn] \in Seq(NativeNodes) /\ Once(children[pn])
  BY <1>1, <1>3 DEF LayoutInv, ForestPart, ListsOnce, Once
<1>7. /\ s \in Seq(NativeNodes) /\ Once(s) /\ ToSet(s) = ToSet(children[pn]) \ {cn}
      /\ Len(s) = Len(children[pn]) - 1
  BY <1>1, <1>5, <1>6, RemovedFirst
<1>8. children'[pn] = InsertAt(s, at + 1, cn) /\ \A m \in NativeNodes \ {pn} : children'[m] = children[m]
  BY <1>1, <1>3, <1>4
<1> HIDE DEF s
<1>9. at \in 0 .. Len(s)
  BY <1>4, <1>6, <1>7
<1>10. /\ children'[pn] \in Seq(NativeNodes) /\ Once(children'[pn])
       /\ ToSet(children'[pn]) = ToSet(s) \cup {cn}
  BY <1>2, <1>7, <1>8, <1>9, InsertedAt
<1>11. children' \in [NativeNodes -> Seq(NativeNodes)]
  BY <1>1, <1>3, <1>4, <1>8, <1>10
<1>12. \A m \in NativeNodes : ToSet(children'[m]) = ToSet(children[m])
  BY <1>1, <1>5, <1>7, <1>8, <1>10
<1>13. ListsOnce(children')
  BY <1>8, <1>10 DEF LayoutInv, ForestPart, ListsOnce, Once
<1>14. ListsAgree(slots', children') /\ ListsLive(slots, children')
  BY <1>4, <1>12 DEF LayoutInv, ForestPart, ListsAgree, ListsLive
<1>15. dirty' \subseteq NativeNodes /\ DirtyAbove(slots', dirty')
  BY <1>1, <1>4, MarkedDirty DEF LayoutInv
<1>16. ParentsResolve(slots') /\ Grounded(slots')
  BY <1>4 DEF LayoutInv, ForestPart
<1>17. slots' = WithParent(slots, ci, p.token)
  <2>1. slots[ci] \in SlotType
    BY <1>2, <1>3
  <2>2. [slots[ci] EXCEPT !.parent = p.token] = slots[ci]
    BY <1>4, <2>1 DEF SlotType
  <2> QED BY <1>2, <1>3, <1>4, <2>2 DEF WithParent
<1>18. \A i \in Alive(slots) : slots[i].measureAttached => children'[slots[i].node] = <<>>
  <2> SUFFICES ASSUME NEW i \in Alive(slots), slots[i].measureAttached
               PROVE  children'[slots[i].node] = <<>>
    OBVIOUS
  <2>1. children[slots[i].node] = <<>> /\ slots[i].node \in NativeNodes
    BY LiveSlot DEF LayoutInv, ClaimPart, FlagsTrue
  <2>2. slots[i].node # pn
    BY <1>1, <1>5, <2>1 DEF ToSet
  <2> QED BY <1>8, <2>1, <2>2
<1> QED
  BY <1>1, <1>2, <1>4, <1>11, <1>13, <1>14, <1>15, <1>16, <1>17, <1>18, RelinkStep

-----------------------------------------------------------------------------
(* Styles, layout and callbacks. *)

(* Only the dirty nodes change. *)
LEMMA DirtyStep ==
    ASSUME LayoutInv, ForestPart(slots, children, dirty'),
           UNCHANGED <<slots, children, created, nodes, callbackVars, ownerVars>>
    PROVE  LayoutInv'
<1>1. /\ TablePart(slots', created', nodes') /\ ForestPart(slots', children', dirty')
      /\ ClaimPart(slots', children', renderables', native')
      /\ UserPart(renderables', views', buffers') /\ CallbackPart'
  BY DEF LayoutInv, ownerVars, callbackVars, CallbackPart
<1> QED BY <1>1, InvParts

(* The style setters and yoga_node_mark_dirty. *)
LEMMA MarkStep ==
    ASSUME LayoutInv, NEW x \in nodes, yoga_node_style_set(x) \/ yoga_node_mark_dirty(x),
           UNCHANGED ownerVars
    PROVE  LayoutInv'
<1>1. /\ yoga_node_from_handle(x.token) /\ dirty' = yogaNodeMarkDirty(NativeOf(x.token))
      /\ UNCHANGED <<slots, children, created, nodes, callbackVars>>
  BY DEF yoga_node_style_set, yoga_node_mark_dirty
<1>2. NativeOf(x.token) \in NativeNodes
  BY <1>1, ObjectSlot
<1>3. dirty' \subseteq NativeNodes /\ DirtyAbove(slots, dirty')
  BY <1>1, <1>2, MarkedDirty DEF LayoutInv
<1>4. ForestPart(slots, children, dirty')
  BY <1>3 DEF LayoutInv, ForestPart
<1> QED BY <1>1, <1>4, DirtyStep

(* yoga_node_calculate. *)
LEMMA CalculateStep ==
    ASSUME LayoutInv, NEW x \in nodes, yoga_node_calculate(x), UNCHANGED ownerVars
    PROVE  LayoutInv'
<1>1. /\ yoga_node_from_handle(x.token) /\ dirty' = yogaNodeCalculateLayout(NativeOf(x.token))
      /\ UNCHANGED <<slots, children, created, nodes, callbackVars>>
  BY DEF yoga_node_calculate
<1>2. NativeOf(x.token) \in NativeNodes
  BY <1>1, ObjectSlot
<1>3. ForestPart(slots, children, dirty')
  BY <1>1, <1>2, CalculatedClean DEF LayoutInv
<1> QED BY <1>1, <1>3, DirtyStep

(* Measure_callback.attach and detach. *)
LEMMA CallbackStep ==
    ASSUME LayoutInv, NEW x \in nodes, measure_attach(x) \/ measure_detach(x),
           UNCHANGED ownerVars
    PROVE  LayoutInv'
<1>1. yoga_node_from_handle(x.token) /\ UNCHANGED <<slots, children, created, dirty, nodes>>
  BY DEF measure_attach, measure_detach, nodeVars
<1>2. NativeOf(x.token) \in NativeNodes
  BY <1>1, ObjectSlot
<1>3. CallbackPart'
  <2>1. CASE measure_attach(x)
    BY <1>2, <2>1 DEF LayoutInv, CallbackPart, measure_attach, yoga_set_measure_callback
  <2>2. CASE measure_detach(x)
    BY <1>2, <2>2 DEF LayoutInv, CallbackPart, measure_detach, yoga_clear_measure_callback
  <2> QED BY <2>1, <2>2
<1>4. /\ TablePart(slots', created', nodes') /\ ForestPart(slots', children', dirty')
      /\ ClaimPart(slots', children', renderables', native')
      /\ UserPart(renderables', views', buffers')
  BY <1>1 DEF LayoutInv, ownerVars
<1> QED BY <1>3, <1>4, InvParts

-----------------------------------------------------------------------------
(* The flags of native renderables. *)

SameShape(T, U) ==
    \A i \in NodeIndexes :
        /\ U[i].generation = T[i].generation /\ U[i].alive = T[i].alive
        /\ U[i].node = T[i].node /\ U[i].parent = T[i].parent

WithFlags(T, i, a, b) ==
    [T EXCEPT ![i] = [@ EXCEPT !.renderableAttached = a, !.measureAttached = b]]

(* A slot whose flags change. *)
LEMMA Flagged ==
    ASSUME NEW T \in [NodeIndexes -> SlotType], NEW i \in NodeIndexes,
           NEW a \in BOOLEAN, NEW b \in BOOLEAN, NEW U, U = WithFlags(T, i, a, b)
    PROVE  /\ U \in [NodeIndexes -> SlotType] /\ SameShape(T, U)
           /\ \A j \in NodeIndexes \ {i} : U[j] = T[j]
           /\ U[i].renderableAttached = a /\ U[i].measureAttached = b
<1> DEFINE u == [T[i] EXCEPT !.renderableAttached = a, !.measureAttached = b]
<1>1. T[i] \in SlotType
  OBVIOUS
<1>2. /\ u \in SlotType /\ u.renderableAttached = a /\ u.measureAttached = b
      /\ u.generation = T[i].generation /\ u.alive = T[i].alive
      /\ u.node = T[i].node /\ u.parent = T[i].parent
  BY <1>1 DEF SlotType
<1>3. U[i] = u /\ \A j \in NodeIndexes \ {i} : U[j] = T[j]
  BY DEF WithFlags
<1>4. U \in [NodeIndexes -> SlotType]
  BY <1>2 DEF WithFlags
<1> HIDE DEF u
<1>5. SameShape(T, U)
  BY <1>2, <1>3 DEF SameShape
<1> QED BY <1>2, <1>3, <1>4, <1>5

RenderableType == [state : {"none", "open", "closed"}, node : NodeTokens \cup {NoToken},
                   target : Views \cup {NoOne}]
NativeType == [node : 0 .. MaxNodes, target : Views \cup {NoOne}]

(* One renderable r changes, with its native renderable and the flags of the *)
(* node it has or had.                                                       *)
LEMMA ClaimChange ==
    ASSUME NEW T, NEW c, NEW N, TablePart(T, c, N), NEW K, NEW R, NEW M, ClaimPart(T, K, R, M),
           NEW U \in [NodeIndexes -> SlotType], SameShape(T, U), NEW r \in Renderables,
           NEW Q \in [Renderables -> RenderableType], \A q \in Renderables \ {r} : Q[q] = R[q],
           NEW O \in [Renderables -> NativeType], \A q \in Renderables \ {r} : O[q] = M[q],
           O[r].target = Q[r].target,
           Q[r].state # "open" => Q[r].node = NoToken /\ Q[r].target = NoOne,
           Q[r].node = NoToken => O[r].node = NoNode,
           Q[r].node # NoToken => /\ Resolves(T, Q[r].node)
                                  /\ U[Q[r].node[1]].renderableAttached
                                  /\ O[r].node = T[Q[r].node[1]].node
                                  /\ \A q \in Renderables \ {r} : R[q].node # Q[r].node,
           \A q \in Renderables \ {r} :
              R[q].node # NoToken => U[R[q].node[1]].renderableAttached,
           \A i \in Alive(T) : U[i].measureAttached <=>
              IF TokenAt(T, i) = Q[r].node THEN Q[r].target # NoOne
              ELSE TokenAt(T, i) # R[r].node /\ T[i].measureAttached,
           \A i \in Alive(T) : U[i].measureAttached => K[T[i].node] = <<>>
    PROVE  ClaimPart(U, K, Q, O)
<1>1. T \in [NodeIndexes -> SlotType] /\ DOMAIN U = NodeIndexes /\ DOMAIN T = NodeIndexes
  BY DEF TablePart
<1>2. /\ Alive(U) = Alive(T) /\ \A i \in Alive(T) : TokenAt(U, i) = TokenAt(T, i)
      /\ \A i \in Alive(T) : i \in NodeIndexes /\ U[i].node = T[i].node
  BY DEF Alive, TokenAt, SameShape
<1>3. \A t : Resolves(T, t) => t[1] \in NodeIndexes /\ Resolves(U, t) /\ U[t[1]].node = T[t[1]].node
  BY <1>1 DEF Resolves, SameShape
<1>4. ClaimsTyped(Q, O)
  BY DEF ClaimsTyped, RenderableType, NativeType
<1>5. ClaimsHold(U, Q, O)
  <2> SUFFICES ASSUME NEW q \in Renderables
               PROVE  /\ O[q].target = Q[q].target
                      /\ Q[q].state # "open" => Q[q].node = NoToken /\ Q[q].target = NoOne
                      /\ Q[q].node = NoToken => O[q].node = NoNode
                      /\ Q[q].node # NoToken => /\ Resolves(U, Q[q].node)
                                                /\ U[Q[q].node[1]].renderableAttached
                                                /\ O[q].node = U[Q[q].node[1]].node
    BY DEF ClaimsHold
  <2>1. CASE q = r
    BY <1>3, <2>1
  <2>2. CASE q # r
    BY <1>3, <2>2 DEF ClaimPart, ClaimsHold
  <2> QED BY <2>1, <2>2
<1>6. ClaimsOnce(Q)
  <2>1. \A p, q \in Renderables : R[p].node = R[q].node /\ R[p].node # NoToken => p = q
    BY DEF ClaimPart, ClaimsOnce
  <2>2. ASSUME NEW p \in Renderables, NEW q \in Renderables, Q[p].node = Q[q].node,
               Q[p].node # NoToken, p # q
        PROVE  FALSE
    <3>1. CASE p = r
      BY <2>2, <3>1
    <3>2. CASE q = r
      BY <2>2, <3>2
    <3>3. CASE p # r /\ q # r
      BY <2>1, <2>2, <3>3
    <3> QED BY <3>1, <3>2, <3>3
  <2> QED BY <2>2 DEF ClaimsOnce
<1>7. FlagsTrue(U, K, Q)
  <2> SUFFICES ASSUME NEW i \in Alive(T)
               PROVE  U[i].measureAttached <=>
                        \E q \in Renderables : Q[q].node = TokenAt(T, i) /\ Q[q].target # NoOne
    BY <1>2 DEF FlagsTrue
  <2>1. T[i].measureAttached <=>
            \E q \in Renderables : R[q].node = TokenAt(T, i) /\ R[q].target # NoOne
    BY DEF ClaimPart, FlagsTrue
  <2>2. TokenAt(T, i) # NoToken
    BY LiveSlot
  <2>3. CASE TokenAt(T, i) = Q[r].node
    BY <2>2, <2>3
  <2>4. CASE TokenAt(T, i) # Q[r].node /\ TokenAt(T, i) = R[r].node
    BY <2>2, <2>4 DEF ClaimPart, ClaimsOnce
  <2>5. CASE TokenAt(T, i) # Q[r].node /\ TokenAt(T, i) # R[r].node
    BY <2>1, <2>5
  <2> QED BY <2>3, <2>4, <2>5
<1> QED BY <1>4, <1>5, <1>6, <1>7 DEF ClaimPart

(* What the operations of native_renderable.ml have in common. *)
LEMMA OwnerStep ==
    ASSUME LayoutInv, UNCHANGED <<children, created, dirty, nodes, callbackVars>>,
           slots' \in [NodeIndexes -> SlotType], SameShape(slots, slots'),
           ClaimPart(slots', children, renderables', native'),
           UserPart(renderables', views', buffers')
    PROVE  LayoutInv'
<1>1. \A i \in NodeIndexes :
         /\ slots'[i].generation = slots[i].generation /\ slots'[i].alive = slots[i].alive
         /\ slots'[i].node = slots[i].node /\ slots'[i].parent = slots[i].parent
  BY DEF SameShape
<1>2. TablePart(slots', created', nodes')
  <2>1. nodes' \in SUBSET nodes
    OBVIOUS
  <2>2. TablePart(slots', created, nodes')
    BY <1>1, <2>1, TableKept DEF LayoutInv
  <2> QED BY <2>2
<1>3. ForestPart(slots', children, dirty)
  BY <1>1, ForestSame DEF LayoutInv
<1>4. ForestPart(slots', children', dirty') /\ ClaimPart(slots', children', renderables', native')
  BY <1>3
<1>5. CallbackPart'
  BY DEF LayoutInv, CallbackPart, callbackVars
<1> QED BY <1>2, <1>4, <1>5, InvParts

-----------------------------------------------------------------------------
(* The counts of views and buffers. *)

(* The users of a view when the target of one renderable changes. *)
UsersMove(R, Q, r, v) ==
    /\ Cardinality(UsersOf(R, v)) \in Nat /\ Cardinality(UsersOf(Q, v)) \in Nat
    /\ (Q[r].target = v <=> R[r].target = v) => UsersOf(Q, v) = UsersOf(R, v)
    /\ Q[r].target = v /\ R[r].target # v =>
          Cardinality(UsersOf(Q, v)) = Cardinality(UsersOf(R, v)) + 1
    /\ Q[r].target # v /\ R[r].target = v =>
          Cardinality(UsersOf(R, v)) = Cardinality(UsersOf(Q, v)) + 1
    /\ UsersOf(Q, v) \subseteq UsersOf(R, v) \cup {r}
    /\ r \in UsersOf(Q, v) <=> Q[r].target = v

LEMMA UsersChange ==
    ASSUME NEW R, NEW Q, NEW r \in Renderables, \A q \in Renderables \ {r} : Q[q] = R[q],
           NEW v
    PROVE  UsersMove(R, Q, r, v)
<1>1. IsFiniteSet(UsersOf(R, v)) /\ IsFiniteSet(UsersOf(Q, v))
  <2>1. UsersOf(R, v) \subseteq Renderables /\ UsersOf(Q, v) \subseteq Renderables
    BY DEF UsersOf
  <2> QED BY <2>1, OwnerConstants, FS_Subset
<1>2. Cardinality(UsersOf(R, v)) \in Nat /\ Cardinality(UsersOf(Q, v)) \in Nat
  BY <1>1, FS_CardinalityType
<1>3. UsersOf(Q, v) \ {r} = UsersOf(R, v) \ {r}
  BY DEF UsersOf
<1>4. r \in UsersOf(Q, v) <=> Q[r].target = v
  BY DEF UsersOf
<1>5. r \in UsersOf(R, v) <=> R[r].target = v
  BY DEF UsersOf
<1>6. ASSUME Q[r].target = v, R[r].target # v
      PROVE  Cardinality(UsersOf(Q, v)) = Cardinality(UsersOf(R, v)) + 1
  <2>1. UsersOf(Q, v) = UsersOf(R, v) \cup {r} /\ r \notin UsersOf(R, v)
    BY <1>3, <1>4, <1>5, <1>6
  <2> QED BY <1>1, <2>1, FS_AddElement
<1>7. ASSUME Q[r].target # v, R[r].target = v
      PROVE  Cardinality(UsersOf(R, v)) = Cardinality(UsersOf(Q, v)) + 1
  <2>1. UsersOf(R, v) = UsersOf(Q, v) \cup {r} /\ r \notin UsersOf(Q, v)
    BY <1>3, <1>4, <1>5, <1>7
  <2> QED BY <1>1, <2>1, FS_AddElement
<1>8. (Q[r].target = v <=> R[r].target = v) => UsersOf(Q, v) = UsersOf(R, v)
  BY <1>3, <1>4, <1>5
<1> QED BY <1>2, <1>3, <1>4, <1>6, <1>7, <1>8 DEF UsersMove

(* A view with the count 0 has no user. *)
LEMMA NoUsers ==
    ASSUME NEW R, NEW v, Cardinality(UsersOf(R, v)) = 0
    PROVE  UsersOf(R, v) = {}
<1>1. IsFiniteSet(UsersOf(R, v))
  <2>1. UsersOf(R, v) \subseteq Renderables
    BY DEF UsersOf
  <2> QED BY <2>1, OwnerConstants, FS_Subset
<1> QED BY <1>1, FS_EmptySet

(* The target of r changes and the count of every view follows. *)
LEMMA TargetChange ==
    ASSUME NEW R, NEW V, NEW B, UserPart(R, V, B), NEW Q, NEW r \in Renderables,
           \A q \in Renderables \ {r} : Q[q] = R[q],
           NEW W \in [Views -> [state : {"none", "open", "closed"}, buffer : Buffers \cup {NoOne},
                                measureUsers : Nat]],
           \A v \in Views :
              /\ W[v].state = V[v].state /\ W[v].buffer = V[v].buffer
              /\ Q[r].target = v => V[v].state = "open"
              /\ (Q[r].target = v <=> R[r].target = v) => W[v].measureUsers = V[v].measureUsers
              /\ Q[r].target = v /\ R[r].target # v => W[v].measureUsers = V[v].measureUsers + 1
              /\ Q[r].target # v /\ R[r].target = v /\ V[v].measureUsers > 0 =>
                    W[v].measureUsers = V[v].measureUsers - 1
    PROVE  UserPart(Q, W, B)
<1>1. ASSUME NEW v \in Views
      PROVE  /\ W[v].measureUsers = Cardinality(UsersOf(Q, v))
             /\ UsersOf(Q, v) # {} => W[v].state = "open"
  <2>1. V[v].measureUsers = Cardinality(UsersOf(R, v)) /\ (UsersOf(R, v) # {} => V[v].state = "open")
    BY DEF UserPart
  <2>2. UsersMove(R, Q, r, v)
    BY UsersChange
  <2>3. UsersOf(Q, v) # {} => W[v].state = "open"
    BY <2>1, <2>2 DEF UsersMove
  <2>4. CASE Q[r].target = v /\ R[r].target = v
    BY <2>1, <2>3, <2>4, <2>2 DEF UsersMove
  <2>5. CASE Q[r].target # v /\ R[r].target # v
    BY <2>1, <2>3, <2>5, <2>2 DEF UsersMove
  <2>6. CASE Q[r].target = v /\ R[r].target # v
    BY <2>1, <2>3, <2>6, <2>2 DEF UsersMove
  <2>7. CASE Q[r].target # v /\ R[r].target = v
    <3>1. Cardinality(UsersOf(R, v)) = Cardinality(UsersOf(Q, v)) + 1
          /\ Cardinality(UsersOf(Q, v)) \in Nat
      BY <2>7, <2>2 DEF UsersMove
    <3>2. V[v].measureUsers > 0
      BY <2>1, <3>1
    <3>3. W[v].measureUsers = V[v].measureUsers - 1
      BY <2>7, <3>2
    <3> QED BY <2>1, <2>3, <3>1, <3>3
  <2> QED BY <2>4, <2>5, <2>6, <2>7
<1>2. \A b : ViewsOf(W, b) = ViewsOf(V, b)
  BY DEF ViewsOf
<1> QED BY <1>1, <1>2 DEF UserPart

(* Text_buffer.create and close: a buffer closes under no open view. *)
LEMMA BufferStep ==
    ASSUME UserPart(renderables, views, buffers), NEW b \in Buffers,
           text_buffer_create(b) \/ text_buffer_close(b)
    PROVE  UserPart(renderables, views, buffers')
<1>1. buffers \in [Buffers -> [state : {"none", "open", "closed"}, openViews : Nat]]
  BY DEF UserPart
<1>2. /\ buffers' \in [Buffers -> [state : {"none", "open", "closed"}, openViews : Nat]]
      /\ \A d \in Buffers : buffers'[d].openViews = buffers[d].openViews
      /\ \A d \in Buffers \ {b} : buffers'[d] = buffers[d]
  BY <1>1 DEF text_buffer_create, text_buffer_close
<1>3. ASSUME NEW v \in Views, views[v].state = "open"
      PROVE  buffers'[views[v].buffer].state = "open"
  <2>1. views[v].buffer \in Buffers /\ buffers[views[v].buffer].state = "open"
    BY <1>3 DEF UserPart
  <2>2. CASE text_buffer_create(b)
    BY <1>1, <1>2, <2>1, <2>2 DEF text_buffer_create
  <2>3. CASE text_buffer_close(b)
    <3>1. Cardinality(ViewsOf(views, b)) = 0
      BY <2>3 DEF UserPart, text_buffer_close
    <3>2. IsFiniteSet(ViewsOf(views, b))
      <4>1. ViewsOf(views, b) \subseteq Views
        BY DEF ViewsOf
      <4> QED BY <4>1, OwnerConstants, FS_Subset
    <3>3. ViewsOf(views, b) = {}
      BY <3>1, <3>2, FS_EmptySet
    <3>4. views[v].buffer # b
      BY <1>3, <3>3 DEF ViewsOf
    <3> QED BY <1>2, <2>1, <3>4
  <2> QED BY <2>2, <2>3
<1> QED BY <1>2, <1>3 DEF UserPart

(* The open views of a buffer when one view opens or closes. *)
ViewsMove(V, W, v, b) ==
    /\ Cardinality(ViewsOf(V, b)) \in Nat /\ Cardinality(ViewsOf(W, b)) \in Nat
    /\ (v \in ViewsOf(V, b) <=> v \in ViewsOf(W, b)) => ViewsOf(W, b) = ViewsOf(V, b)
    /\ v \in ViewsOf(W, b) /\ v \notin ViewsOf(V, b) =>
          Cardinality(ViewsOf(W, b)) = Cardinality(ViewsOf(V, b)) + 1
    /\ v \notin ViewsOf(W, b) /\ v \in ViewsOf(V, b) =>
          Cardinality(ViewsOf(V, b)) = Cardinality(ViewsOf(W, b)) + 1

LEMMA ViewsChange ==
    ASSUME NEW V, NEW W, NEW v \in Views, \A w \in Views \ {v} : W[w] = V[w], NEW b
    PROVE  ViewsMove(V, W, v, b)
<1>1. IsFiniteSet(ViewsOf(V, b)) /\ IsFiniteSet(ViewsOf(W, b))
  <2>1. ViewsOf(V, b) \subseteq Views /\ ViewsOf(W, b) \subseteq Views
    BY DEF ViewsOf
  <2> QED BY <2>1, OwnerConstants, FS_Subset
<1>2. ViewsOf(V, b) \ {v} = ViewsOf(W, b) \ {v}
  BY DEF ViewsOf
<1>3. ASSUME v \in ViewsOf(W, b), v \notin ViewsOf(V, b)
      PROVE  Cardinality(ViewsOf(W, b)) = Cardinality(ViewsOf(V, b)) + 1
  <2>1. ViewsOf(W, b) = ViewsOf(V, b) \cup {v}
    BY <1>2, <1>3
  <2> QED BY <1>1, <1>3, <2>1, FS_AddElement
<1>4. ASSUME v \notin ViewsOf(W, b), v \in ViewsOf(V, b)
      PROVE  Cardinality(ViewsOf(V, b)) = Cardinality(ViewsOf(W, b)) + 1
  <2>1. ViewsOf(V, b) = ViewsOf(W, b) \cup {v}
    BY <1>2, <1>4
  <2> QED BY <1>1, <1>4, <2>1, FS_AddElement
<1>5. Cardinality(ViewsOf(V, b)) \in Nat /\ Cardinality(ViewsOf(W, b)) \in Nat
  BY <1>1, FS_CardinalityType
<1>6. (v \in ViewsOf(V, b) <=> v \in ViewsOf(W, b)) => ViewsOf(W, b) = ViewsOf(V, b)
  BY <1>2
<1> QED BY <1>3, <1>4, <1>5, <1>6 DEF ViewsMove

(* Text_buffer_view.create. *)
LEMMA ViewCreateStep ==
    ASSUME UserPart(renderables, views, buffers), NEW v \in Views, NEW b \in Buffers,
           text_buffer_view_create(v, b)
    PROVE  UserPart(renderables, views', buffers')
<1>1. /\ views \in [Views -> [state : {"none", "open", "closed"}, buffer : Buffers \cup {NoOne},
                               measureUsers : Nat]]
      /\ buffers \in [Buffers -> [state : {"none", "open", "closed"}, openViews : Nat]]
  BY DEF UserPart
<1>2. /\ views[v].state = "none" /\ buffers[b].state = "open"
      /\ views' = [views EXCEPT ![v] = [state |-> "open", buffer |-> b, measureUsers |-> 0]]
      /\ buffers' = [buffers EXCEPT ![b].openViews = @ + 1]
  BY DEF text_buffer_view_create, OpenBuffer
<1>3. /\ views' \in [Views -> [state : {"none", "open", "closed"}, buffer : Buffers \cup {NoOne},
                                measureUsers : Nat]]
      /\ \A w \in Views \ {v} : views'[w] = views[w]
      /\ views'[v].state = "open" /\ views'[v].buffer = b /\ views'[v].measureUsers = 0
  BY <1>1, <1>2
<1>4. /\ buffers' \in [Buffers -> [state : {"none", "open", "closed"}, openViews : Nat]]
      /\ \A d \in Buffers : buffers'[d].state = buffers[d].state
      /\ \A d \in Buffers \ {b} : buffers'[d].openViews = buffers[d].openViews
      /\ buffers'[b].openViews = buffers[b].openViews + 1
  BY <1>1, <1>2
<1>5. UsersOf(renderables, v) = {}
  BY <1>2 DEF UserPart
<1>6. Cardinality(UsersOf(renderables, v)) = 0
  BY <1>5, FS_EmptySet
<1>7. ASSUME NEW w \in Views
      PROVE  /\ views'[w].measureUsers = Cardinality(UsersOf(renderables, w))
             /\ UsersOf(renderables, w) # {} => views'[w].state = "open"
             /\ views'[w].state = "open" =>
                   views'[w].buffer \in Buffers /\ buffers'[views'[w].buffer].state = "open"
  <2>1. CASE w = v
    BY <1>2, <1>3, <1>4, <1>5, <1>6, <2>1
  <2>2. CASE w # v
    BY <1>3, <1>4, <2>2 DEF UserPart
  <2> QED BY <2>1, <2>2
<1>8. ASSUME NEW d \in Buffers PROVE buffers'[d].openViews = Cardinality(ViewsOf(views', d))
  <2>1. buffers[d].openViews = Cardinality(ViewsOf(views, d))
    BY DEF UserPart
  <2>2. v \notin ViewsOf(views, d) /\ (v \in ViewsOf(views', d) <=> d = b)
    BY <1>2, <1>3 DEF ViewsOf
  <2>3. ViewsMove(views, views', v, d)
    BY <1>3, ViewsChange
  <2>4. CASE d = b
    BY <1>4, <2>1, <2>2, <2>3, <2>4 DEF ViewsMove
  <2>5. CASE d # b
    BY <1>4, <2>1, <2>2, <2>3, <2>5 DEF ViewsMove
  <2> QED BY <2>4, <2>5
<1> QED BY <1>3, <1>4, <1>7, <1>8 DEF UserPart

(* Text_buffer_view.close: a view closes under no renderable. *)
LEMMA ViewCloseStep ==
    ASSUME UserPart(renderables, views, buffers), NEW v \in Views, text_buffer_view_close(v)
    PROVE  UserPart(renderables, views', buffers')
<1> DEFINE b == views[v].buffer
<1>1. /\ views \in [Views -> [state : {"none", "open", "closed"}, buffer : Buffers \cup {NoOne},
                               measureUsers : Nat]]
      /\ buffers \in [Buffers -> [state : {"none", "open", "closed"}, openViews : Nat]]
  BY DEF UserPart
<1>2. /\ views[v].state = "open" /\ views[v].measureUsers = 0
      /\ views' = [views EXCEPT ![v].state = "closed"]
      /\ buffers' = [buffers EXCEPT ![b].openViews = IF @ > 0 THEN @ - 1 ELSE 0]
  BY DEF text_buffer_view_close
<1>3. /\ views' \in [Views -> [state : {"none", "open", "closed"}, buffer : Buffers \cup {NoOne},
                                measureUsers : Nat]]
      /\ \A w \in Views \ {v} : views'[w] = views[w]
      /\ views'[v].state = "closed" /\ views'[v].measureUsers = 0
  BY <1>1, <1>2
<1>4. b \in Buffers
  BY <1>2 DEF UserPart
<1>5. /\ buffers' \in [Buffers -> [state : {"none", "open", "closed"}, openViews : Nat]]
      /\ \A d \in Buffers : buffers'[d].state = buffers[d].state
      /\ \A d \in Buffers \ {b} : buffers'[d].openViews = buffers[d].openViews
      /\ buffers[b].openViews > 0 => buffers'[b].openViews = buffers[b].openViews - 1
  BY <1>1, <1>2, <1>4
<1> HIDE DEF b
<1>6. Cardinality(UsersOf(renderables, v)) = 0
  BY <1>2 DEF UserPart
<1>7. UsersOf(renderables, v) = {}
  BY <1>6, NoUsers
<1>8. ASSUME NEW w \in Views
      PROVE  /\ views'[w].measureUsers = Cardinality(UsersOf(renderables, w))
             /\ UsersOf(renderables, w) # {} => views'[w].state = "open"
             /\ views'[w].state = "open" =>
                   views'[w].buffer \in Buffers /\ buffers'[views'[w].buffer].state = "open"
  <2>1. CASE w = v
    BY <1>3, <1>6, <1>7, <2>1
  <2>2. CASE w # v
    BY <1>3, <1>5, <2>2 DEF UserPart
  <2> QED BY <2>1, <2>2
<1>9. ASSUME NEW d \in Buffers PROVE buffers'[d].openViews = Cardinality(ViewsOf(views', d))
  <2>1. buffers[d].openViews = Cardinality(ViewsOf(views, d))
    BY DEF UserPart
  <2>2. v \notin ViewsOf(views', d) /\ (v \in ViewsOf(views, d) <=> d = b)
    BY <1>2, <1>3 DEF ViewsOf, b
  <2>3. ViewsMove(views, views', v, d)
    BY <1>3, ViewsChange
  <2>4. CASE d = b
    <3>1. /\ Cardinality(ViewsOf(views, d)) = Cardinality(ViewsOf(views', d)) + 1
          /\ Cardinality(ViewsOf(views', d)) \in Nat
      BY <2>2, <2>3, <2>4 DEF ViewsMove
    <3> QED BY <1>5, <2>1, <2>4, <3>1
  <2>5. CASE d # b
    BY <1>5, <2>1, <2>2, <2>3, <2>5 DEF ViewsMove
  <2> QED BY <2>4, <2>5
<1> QED BY <1>3, <1>5, <1>8, <1>9 DEF UserPart

-----------------------------------------------------------------------------
(* Native renderables. *)

(* The operations of yoga_stubs.c on the two flags. *)
LEMMA FlagForms ==
    ASSUME NEW T \in [NodeIndexes -> SlotType], NEW t \in NodeTokens, NEW b \in BOOLEAN
    PROVE  /\ yoga_node_set_native_measure_attached(yoga_node_claim_native_renderable(T, t), t, b)
                = WithFlags(T, t[1], TRUE, b)
           /\ T[t[1]].renderableAttached =>
                yoga_node_set_native_measure_attached(T, t, b) = WithFlags(T, t[1], TRUE, b)
           /\ yoga_node_release_native_renderable(T, t) = WithFlags(T, t[1], FALSE, FALSE)
<1> DEFINE i == t[1]
<1>1. i \in NodeIndexes
  BY TokenFacts
<1> HIDE DEF i
<1>2. T[i] \in SlotType
  BY <1>1
<1>3. [[T EXCEPT ![i].renderableAttached = TRUE] EXCEPT ![i].measureAttached = b]
        = WithFlags(T, i, TRUE, b)
  BY <1>1, <1>2 DEF WithFlags, SlotType
<1>4. T[i].renderableAttached =>
        [T EXCEPT ![i].measureAttached = b] = WithFlags(T, i, TRUE, b)
  <2> SUFFICES ASSUME T[i].renderableAttached
               PROVE  [T EXCEPT ![i].measureAttached = b] = WithFlags(T, i, TRUE, b)
    OBVIOUS
  <2>1. T[i].renderableAttached = TRUE
    BY <1>1, SlotFields
  <2>2. [T[i] EXCEPT !.measureAttached = b]
          = [T[i] EXCEPT !.renderableAttached = TRUE, !.measureAttached = b]
    BY <1>2, <2>1 DEF SlotType
  <2> QED BY <1>1, <2>2 DEF WithFlags
<1>5. [T EXCEPT ![i].renderableAttached = FALSE, ![i].measureAttached = FALSE]
        = WithFlags(T, i, FALSE, FALSE)
  BY <1>1, <1>2 DEF WithFlags, SlotType
<1> QED
  BY <1>3, <1>4, <1>5 DEF yoga_node_set_native_measure_attached,
     yoga_node_claim_native_renderable, yoga_node_release_native_renderable, i

(* A renderable, its node when it has one, and what nobody else's node is. *)
LEMMA ClaimFacts ==
    ASSUME LayoutInv, NEW r \in Renderables
    PROVE  /\ slots \in [NodeIndexes -> SlotType]
           /\ renderables \in [Renderables -> RenderableType]
           /\ native \in [Renderables -> NativeType]
           /\ renderables[r] \in RenderableType /\ native[r] \in NativeType
           /\ native[r].target = renderables[r].target
           /\ renderables[r].state # "open" =>
                 renderables[r].node = NoToken /\ renderables[r].target = NoOne
           /\ renderables[r].node = NoToken => native[r].node = NoNode
           /\ renderables[r].node # NoToken =>
                 /\ renderables[r].node \in NodeTokens
                 /\ renderables[r].node[1] \in Alive(slots)
                 /\ renderables[r].node[1] \in NodeIndexes
                 /\ renderables[r].node = TokenAt(slots, renderables[r].node[1])
                 /\ Resolves(slots, renderables[r].node)
                 /\ slots[renderables[r].node[1]].renderableAttached
                 /\ native[r].node = slots[renderables[r].node[1]].node
                 /\ \A q \in Renderables \ {r} : renderables[q].node # renderables[r].node
<1>1. /\ renderables \in [Renderables -> RenderableType]
      /\ native \in [Renderables -> NativeType]
  BY DEF LayoutInv, ClaimPart, ClaimsTyped, RenderableType, NativeType
<1>2. slots \in [NodeIndexes -> SlotType]
  BY DEF LayoutInv, TablePart
<1>3. renderables[r].node \in NodeTokens \cup {NoToken}
  BY <1>1 DEF RenderableType
<1>4. /\ native[r].target = renderables[r].target
      /\ renderables[r].state # "open" =>
            renderables[r].node = NoToken /\ renderables[r].target = NoOne
      /\ renderables[r].node = NoToken => native[r].node = NoNode
      /\ renderables[r].node # NoToken =>
            /\ Resolves(slots, renderables[r].node)
            /\ slots[renderables[r].node[1]].renderableAttached
            /\ native[r].node = slots[renderables[r].node[1]].node
  BY DEF LayoutInv, ClaimPart, ClaimsHold
<1>5. renderables[r].node # NoToken =>
         /\ renderables[r].node \in NodeTokens
         /\ renderables[r].node[1] \in Alive(slots) /\ renderables[r].node[1] \in NodeIndexes
         /\ renderables[r].node = TokenAt(slots, renderables[r].node[1])
  BY <1>3, <1>4, LiveToken, LiveSlot DEF LayoutInv
<1>6. renderables[r].node # NoToken =>
         \A q \in Renderables \ {r} : renderables[q].node # renderables[r].node
  BY DEF LayoutInv, ClaimPart, ClaimsOnce
<1> QED BY <1>1, <1>2, <1>4, <1>5, <1>6

(* A table that does not change. *)
LEMMA SameTable ==
    ASSUME LayoutInv
    PROVE  /\ slots \in [NodeIndexes -> SlotType] /\ SameShape(slots, slots)
           /\ \A i \in Alive(slots) : TokenAt(slots, i) # NoToken
           /\ \A i \in Alive(slots) : slots[i].measureAttached => children[slots[i].node] = <<>>
           /\ \A q \in Renderables : renderables[q].node # NoToken =>
                 slots[renderables[q].node[1]].renderableAttached
  BY LiveSlot DEF LayoutInv, TablePart, SameShape, ClaimPart, FlagsTrue, ClaimsHold

(* Native_renderable.create. *)
LEMMA RenderableCreateStep ==
    ASSUME LayoutInv, NEW r \in Renderables, native_renderable_create(r)
    PROVE  LayoutInv'
<1>1. /\ renderables[r].state = "none" /\ renderables' = [renderables EXCEPT ![r].state = "open"]
      /\ UNCHANGED <<yogaVars, native, views, buffers>>
  BY DEF native_renderable_create
<1>2. /\ renderables \in [Renderables -> RenderableType] /\ renderables[r] \in RenderableType
      /\ renderables[r].node = NoToken /\ renderables[r].target = NoOne
      /\ native \in [Renderables -> NativeType] /\ native[r].target = NoOne
      /\ native[r].node = NoNode
  BY <1>1, ClaimFacts
<1>3. renderables'[r].node = NoToken /\ renderables'[r].target = NoOne
      /\ renderables'[r].state = "open"
  BY <1>1, <1>2 DEF RenderableType
<1>4. \A q \in Renderables \ {r} : renderables'[q] = renderables[q]
  BY <1>1, <1>2
<1>5. renderables' \in [Renderables -> RenderableType]
  BY <1>1, <1>2 DEF RenderableType
<1>6. ClaimPart(slots, children, renderables', native)
  BY <1>2, <1>3, <1>4, <1>5, SameTable, ClaimChange DEF LayoutInv
<1>7. UserPart(renderables', views, buffers)
  <2>1. \A v : UsersOf(renderables', v) = UsersOf(renderables, v)
    BY <1>2, <1>3, <1>4 DEF UsersOf
  <2> QED BY <2>1 DEF LayoutInv, UserPart
<1>8. slots' \in [NodeIndexes -> SlotType] /\ SameShape(slots, slots')
  BY <1>1, SameTable DEF yogaVars, nodeVars
<1> QED BY <1>1, <1>6, <1>7, <1>8, OwnerStep DEF yogaVars, nodeVars, callbackVars

(* Native_renderable.attach_yoga_node. *)
LEMMA AttachStep ==
    ASSUME LayoutInv, NEW r \in Renderables, NEW x \in nodes, attach_yoga_node(r, x)
    PROVE  LayoutInv'
<1> DEFINE t == x.token
           i == t[1]
           b == renderables[r].target # NoOne
<1>1. /\ t \in NodeTokens /\ i \in Alive(slots) /\ i \in NodeIndexes /\ t = TokenAt(slots, i)
      /\ Slot(t) = slots[i] /\ NativeOf(t) = slots[i].node /\ slots[i].node \in NativeNodes
  BY ObjectSlot DEF attach_yoga_node
<1>2. /\ OpenRenderable(r) /\ renderables[r].node = NoToken /\ yoga_node_from_handle(t)
      /\ b => Len(children[slots[i].node]) = 0
      /\ ~slots[i].renderableAttached
      /\ native' = [native EXCEPT ![r].node = slots[i].node]
      /\ renderables' = [renderables EXCEPT ![r].node = t]
      /\ UNCHANGED <<children, created, dirty, nodes, callbackVars, views, buffers>>
  BY <1>1 DEF attach_yoga_node, Leaf, yogaNodeGetChildCount
<1>3. /\ renderables \in [Renderables -> RenderableType] /\ renderables[r] \in RenderableType
      /\ native \in [Renderables -> NativeType] /\ native[r] \in NativeType
      /\ native[r].target = renderables[r].target /\ slots \in [NodeIndexes -> SlotType]
  BY ClaimFacts
<1>4. slots' = WithFlags(slots, i, TRUE, b)
  <2>1. slots' = yoga_node_set_native_measure_attached(
                     yoga_node_claim_native_renderable(slots, t), t, b)
    BY DEF attach_yoga_node
  <2>2. b \in BOOLEAN
    OBVIOUS
  <2> HIDE DEF b, t
  <2> QED BY <1>1, <1>3, <2>1, <2>2, FlagForms
<1>5. /\ slots' \in [NodeIndexes -> SlotType] /\ SameShape(slots, slots')
      /\ \A j \in NodeIndexes \ {i} : slots'[j] = slots[j]
      /\ slots'[i].renderableAttached = TRUE /\ slots'[i].measureAttached = b
  <2> DEFINE a == TRUE
  <2>1. a \in BOOLEAN /\ b \in BOOLEAN /\ slots' = WithFlags(slots, i, a, b)
    BY <1>4
  <2> HIDE DEF a, b
  <2>2. /\ slots' \in [NodeIndexes -> SlotType] /\ SameShape(slots, slots')
        /\ \A j \in NodeIndexes \ {i} : slots'[j] = slots[j]
        /\ slots'[i].renderableAttached = a /\ slots'[i].measureAttached = b
    BY <1>1, <1>3, <2>1, Flagged
  <2> QED BY <2>2 DEF a
<1>6. /\ renderables' \in [Renderables -> RenderableType]
      /\ \A q \in Renderables \ {r} : renderables'[q] = renderables[q]
      /\ renderables'[r].node = t /\ renderables'[r].state = "open"
      /\ renderables'[r].target = renderables[r].target
  BY <1>1, <1>2, <1>3 DEF RenderableType, OpenRenderable
<1>7. /\ native' \in [Renderables -> NativeType]
      /\ \A q \in Renderables \ {r} : native'[q] = native[q]
      /\ native'[r].node = slots[i].node /\ native'[r].target = renderables[r].target
  <2>1. slots[i].node \in 0 .. MaxNodes
    BY <1>1, NodeConstants DEF NativeNodes
  <2> QED BY <1>2, <1>3, <2>1 DEF NativeType
<1>8. t # NoToken /\ Resolves(slots, t) /\ \A q \in Renderables \ {r} : renderables[q].node # t
  BY <1>1, <1>2, TokenFacts, ClaimFacts DEF yoga_node_from_handle
<1>9. \A q \in Renderables : renderables[q].node # NoToken =>
          slots'[renderables[q].node[1]].renderableAttached
  <2> SUFFICES ASSUME NEW q \in Renderables, renderables[q].node # NoToken
               PROVE  slots'[renderables[q].node[1]].renderableAttached
    OBVIOUS
  <2>1. renderables[q].node[1] \in NodeIndexes /\ slots[renderables[q].node[1]].renderableAttached
    BY ClaimFacts
  <2> QED BY <1>5, <2>1
<1>10. children[slots[i].node] = <<>> \/ ~b
  <2>1. children[slots[i].node] \in Seq(NativeNodes)
    BY <1>1 DEF LayoutInv, ForestPart
  <2> QED BY <1>2, <2>1
<1>11. \A j \in Alive(slots) : j \in NodeIndexes /\ TokenAt(slots, j)[1] = j /\ TokenAt(slots, j) # NoToken
  BY LiveSlot DEF LayoutInv
<1> HIDE DEF t, i, b
<1>12. \A j \in Alive(slots) : slots'[j].measureAttached <=>
           IF TokenAt(slots, j) = t THEN renderables[r].target # NoOne
           ELSE TokenAt(slots, j) # renderables[r].node /\ slots[j].measureAttached
  <2> SUFFICES ASSUME NEW j \in Alive(slots)
               PROVE  slots'[j].measureAttached <=>
                        IF TokenAt(slots, j) = t THEN renderables[r].target # NoOne
                        ELSE TokenAt(slots, j) # renderables[r].node /\ slots[j].measureAttached
    OBVIOUS
  <2>1. CASE j = i
    BY <1>1, <1>5, <2>1 DEF b
  <2>2. CASE j # i
    BY <1>1, <1>2, <1>5, <1>11, <2>2 DEF i
  <2> QED BY <2>1, <2>2
<1>13. \A j \in Alive(slots) : slots'[j].measureAttached => children[slots[j].node] = <<>>
  BY <1>5, <1>10, <1>11, SameTable
<1>14. ClaimPart(slots', children, renderables', native')
  <2>1. renderables'[r].node # NoToken /\ Resolves(slots, renderables'[r].node)
        /\ slots'[renderables'[r].node[1]].renderableAttached
        /\ native'[r].node = slots[renderables'[r].node[1]].node
    BY <1>5, <1>6, <1>7, <1>8 DEF i
  <2> QED BY <1>5, <1>6, <1>7, <1>8, <1>9, <1>12, <1>13, <2>1, ClaimChange, SMTT(40) DEF LayoutInv
<1>15. UserPart(renderables', views, buffers)
  <2>1. \A v : UsersOf(renderables', v) = UsersOf(renderables, v)
    BY <1>6 DEF UsersOf
  <2> QED BY <2>1 DEF LayoutInv, UserPart
<1> QED BY <1>2, <1>5, <1>14, <1>15, OwnerStep

(* A renderable that keeps its node or gives it up: the flags of the node    *)
(* become a and b.                                                           *)
LEMMA MeasureStep ==
    ASSUME LayoutInv, NEW r \in Renderables, NEW t, t = renderables[r].node,
           NEW a \in BOOLEAN, NEW b \in BOOLEAN,
           t = NoToken => slots' = slots,
           t # NoToken => slots' = WithFlags(slots, t[1], a, b),
           renderables' \in [Renderables -> RenderableType],
           \A q \in Renderables \ {r} : renderables'[q] = renderables[q],
           native' \in [Renderables -> NativeType],
           \A q \in Renderables \ {r} : native'[q] = native[q],
           native'[r].target = renderables'[r].target,
           \/ /\ renderables'[r].node = t /\ renderables'[r].state = "open"
              /\ native'[r].node = native[r].node
              /\ a /\ (b <=> renderables'[r].target # NoOne)
              /\ t # NoToken /\ b => children[slots[t[1]].node] = <<>>
           \/ /\ renderables'[r].node = NoToken /\ renderables'[r].target = NoOne
              /\ native'[r].node = NoNode /\ ~b,
           UNCHANGED <<children, created, dirty, nodes, callbackVars>>,
           UserPart(renderables', views', buffers')
    PROVE  LayoutInv'
<1>1. t # NoToken =>
        /\ t[1] \in Alive(slots) /\ t[1] \in NodeIndexes /\ t = TokenAt(slots, t[1])
        /\ Resolves(slots, t) /\ slots[t[1]].renderableAttached
        /\ native[r].node = slots[t[1]].node
        /\ \A q \in Renderables \ {r} : renderables[q].node # t
  BY ClaimFacts
<1>2. slots \in [NodeIndexes -> SlotType]
  BY ClaimFacts
<1>3. slots' \in [NodeIndexes -> SlotType] /\ SameShape(slots, slots')
  <2>1. CASE t = NoToken
    BY <2>1, SameTable
  <2>2. CASE t # NoToken
    BY <1>1, <1>2, <2>2, Flagged
  <2> QED BY <2>1, <2>2
<1>4. t # NoToken => slots'[t[1]].renderableAttached = a /\ slots'[t[1]].measureAttached = b
  BY <1>1, <1>2, Flagged
<1>5. \A i \in NodeIndexes : t = NoToken \/ i # t[1] => slots'[i] = slots[i]
  <2>1. CASE t = NoToken
    BY <2>1
  <2>2. CASE t # NoToken
    BY <1>1, <1>2, <2>2, Flagged
  <2> QED BY <2>1, <2>2
<1>6. \A i \in Alive(slots) : /\ i \in NodeIndexes /\ TokenAt(slots, i)[1] = i
                              /\ TokenAt(slots, i) # NoToken
  BY LiveSlot DEF LayoutInv
<1>7. ASSUME NEW q \in Renderables \ {r}, renderables[q].node # NoToken
      PROVE  slots'[renderables[q].node[1]].renderableAttached
  <2>1. /\ renderables[q].node[1] \in NodeIndexes
        /\ renderables[q].node = TokenAt(slots, renderables[q].node[1])
        /\ slots[renderables[q].node[1]].renderableAttached
    BY <1>7, ClaimFacts
  <2>2. t = NoToken \/ renderables[q].node[1] # t[1]
    BY <1>1, <2>1
  <2> QED BY <1>5, <2>1, <2>2
<1>8. native[r].node = NoNode \/ t # NoToken
  BY ClaimFacts
<1>9. ASSUME NEW i \in Alive(slots)
      PROVE  /\ slots'[i].measureAttached <=>
                    IF TokenAt(slots, i) = renderables'[r].node THEN renderables'[r].target # NoOne
                    ELSE TokenAt(slots, i) # t /\ slots[i].measureAttached
             /\ slots'[i].measureAttached => children[slots[i].node] = <<>>
  <2>1. CASE t # NoToken /\ i = t[1]
    <3>1. TokenAt(slots, i) = t /\ slots'[i].measureAttached = b /\ TokenAt(slots, i) # NoToken
      BY <1>1, <1>4, <2>1
    <3> QED BY <2>1, <3>1
  <2>2. CASE t = NoToken \/ i # t[1]
    <3>1. slots'[i] = slots[i] /\ TokenAt(slots, i) # t /\ TokenAt(slots, i) # NoToken
      BY <1>5, <1>6, <2>2
    <3>2. TokenAt(slots, i) # renderables'[r].node
      BY <3>1, SMTT(40)
    <3> QED BY <3>1, <3>2, SameTable
  <2> QED BY <2>1, <2>2
<1>10. ClaimPart(slots', children, renderables', native')
  <2>1. renderables'[r].node # NoToken =>
          /\ Resolves(slots, renderables'[r].node)
          /\ slots'[renderables'[r].node[1]].renderableAttached
          /\ native'[r].node = slots[renderables'[r].node[1]].node
          /\ \A q \in Renderables \ {r} : renderables[q].node # renderables'[r].node
    BY <1>1, <1>4
  <2>2. renderables'[r].state # "open" => renderables'[r].node = NoToken /\ renderables'[r].target = NoOne
    OBVIOUS
  <2>3. renderables'[r].node = NoToken => native'[r].node = NoNode
    BY <1>8
  <2>4. TablePart(slots, created, nodes) /\ ClaimPart(slots, children, renderables, native)
    BY DEF LayoutInv
  <2>5. \A q \in Renderables \ {r} :
           renderables[q].node # NoToken => slots'[renderables[q].node[1]].renderableAttached
    BY <1>7
  <2>6. \A i \in Alive(slots) : slots'[i].measureAttached <=>
           IF TokenAt(slots, i) = renderables'[r].node THEN renderables'[r].target # NoOne
           ELSE TokenAt(slots, i) # renderables[r].node /\ slots[i].measureAttached
    BY <1>9
  <2>7. \A i \in Alive(slots) : slots'[i].measureAttached => children[slots[i].node] = <<>>
    BY <1>9
  <2> QED BY <1>3, <2>1, <2>2, <2>3, <2>4, <2>5, <2>6, <2>7, ClaimChange
<1> QED BY <1>3, <1>10, OwnerStep

ViewType == [state : {"none", "open", "closed"}, buffer : Buffers \cup {NoOne}, measureUsers : Nat]

(* Native_renderable.set_measure_target. *)
LEMMA SetTargetStep ==
    ASSUME LayoutInv, NEW r \in Renderables, NEW v \in Views, set_measure_target(r, v)
    PROVE  LayoutInv'
<1> DEFINE t == renderables[r].node
           old == renderables[r].target
           claimed == [views EXCEPT ![v].measureUsers = @ + 1]
<1>1. /\ renderables \in [Renderables -> RenderableType] /\ renderables[r] \in RenderableType
      /\ native \in [Renderables -> NativeType] /\ native[r] \in NativeType
      /\ slots \in [NodeIndexes -> SlotType]
  BY ClaimFacts
<1>2. /\ renderables[r].state = "open" /\ views[v].state = "open"
      /\ t # NoToken => Len(children[slots[t[1]].node]) = 0
      /\ native' = [native EXCEPT ![r].target = v]
      /\ views' = IF old = NoOne THEN claimed
                  ELSE [claimed EXCEPT ![old].measureUsers = IF @ > 0 THEN @ - 1 ELSE 0]
      /\ renderables' = [renderables EXCEPT ![r].target = v]
      /\ UNCHANGED <<children, created, dirty, nodes, callbackVars, buffers>>
  BY DEF set_measure_target, OpenRenderable, OpenView, Leaf, yogaNodeGetChildCount, NativeOf, Slot
<1>3. t = NoToken => slots' = slots
  BY DEF set_measure_target
<1>4. t # NoToken => slots' = WithFlags(slots, t[1], TRUE, TRUE)
  <2>1. t # NoToken => slots' = yoga_node_set_native_measure_attached(slots, t, TRUE)
    BY DEF set_measure_target
  <2>2. t # NoToken => t \in NodeTokens /\ slots[t[1]].renderableAttached
    BY ClaimFacts
  <2> HIDE DEF t
  <2> QED BY <1>1, <2>1, <2>2, FlagForms
<1>5. /\ renderables' \in [Renderables -> RenderableType]
      /\ \A q \in Renderables \ {r} : renderables'[q] = renderables[q]
      /\ renderables'[r].node = t /\ renderables'[r].state = "open" /\ renderables'[r].target = v
  BY <1>1, <1>2 DEF RenderableType
<1>6. /\ native' \in [Renderables -> NativeType]
      /\ \A q \in Renderables \ {r} : native'[q] = native[q]
      /\ native'[r].node = native[r].node /\ native'[r].target = v
  BY <1>1, <1>2 DEF NativeType
<1>7. v # NoOne /\ old \in Views \cup {NoOne}
  BY <1>1, OwnerConstants DEF RenderableType
<1>8. t # NoToken => children[slots[t[1]].node] = <<>>
  <2>1. t # NoToken => slots[t[1]].node \in NativeNodes
    BY ClaimFacts, LiveSlot DEF LayoutInv
  <2>2. t # NoToken => children[slots[t[1]].node] \in Seq(NativeNodes)
    BY <2>1 DEF LayoutInv, ForestPart
  <2> QED BY <1>2, <2>2
<1>9. UserPart(renderables', views', buffers')
  <2>1. views \in [Views -> ViewType]
    BY DEF LayoutInv, UserPart, ViewType
  <2>2. /\ claimed \in [Views -> ViewType]
        /\ \A w \in Views : /\ claimed[w].state = views[w].state
                              /\ claimed[w].buffer = views[w].buffer
                              /\ claimed[w].measureUsers = IF w = v THEN views[w].measureUsers + 1
                                                           ELSE views[w].measureUsers
    BY <2>1 DEF ViewType
  <2> HIDE DEF claimed
  <2>3. /\ views' \in [Views -> ViewType]
        /\ \A w \in Views :
              /\ views'[w].state = views[w].state /\ views'[w].buffer = views[w].buffer
              /\ w # old => views'[w].measureUsers = claimed[w].measureUsers
              /\ w = old /\ claimed[w].measureUsers > 0 =>
                    views'[w].measureUsers = claimed[w].measureUsers - 1
    <3>1. CASE old = NoOne
      BY <1>2, <2>2, <3>1, OwnerConstants
    <3>2. CASE old # NoOne
      <4>1. old \in Views
        BY <1>7, <3>2
      <4> HIDE DEF old
      <4> QED BY <1>2, <2>2, <3>2, <4>1 DEF ViewType
    <3> QED BY <3>1, <3>2
  <2>4. ASSUME NEW w \in Views
        PROVE  /\ v = w => views[w].state = "open"
               /\ (v = w <=> old = w) => views'[w].measureUsers = views[w].measureUsers
               /\ v = w /\ old # w => views'[w].measureUsers = views[w].measureUsers + 1
               /\ v # w /\ old = w /\ views[w].measureUsers > 0 =>
                     views'[w].measureUsers = views[w].measureUsers - 1
    <3>1. views[w].measureUsers \in Nat
      BY <2>1 DEF ViewType
    <3> DEFINE k == views[w].measureUsers
               l == claimed[w].measureUsers
               m == views'[w].measureUsers
    <3>2. /\ l = IF w = v THEN k + 1 ELSE k
          /\ w # old => m = l
          /\ w = old /\ l > 0 => m = l - 1
      BY <2>2, <2>3
    <3>3. k \in Nat /\ (v = w => views[w].state = "open")
      BY <1>2, <3>1
    <3> HIDE DEF old, k, l, m
    <3>4. /\ (v = w <=> old = w) => m = k
          /\ v = w /\ old # w => m = k + 1
          /\ v # w /\ old = w /\ k > 0 => m = k - 1
      BY <3>2, <3>3
    <3> QED BY <3>3, <3>4 DEF k, l, m
  <2>5. UserPart(renderables', views', buffers)
    <3>1. UserPart(renderables, views, buffers)
      BY DEF LayoutInv
    <3> QED BY <1>5, <2>3, <2>4, <3>1, TargetChange DEF ViewType
  <2> QED BY <1>2, <2>5
<1> HIDE DEF t, old, claimed
<1> DEFINE a == TRUE
<1>10. a \in BOOLEAN /\ a /\ (t # NoToken => slots' = WithFlags(slots, t[1], a, a))
  BY <1>4
<1> HIDE DEF a
<1>11. t = renderables[r].node
  BY DEF t
<1> QED
  BY <1>2, <1>3, <1>5, <1>6, <1>7, <1>8, <1>9, <1>10, <1>11, MeasureStep, ZenonT(60)

(* A renderable that lets its target go: clear_measure_target and close. *)
LEMMA TargetDropped ==
    ASSUME LayoutInv, NEW r \in Renderables, views' = WithoutTarget(r), buffers' = buffers,
           \A q \in Renderables \ {r} : renderables'[q] = renderables[q],
           renderables'[r].target = NoOne
    PROVE  UserPart(renderables', views', buffers')
<1> DEFINE old == renderables[r].target
<1>1. views \in [Views -> ViewType]
  BY DEF LayoutInv, UserPart, ViewType
<1>2. old \in Views \cup {NoOne}
  BY ClaimFacts DEF RenderableType
<1>3. /\ views' \in [Views -> ViewType]
      /\ \A w \in Views :
            /\ views'[w].state = views[w].state /\ views'[w].buffer = views[w].buffer
            /\ w # old => views'[w].measureUsers = views[w].measureUsers
            /\ w = old /\ views[w].measureUsers > 0 =>
                  views'[w].measureUsers = views[w].measureUsers - 1
  <2>1. CASE old = NoOne
    BY <1>1, <2>1, OwnerConstants DEF WithoutTarget
  <2>2. CASE old # NoOne
    <3>1. /\ old \in Views
          /\ views' = [views EXCEPT ![old].measureUsers = IF @ > 0 THEN @ - 1 ELSE 0]
      BY <1>2, <2>2 DEF WithoutTarget
    <3> HIDE DEF old
    <3> QED BY <1>1, <3>1 DEF ViewType
  <2> QED BY <2>1, <2>2
<1>4. \A w \in Views : renderables'[r].target # w
  BY OwnerConstants
<1>5. UserPart(renderables, views, buffers)
  BY DEF LayoutInv
<1>6. UserPart(renderables', views', buffers)
  BY <1>3, <1>4, <1>5, TargetChange DEF ViewType
<1> QED BY <1>6

(* Native_renderable.clear_measure_target. *)
LEMMA ClearTargetStep ==
    ASSUME LayoutInv, NEW r \in Renderables, clear_measure_target(r)
    PROVE  LayoutInv'
<1> DEFINE t == renderables[r].node
<1>1. /\ renderables \in [Renderables -> RenderableType] /\ renderables[r] \in RenderableType
      /\ native \in [Renderables -> NativeType] /\ native[r] \in NativeType
      /\ slots \in [NodeIndexes -> SlotType]
  BY ClaimFacts
<1>2. /\ renderables[r].state = "open"
      /\ native' = [native EXCEPT ![r].target = NoOne] /\ views' = WithoutTarget(r)
      /\ renderables' = [renderables EXCEPT ![r].target = NoOne]
      /\ UNCHANGED <<children, created, dirty, nodes, callbackVars, buffers>>
  BY DEF clear_measure_target, OpenRenderable
<1>3. t = NoToken => slots' = slots
  BY DEF clear_measure_target
<1>4. t # NoToken => slots' = WithFlags(slots, t[1], TRUE, FALSE)
  <2>1. t # NoToken => slots' = yoga_node_set_native_measure_attached(slots, t, FALSE)
    BY DEF clear_measure_target
  <2>2. t # NoToken => t \in NodeTokens /\ slots[t[1]].renderableAttached
    BY ClaimFacts
  <2> HIDE DEF t
  <2> QED BY <1>1, <2>1, <2>2, FlagForms
<1>5. /\ renderables' \in [Renderables -> RenderableType]
      /\ \A q \in Renderables \ {r} : renderables'[q] = renderables[q]
      /\ renderables'[r].node = t /\ renderables'[r].state = "open" /\ renderables'[r].target = NoOne
  BY <1>1, <1>2 DEF RenderableType
<1>6. /\ native' \in [Renderables -> NativeType]
      /\ \A q \in Renderables \ {r} : native'[q] = native[q]
      /\ native'[r].node = native[r].node /\ native'[r].target = NoOne
  BY <1>1, <1>2 DEF NativeType
<1>7. UserPart(renderables', views', buffers')
  BY <1>2, <1>5, TargetDropped
<1> HIDE DEF t
<1> DEFINE a == TRUE
           b == FALSE
<1>8. /\ a \in BOOLEAN /\ b \in BOOLEAN /\ a /\ ~b
      /\ t # NoToken => slots' = WithFlags(slots, t[1], a, b)
  BY <1>4
<1> HIDE DEF a, b
<1>9. t = renderables[r].node
  BY DEF t
<1>10. b <=> renderables'[r].target # NoOne
  BY <1>5, <1>8
<1>11. native'[r].target = renderables'[r].target
  BY <1>5, <1>6
<1> QED BY <1>2, <1>3, <1>5, <1>6, <1>7, <1>8, <1>9, <1>10, <1>11, MeasureStep

(* Native_renderable.close. *)
LEMMA CloseStep ==
    ASSUME LayoutInv, NEW r \in Renderables, native_renderable_close(r)
    PROVE  LayoutInv'
<1> DEFINE t == renderables[r].node
<1>1. /\ renderables \in [Renderables -> RenderableType]
      /\ native \in [Renderables -> NativeType] /\ slots \in [NodeIndexes -> SlotType]
  BY ClaimFacts
<1>2. /\ native' = [native EXCEPT ![r] = Idle] /\ views' = WithoutTarget(r)
      /\ renderables' = [renderables EXCEPT ![r] =
                             [state |-> "closed", node |-> NoToken, target |-> NoOne]]
      /\ UNCHANGED <<children, created, dirty, nodes, callbackVars, buffers>>
  BY DEF native_renderable_close
<1>3. t = NoToken => slots' = slots
  BY DEF native_renderable_close
<1>4. t # NoToken => slots' = WithFlags(slots, t[1], FALSE, FALSE)
  <2>1. t # NoToken => slots' = yoga_node_release_native_renderable(slots, t)
    BY DEF native_renderable_close
  <2>2. t # NoToken => t \in NodeTokens
    BY ClaimFacts
  <2> DEFINE b == FALSE
  <2>3. b \in BOOLEAN
    OBVIOUS
  <2> HIDE DEF t, b
  <2> QED BY <1>1, <2>1, <2>2, <2>3, FlagForms
<1>5. /\ renderables' \in [Renderables -> RenderableType]
      /\ \A q \in Renderables \ {r} : renderables'[q] = renderables[q]
      /\ renderables'[r].node = NoToken /\ renderables'[r].target = NoOne
  BY <1>1, <1>2 DEF RenderableType
<1>6. /\ native' \in [Renderables -> NativeType]
      /\ \A q \in Renderables \ {r} : native'[q] = native[q]
      /\ native'[r].node = NoNode /\ native'[r].target = NoOne
  <2>1. Idle \in NativeType /\ Idle.node = NoNode /\ Idle.target = NoOne
    BY NodeConstants DEF Idle, NativeType, NoNode
  <2> QED BY <1>1, <1>2, <2>1
<1>7. UserPart(renderables', views', buffers')
  BY <1>2, <1>5, TargetDropped
<1> HIDE DEF t
<1> DEFINE b == FALSE
<1>8. b \in BOOLEAN /\ ~b /\ (t # NoToken => slots' = WithFlags(slots, t[1], b, b))
  BY <1>4
<1> HIDE DEF b
<1>9. t = renderables[r].node
  BY DEF t
<1>10. /\ native'[r].target = renderables'[r].target
       /\ renderables'[r].node = NoToken /\ renderables'[r].target = NoOne
       /\ native'[r].node = NoNode /\ ~b
  BY <1>5, <1>6, <1>8
<1>11. UNCHANGED <<children, created, dirty, nodes, callbackVars>>
  BY <1>2
<1>12. /\ renderables' \in [Renderables -> RenderableType]
       /\ \A q \in Renderables \ {r} : renderables'[q] = renderables[q]
       /\ native' \in [Renderables -> NativeType]
       /\ \A q \in Renderables \ {r} : native'[q] = native[q]
  BY <1>5, <1>6
<1> QED BY <1>3, <1>7, <1>8, <1>9, <1>10, <1>11, <1>12, MeasureStep

(* Buffers and views leave everything else alone. *)
LEMMA UserStep ==
    ASSUME LayoutInv, UNCHANGED <<yogaVars, renderables, native>>,
           UserPart(renderables, views', buffers')
    PROVE  LayoutInv'
<1>1. UNCHANGED <<slots, children, created, dirty, nodes, callbackVars>>
  BY DEF yogaVars, nodeVars
<1>2. slots' \in [NodeIndexes -> SlotType] /\ SameShape(slots, slots')
  BY <1>1, SameTable
<1>3. ClaimPart(slots', children, renderables', native') /\ UserPart(renderables', views', buffers')
  BY <1>1 DEF LayoutInv
<1> QED BY <1>1, <1>2, <1>3, OwnerStep

-----------------------------------------------------------------------------
(* The invariant and what follows from it. *)

(* The invariant holds at the start ... *)
LEMMA InitInv == LayoutInit => LayoutInv
<1> SUFFICES ASSUME LayoutInit PROVE LayoutInv
  OBVIOUS
<1> USE DEF LayoutInit, YogaInit
<1>1. DeadNode \in SlotType /\ ~DeadNode.alive /\ DeadNode.generation = 0
  BY NodeConstants, MaxGenerationAssumption DEF DeadNode, SlotType
<1>2. slots \in [NodeIndexes -> SlotType] /\ Alive(slots) = {}
      /\ \A i \in NodeIndexes : slots[i].generation = 0
  BY <1>1 DEF Alive
<1>3. TablePart(slots, created, nodes)
  BY <1>2, NodeConstants DEF TablePart, NodesOwn, ObjectsName
<1>4. ForestPart(slots, children, dirty)
  <2>1. <<>> \in Seq(NativeNodes) /\ DOMAIN <<>> = {} /\ ToSet(<<>>) = {}
    BY DEF ToSet
  <2>2. children \in [NativeNodes -> Seq(NativeNodes)] /\ \A m \in NativeNodes : children[m] = <<>>
    BY <2>1
  <2>3. ListsOnce(children) /\ ListsLive(slots, children)
    BY <2>1, <2>2 DEF ListsOnce, ListsLive
  <2> QED
    BY <1>2, <2>2, <2>3 DEF ForestPart, ParentsResolve, Grounded, ListsAgree, DirtyAbove
<1>5. ClaimPart(slots, children, renderables, native)
  <2>1. \A r \in Renderables : /\ renderables[r].node = NoToken /\ renderables[r].target = NoOne
                               /\ native[r] = Idle
    OBVIOUS
  <2>2. /\ Idle \in [node : 0 .. MaxNodes, target : Views \cup {NoOne}]
        /\ Idle.node = NoNode /\ Idle.target = NoOne
    BY NodeConstants DEF Idle, NoNode
  <2>3. ClaimsTyped(renderables, native)
    BY <2>2 DEF ClaimsTyped
  <2> QED BY <1>2, <2>1, <2>2, <2>3 DEF ClaimPart, ClaimsHold, ClaimsOnce, FlagsTrue
<1>6. UserPart(renderables, views, buffers)
  <2>1. \A v \in Views : UsersOf(renderables, v) = {}
    BY OwnerConstants DEF UsersOf
  <2>2. \A b \in Buffers : ViewsOf(views, b) = {}
    BY DEF ViewsOf
  <2>3. Cardinality({}) = 0
    BY FS_EmptySet
  <2>4. /\ \A v \in Views : views[v].measureUsers = 0 /\ views[v].state = "none"
        /\ \A b \in Buffers : buffers[b].openViews = 0
    OBVIOUS
  <2> QED BY <2>1, <2>2, <2>3, <2>4 DEF UserPart
<1>7. CallbackPart
  BY DEF CallbackPart
<1> QED BY <1>3, <1>4, <1>5, <1>6, <1>7 DEF LayoutInv

(* ... and every step keeps it. *)
LEMMA StepInv == LayoutInv /\ [LayoutNext]_layoutVars => LayoutInv'
<1> SUFFICES ASSUME LayoutInv, [LayoutNext]_layoutVars PROVE LayoutInv'
  OBVIOUS
<1>1. ASSUME NEW ok \in BOOLEAN, NEW delivered \in BOOLEAN, yoga_node_create(ok, delivered),
             UNCHANGED ownerVars
      PROVE  LayoutInv'
  BY <1>1, CreateStep
<1>2. ASSUME NEW x \in nodes, UNCHANGED ownerVars,
             \/ yoga_node_free(x) \/ yoga_node_free_recursive(x) \/ yoga_node_style_set(x)
             \/ yoga_node_mark_dirty(x) \/ yoga_node_calculate(x)
             \/ measure_attach(x) \/ measure_detach(x)
      PROVE  LayoutInv'
  BY <1>2, FreeStep, FreeRecursiveStep, MarkStep, CalculateStep, CallbackStep
<1>3. ASSUME NEW p \in nodes, NEW c \in nodes, UNCHANGED ownerVars,
             \/ yoga_node_remove_child(p, c)
             \/ \E at \in 0 .. NodeCapacity :
                   yoga_node_insert_child(p, c, at) \/ yoga_node_move_child(p, c, at)
      PROVE  LayoutInv'
  <2>1. 0 .. NodeCapacity \subseteq Nat
    BY NodeConstants
  <2> QED BY <1>3, <2>1, RemoveStep, InsertStep, MoveStep
<1>4. CASE YogaNext /\ UNCHANGED ownerVars
  BY <1>1, <1>2, <1>3, <1>4 DEF YogaNext
<1>5. ASSUME NEW b \in Buffers, text_buffer_create(b) \/ text_buffer_close(b)
      PROVE  LayoutInv'
  <2>1. UNCHANGED <<yogaVars, renderables, native, views>>
    BY <1>5 DEF text_buffer_create, text_buffer_close
  <2>2. UserPart(renderables, views, buffers')
    BY <1>5, BufferStep DEF LayoutInv
  <2>3. UserPart(renderables, views', buffers')
    BY <2>1, <2>2
  <2> QED BY <2>1, <2>3, UserStep
<1>6. ASSUME NEW v \in Views,
             text_buffer_view_close(v) \/ \E b \in Buffers : text_buffer_view_create(v, b)
      PROVE  LayoutInv'
  <2>1. UNCHANGED <<yogaVars, renderables, native>>
    BY <1>6 DEF text_buffer_view_close, text_buffer_view_create
  <2>2. UserPart(renderables, views', buffers')
    BY <1>6, ViewCloseStep, ViewCreateStep DEF LayoutInv
  <2> QED BY <2>1, <2>2, UserStep
<1>7. ASSUME NEW r \in Renderables,
             \/ native_renderable_create(r)
             \/ \E x \in nodes : attach_yoga_node(r, x)
             \/ \E v \in Views : set_measure_target(r, v)
             \/ clear_measure_target(r) \/ native_renderable_close(r)
      PROVE  LayoutInv'
  BY <1>7, RenderableCreateStep, AttachStep, SetTargetStep, ClearTargetStep, CloseStep
<1>8. CASE UNCHANGED layoutVars
  <2>1. UNCHANGED <<yogaVars, renderables, native, views, buffers>>
    BY <1>8 DEF layoutVars, ownerVars
  <2>2. UserPart(renderables, views', buffers')
    BY <2>1 DEF LayoutInv
  <2> QED BY <2>1, <2>2, UserStep
<1> QED BY <1>4, <1>5, <1>6, <1>7, <1>8 DEF LayoutNext

(* Climbing from the parent of a live slot never meets the slot again: the   *)
(* slots from whose parents it could be met would have no root.              *)
LEMMA NoCycle ==
    ASSUME LayoutInv, NEW i \in Alive(slots), slots[i].parent # NoToken
    PROVE  TokenAt(slots, i) \notin Ancestors(slots[i].parent)
<1> SUFFICES ASSUME TokenAt(slots, i) \in Ancestors(slots[i].parent) PROVE FALSE
  OBVIOUS
<1> DEFINE h == TokenAt(slots, i)
           C == {j \in Alive(slots) : slots[j].parent # NoToken /\ h \in Ancestors(slots[j].parent)}
<1>1. C \in SUBSET Alive(slots) /\ i \in C
  OBVIOUS
<1>2. ASSUME NEW j \in C PROVE slots[j].parent # NoToken /\ slots[j].parent[1] \in C
  <2> DEFINE p == slots[j].parent
             k == p[1]
             S == LinkedTokens
             E == ParentLinks
  <2>1. j \in Alive(slots) /\ p # NoToken /\ h \in Reached(S, E, p)
    BY <1>2 DEF Ancestors
  <2>2. k \in Alive(slots) /\ p = TokenAt(slots, k)
    BY <2>1, ParentSlot DEF LayoutInv, ForestPart
  <2>3. p \in S
    BY <2>2, LinkFacts
  <2>4. \A l \in Alive(slots) : TokenAt(slots, l)[1] = l
    BY LiveSlot DEF LayoutInv
  <2>5. CASE h = p
    <3>1. k = i
      BY <2>2, <2>4, <2>5
    <3> QED BY <1>1, <2>1, <3>1
  <2>6. CASE h # p
    <3>1. \A l \in E : l[1] = p => slots[k].parent # NoToken /\ l[2] = slots[k].parent
      BY <2>2, <2>4, LinkFacts
    <3>2. slots[k].parent # NoToken
      <4> SUFFICES ASSUME slots[k].parent = NoToken PROVE FALSE
        OBVIOUS
      <4> HIDE DEF S, E, p, h
      <4>1. {p} \in SUBSET S /\ \A l \in E : l[1] \in {p} /\ l[2] \in S => l[2] \in {p}
        BY <2>3, <3>1
      <4>2. Reached(S, E, p) \subseteq {p}
        BY <2>3, <4>1, ReachedLeast
      <4> QED BY <2>1, <2>6, <4>2
    <3> DEFINE q == slots[k].parent
    <3>3. <<p, q>> \in E /\ q \in S
      BY <2>2, <3>2, LinkFacts, ParentSlot DEF LayoutInv, ForestPart
    <3>4. \A l \in E : l[1] = p => l[2] = q
      BY <3>1
    <3> HIDE DEF S, E, p, q, h
    <3>5. h \in Reached(S, E, q)
      BY <2>1, <2>3, <2>6, <3>3, <3>4, ReachedOnward
    <3> QED BY <2>1, <2>2, <3>2, <3>5 DEF S, E, p, q, h, Ancestors
  <2> QED BY <2>1, <2>5, <2>6
<1> HIDE DEF C
<1> QED BY <1>1, <1>2 DEF LayoutInv, ForestPart, Grounded

(* What the runs check follows from it. *)
LEMMA InvTreesAgree == LayoutInv => TreesAgree
<1> SUFFICES ASSUME LayoutInv PROVE TreesAgree
  OBVIOUS
<1>1. LiveIndexes = Alive(slots) /\ \A i \in Alive(slots) : yoga_handle(i) = TokenAt(slots, i)
  BY LinkFacts
<1>2. ASSUME NEW i \in Alive(slots), NEW m \in NativeNodes
      PROVE  Cardinality({k \in DOMAIN children[m] : children[m][k] = slots[i].node})
               = IF slots[i].parent # NoToken /\ m = NativeOf(slots[i].parent) THEN 1 ELSE 0
  <2> DEFINE P == {k \in DOMAIN children[m] : children[m][k] = slots[i].node}
  <2>1. slots[i].node \in ToSet(children[m]) <=>
            slots[i].parent # NoToken /\ m = NativeOf(slots[i].parent)
    BY DEF LayoutInv, ForestPart, ListsAgree, NativeOf, Slot
  <2>2. CASE slots[i].node \in ToSet(children[m])
    <3>1. PICK k \in DOMAIN children[m] : children[m][k] = slots[i].node
      BY <2>2 DEF ToSet
    <3>2. P = {k}
      BY <3>1 DEF LayoutInv, ForestPart, ListsOnce
    <3>3. Cardinality({k}) = 1
      BY FS_Singleton
    <3> QED BY <2>1, <2>2, <3>2, <3>3
  <2>3. CASE slots[i].node \notin ToSet(children[m])
    <3>1. P = {}
      BY <2>3 DEF ToSet
    <3>2. Cardinality({}) = 0
      BY FS_EmptySet
    <3> QED BY <2>1, <2>3, <3>1, <3>2
  <2> QED BY <2>2, <2>3
<1>3. ASSUME NEW i \in Alive(slots), slots[i].parent # NoToken
      PROVE  /\ yoga_node_from_handle(slots[i].parent)
             /\ slots[i].node \in dirty => yoga_node_is_dirty(slots[i].parent)
  BY <1>3 DEF LayoutInv, ForestPart, ParentsResolve, DirtyAbove, yoga_node_from_handle,
              yoga_node_is_dirty, NativeOf, Slot
<1>4. ASSUME NEW m \in NativeNodes, NEW k \in DOMAIN children[m]
      PROVE  \E i \in Alive(slots) : slots[i].node = children[m][k]
  BY DEF LayoutInv, ForestPart, ListsLive, ToSet
<1> QED BY <1>1, <1>2, <1>3, <1>4, NoCycle DEF TreesAgree

LEMMA InvStaleRefused == LayoutInv => StaleTokensRefused
  BY DEF LayoutInv, TablePart, ObjectsName, StaleTokensRefused, yoga_node_from_handle,
         NativeOf, Slot

LEMMA InvTypeOK == LayoutInv => LayoutTypeOK
<1> SUFFICES ASSUME LayoutInv PROVE LayoutTypeOK
  OBVIOUS
<1>1. YogaTypeOK
  <2>1. slots \in [NodeIndexes -> SlotType] /\ created \in 0 .. MaxNodes /\ nodes \subseteq ObjectType
    BY DEF LayoutInv, TablePart
  <2>2. children \in [NativeNodes -> Seq(NativeNodes)] /\ dirty \subseteq NativeNodes
    BY DEF LayoutInv, ForestPart
  <2>3. /\ measured \subseteq NativeNodes /\ registered \in BOOLEAN
        /\ registrations \subseteq NativeNodes
    BY DEF LayoutInv, CallbackPart
  <2> QED BY <2>1, <2>2, <2>3 DEF YogaTypeOK, SlotType, ObjectType
<1>2. Cardinality(Renderables) \in Nat /\ Cardinality(Views) \in Nat
  BY OwnerConstants, FS_CardinalityType
<1>3. ASSUME NEW v \in Views PROVE views[v].measureUsers \in 0 .. Cardinality(Renderables)
  <2>1. UsersOf(renderables, v) \subseteq Renderables
    BY DEF UsersOf
  <2>2. /\ Cardinality(UsersOf(renderables, v)) \in Nat
        /\ Cardinality(UsersOf(renderables, v)) <= Cardinality(Renderables)
    BY <2>1, OwnerConstants, FS_Subset, FS_CardinalityType
  <2>3. views[v].measureUsers = Cardinality(UsersOf(renderables, v))
    BY DEF LayoutInv, UserPart
  <2> QED BY <1>2, <2>2, <2>3
<1>4. ASSUME NEW b \in Buffers PROVE buffers[b].openViews \in 0 .. Cardinality(Views)
  <2>1. ViewsOf(views, b) \subseteq Views
    BY DEF ViewsOf
  <2>2. /\ Cardinality(ViewsOf(views, b)) \in Nat
        /\ Cardinality(ViewsOf(views, b)) <= Cardinality(Views)
    BY <2>1, OwnerConstants, FS_Subset, FS_CardinalityType
  <2>3. buffers[b].openViews = Cardinality(ViewsOf(views, b))
    BY DEF LayoutInv, UserPart
  <2> QED BY <1>2, <2>2, <2>3
<1>5. /\ views \in [Views -> [state : {"none", "open", "closed"}, buffer : Buffers \cup {NoOne},
                               measureUsers : Nat]]
      /\ buffers \in [Buffers -> [state : {"none", "open", "closed"}, openViews : Nat]]
  BY DEF LayoutInv, UserPart
<1>6. views \in [Views -> [state : {"none", "open", "closed"}, buffer : Buffers \cup {NoOne},
                           measureUsers : 0 .. Cardinality(Renderables)]]
  BY <1>3, <1>5
<1>7. buffers \in [Buffers -> [state : {"none", "open", "closed"},
                               openViews : 0 .. Cardinality(Views)]]
  BY <1>4, <1>5
<1>8. ClaimsTyped(renderables, native)
  BY DEF LayoutInv, ClaimPart
<1> QED BY <1>1, <1>6, <1>7, <1>8 DEF LayoutTypeOK, ClaimsTyped

LEMMA InvMeasure == LayoutInv => MeasureChainAlive
<1> SUFFICES ASSUME LayoutInv PROVE MeasureChainAlive
  OBVIOUS
<1>1. LiveIndexes = Alive(slots)
  BY LinkFacts
<1>2. \A i, j \in Alive(slots) : slots[i].node = slots[j].node => i = j
  BY LiveSlot DEF LayoutInv
<1>3. ASSUME NEW r \in Renderables, native[r].node # NoNode
      PROVE  /\ renderables[r].node # NoToken /\ renderables[r].node[1] \in Alive(slots)
             /\ renderables[r].node = TokenAt(slots, renderables[r].node[1])
             /\ slots[renderables[r].node[1]].node = native[r].node
             /\ slots[renderables[r].node[1]].renderableAttached
  BY <1>3, ClaimFacts
<1>4. ASSUME NEW r \in Renderables, NEW q \in Renderables, q # r, native[r].node # NoNode
      PROVE  native[q].node # native[r].node
  <2> SUFFICES ASSUME native[q].node = native[r].node PROVE FALSE
    OBVIOUS
  <2>1. renderables[q].node[1] = renderables[r].node[1]
    BY <1>2, <1>3, <1>4
  <2>2. renderables[q].node = renderables[r].node
    BY <1>3, <1>4, <2>1
  <2> QED BY <1>3, <1>4, <2>2, ClaimFacts
<1>5. ASSUME NEW r \in Renderables, native[r].target # NoOne PROVE OpenView(native[r].target)
  <2>1. native[r].target = renderables[r].target /\ native[r].target \in Views
    BY <1>5, ClaimFacts DEF NativeType
  <2>2. UsersOf(renderables, native[r].target) # {}
    BY <2>1 DEF UsersOf
  <2>3. /\ views[native[r].target].state = "open"
        /\ buffers[views[native[r].target].buffer].state = "open"
    BY <2>1, <2>2 DEF LayoutInv, UserPart
  <2> QED BY <2>3 DEF OpenView, OpenBuffer
<1>6. MeasureTargetsOpen
  BY <1>1, <1>3, <1>4, <1>5 DEF MeasureTargetsOpen
<1>7. ASSUME NEW i \in Alive(slots), NEW r \in Renderables
      PROVE  native[r].node = slots[i].node <=> renderables[r].node = TokenAt(slots, i)
  <2>1. slots[i].node # NoNode /\ TokenAt(slots, i) # NoToken /\ TokenAt(slots, i)[1] = i
    <3>1. slots[i].node \in NativeNodes /\ TokenAt(slots, i) # NoToken /\ TokenAt(slots, i)[1] = i
      BY LiveSlot DEF LayoutInv
    <3> QED BY <3>1 DEF NativeNodes, NoNode
  <2>2. ASSUME native[r].node = slots[i].node PROVE renderables[r].node = TokenAt(slots, i)
    <3>1. renderables[r].node[1] = i
      BY <1>2, <1>3, <2>1, <2>2
    <3> QED BY <1>3, <2>1, <2>2, <3>1
  <2>3. ASSUME renderables[r].node = TokenAt(slots, i) PROVE native[r].node = slots[i].node
    BY <2>1, <2>3, ClaimFacts
  <2> QED BY <2>2, <2>3
<1>8. \A r \in Renderables : native[r].target = renderables[r].target
  BY ClaimFacts
<1>9. MeasureFlagsTrue
  <2> SUFFICES ASSUME NEW i \in Alive(slots)
               PROVE  /\ slots[i].measureAttached <=> \E r \in Renderables :
                            native[r].node = slots[i].node /\ native[r].target # NoOne
                      /\ slots[i].measureAttached => children[slots[i].node] = <<>>
    BY <1>1 DEF MeasureFlagsTrue
  <2>1. /\ slots[i].measureAttached <=> \E r \in Renderables :
              renderables[r].node = TokenAt(slots, i) /\ renderables[r].target # NoOne
        /\ slots[i].measureAttached => children[slots[i].node] = <<>>
    BY DEF LayoutInv, ClaimPart, FlagsTrue
  <2> QED BY <1>7, <1>8, <2>1
<1>10. MeasuredHaveCallback
  BY DEF LayoutInv, CallbackPart, MeasuredHaveCallback, raw_yoga_measure_callback
<1> QED BY <1>6, <1>9, <1>10, InvTypeOK DEF MeasureChainAlive

(* The inductive invariant holds throughout. *)
THEOREM LayoutInvariant == LayoutSpec => []LayoutInv
  BY InitInv, StepInv, PTL DEF LayoutSpec

(* The parent links of yoga_stubs.c and Yoga's lists of children describe    *)
(* the same forest after any sequence of create, insert, remove, move, free  *)
(* and free_recursive, without cycles, and with every node above a dirty     *)
(* node dirty.                                                               *)
THEOREM LayoutTreesAgree == LayoutSpec => []TreesAgree
  BY LayoutInvariant, InvTreesAgree, PTL

(* A token that resolves names the node it was issued for, however often     *)
(* free_recursive released its slot under the OCaml object.                  *)
THEOREM LayoutRefusesStaleTokens == LayoutSpec => []StaleTokensRefused
  BY LayoutInvariant, InvStaleRefused, PTL

(* Whatever order renderables, views, buffers and nodes are closed in, a     *)
(* layout calculation reaches only an open view of an open buffer through a  *)
(* node that is alive, the flags in C are true of the native tree, and every *)
(* node measured through OCaml finds its callback.                           *)
THEOREM LayoutMeasuresOpenTargets == LayoutSpec => []MeasureChainAlive
  BY LayoutInvariant, InvMeasure, PTL

=============================================================================
