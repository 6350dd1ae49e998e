----------------------------- MODULE GpuProofs -----------------------------
(***************************************************************************)
(* Proofs about Gpu: who owns the native objects of the three renderer,    *)
(* for any number of failed calls, sizes and leaked views.                 *)
(*                                                                         *)
(* An operation of the engine is a chain of constructions, each of which   *)
(* may fail and unwinds what came before.  In the middle of one, objects   *)
(* are live that no field of the engine names yet: Tracked(g, held, lost)  *)
(* says that every live object is the engine's (Rest), is in held - what   *)
(* the operation has made or taken out and not stored yet - or is of a     *)
(* kind in lost.  The lemma of an operation says how it changes held; the  *)
(* actions begin and end with held the objects of the mesh entry.          *)
(*                                                                         *)
(* GpuInv is that account, with the types and roles of the engine's        *)
(* objects (two fields never name the same object), and, as long as no     *)
(* call failed, that the engine has the size, the mode and the algorithm   *)
(* of the facade and no buffer is left mapped.                             *)
(***************************************************************************)
EXTENDS Gpu, SequenceTheorems, InductionLemmas

(* What a native call makes: an object of a kind, for a role. *)
Calls == Kinds \X Roles

(* The native side, with its engine. *)
NativeSides ==
    [live : SUBSET Handles, mapped : SUBSET Handles, pending : SUBSET Handles,
     misuse : BOOLEAN, engine : Engines \cup {NoEngine}]

(* No native call took a dead handle, and only live buffers are mapped. *)
NativeOK(g) ==
    /\ g \in NativeSides
    /\ IsFiniteSet(g.live) /\ ~g.misuse
    /\ g.mapped \subseteq g.live /\ g.pending \subseteq g.live

(* Among the first numbers there is one that is free. *)
LEMMA FreshIsFresh ==
    ASSUME NEW live, IsFiniteSet(live), NEW kind \in Calls
    PROVE  /\ FreshHandle(live, kind) \notin live
           /\ FreshHandle(live, kind) \in Handles
           /\ FreshHandle(live, kind)[1] = kind[1]
           /\ FreshHandle(live, kind)[2] = kind[2]
<1> DEFINE H(n) == <<kind[1], kind[2], n>>
           N == Cardinality(live) + 1
           F == {n \in 1 .. N : H(n) \notin live}
<1>1. Cardinality(live) \in Nat /\ N \in Nat /\ N > Cardinality(live)
  BY FS_CardinalityType
<1>2. F # {}
  <2> SUFFICES ASSUME F = {} PROVE FALSE
    OBVIOUS
  <2> DEFINE f == [n \in 1 .. N |-> H(n)]
  <2>1. f \in [1 .. N -> live]
    OBVIOUS
  <2>2. \A m, n \in 1 .. N : f[m] = f[n] => m = n
    OBVIOUS
  <2>3. IsFiniteSet(1 .. N) /\ Cardinality(1 .. N) = N
    BY <1>1, FS_Interval
  <2> HIDE DEF f
  <2>4. \E m, n \in 1 .. N : m # n /\ f[m] = f[n]
    BY <1>1, <2>1, <2>3, FS_PigeonHole
  <2> QED BY <2>2, <2>4
<1>3. PICK k \in F : \A l \in F : k <= l
  <2>1. F \subseteq Nat
    OBVIOUS
  <2> HIDE DEF F
  <2> QED BY <1>2, <2>1, LeastElement
<1>4. /\ k \in 1 .. N /\ H(k) \notin live
      /\ \A m \in 1 .. k - 1 : H(m) \in live
  BY <1>1, <1>3
<1>5. PICK n \in 1 .. N : /\ FreshHandle(live, kind) = H(n)
                          /\ H(n) \notin live
  BY <1>4 DEF FreshHandle
<1> QED BY <1>5 DEF Calls, Handles

(* The elements of a sequence are finitely many. *)
LEMMA RangeFinite ==
    ASSUME NEW S, NEW s \in Seq(S)
    PROVE  IsFiniteSet(Range(s)) /\ Range(s) \subseteq S
<1>1. IsFiniteSet(1 .. Len(s)) /\ Range(s) = {s[k] : k \in 1 .. Len(s)}
  BY FS_Interval DEF Range
<1>2. s \in Surjection(1 .. Len(s), Range(s))
  BY <1>1 DEF Surjection
<1>3. IsFiniteSet(Range(s))
  BY <1>1, <1>2, FS_Surjection
<1> QED BY <1>1, <1>3

(* made are new handles of the given kinds. *)
IsMade(live, kinds, made) ==
    /\ made \in Seq(Handles) /\ Len(made) = Len(kinds)
    /\ \A k \in 1 .. Len(made) :
          /\ made[k] \notin live
          /\ made[k][1] = kinds[k][1] /\ made[k][2] = kinds[k][2]

(* Objects created one after the other are new, and of the kinds asked for. *)
LEMMA MadeIsMade ==
    ASSUME NEW live, IsFiniteSet(live), NEW kinds \in Seq(Calls)
    PROVE  IsMade(live, kinds, Made(live, kinds))
<1> DEFINE Q == Seq(Handles)
           Next1(s, kind) == Append(s, FreshHandle(live \cup Range(s), kind))
           step == [kind \in Calls |-> [s \in Q |-> Next1(s, kind)]]
           Step(g) == [k \in 0 .. Len(kinds) |->
                          IF k = 0 THEN <<>> ELSE Next1(g[k - 1], kinds[k])]
<1>1. Len(kinds) \in Nat /\ \A n \in 1 .. Len(kinds) : kinds[n] \in Calls
  OBVIOUS
<1>2. ASSUME NEW kind \in Calls, NEW s \in Q
      PROVE  /\ Next1(s, kind) \in Q /\ Len(Next1(s, kind)) = Len(s) + 1
             /\ \A n \in 1 .. Len(s) : Next1(s, kind)[n] = s[n]
             /\ Next1(s, kind)[Len(s) + 1] \notin live
             /\ Next1(s, kind)[Len(s) + 1][1] = kind[1]
             /\ Next1(s, kind)[Len(s) + 1][2] = kind[2]
  <2> DEFINE h == FreshHandle(live \cup Range(s), kind)
  <2>1. IsFiniteSet(live \cup Range(s))
    BY RangeFinite, FS_Union
  <2>2. h \notin live /\ h \in Handles /\ h[1] = kind[1] /\ h[2] = kind[2]
    BY <2>1, FreshIsFresh
  <2> HIDE DEF h
  <2>3. /\ Append(s, h) \in Q /\ Len(Append(s, h)) = Len(s) + 1
        /\ \A n \in 1 .. Len(s) : Append(s, h)[n] = s[n]
        /\ Append(s, h)[Len(s) + 1] = h
    BY <2>2, AppendProperties
  <2> QED BY <2>2, <2>3 DEF h
<1>3. step \in [Calls -> [Q -> Q]] /\ <<>> \in Q
  BY <1>2, SMTT(40)
<1>4. \A kind \in Calls, s \in Q : step[kind][s] = Next1(s, kind)
  OBVIOUS
<1> HIDE DEF step
<1>5. \E g : g = Step(g)
  <2> DEFINE x == <<>>
  <2>1. x \in Q
    BY <1>3
  <2> HIDE DEF x, Q
  <2>2. PICK g : Runs(Q, step, kinds, g) /\ g[0] = x
    BY <2>1, <1>3, RunExists
  <2>3. /\ g \in [0 .. Len(kinds) -> Q]
        /\ \A n \in 1 .. Len(kinds) : g[n] = step[kinds[n]][g[n - 1]]
    BY <2>2 DEF Runs
  <2>4. ASSUME NEW n \in 1 .. Len(kinds) PROVE g[n] = Next1(g[n - 1], kinds[n])
    <3>1. n - 1 \in 0 .. Len(kinds)
      BY <1>1
    <3>2. g[n - 1] \in Q /\ kinds[n] \in Calls
      BY <1>1, <2>3, <3>1
    <3> QED BY <1>4, <2>3, <3>2
  <2>5. \A n \in 0 .. Len(kinds) : n # 0 => n \in 1 .. Len(kinds)
    BY <1>1
  <2> HIDE DEF Next1
  <2>6. g = Step(g)
    BY <2>2, <2>3, <2>4, <2>5 DEF x
  <2> QED BY <2>6
<1> DEFINE g == CHOOSE g : g = [k \in 0 .. Len(kinds) |->
                   IF k = 0 THEN <<>>
                   ELSE Append(g[k - 1], FreshHandle(live \cup Range(g[k - 1]), kinds[k]))]
<1>6. g = Step(g)
  BY <1>5, Zenon
<1>7. Made(live, kinds) = g[Len(kinds)]
  BY DEF Made
<1> HIDE DEF g, Q, Next1
<1>8. g[0] = <<>> /\ \A n \in 1 .. Len(kinds) : g[n] = Next1(g[n - 1], kinds[n])
  <2>1. \A n \in 0 .. Len(kinds) : g[n] = IF n = 0 THEN <<>> ELSE Next1(g[n - 1], kinds[n])
    BY <1>6
  <2>2. 0 \in 0 .. Len(kinds) /\ \A n \in 1 .. Len(kinds) : n \in 0 .. Len(kinds) /\ n # 0
    BY <1>1
  <2> QED BY <2>1, <2>2
<1> DEFINE IsMadeTo(n) == /\ g[n] \in Q /\ Len(g[n]) = n
                          /\ \A k \in 1 .. n :
                                /\ g[n][k] \notin live
                                /\ g[n][k][1] = kinds[k][1] /\ g[n][k][2] = kinds[k][2]
           A == {n \in Nat : n <= Len(kinds) => IsMadeTo(n)}
<1>9. 0 \in A
  BY <1>3, <1>8
<1>10. ASSUME NEW n \in Nat, n \in A PROVE n + 1 \in A
  <2>1. CASE n + 1 <= Len(kinds)
    <3>1. n <= Len(kinds) /\ n + 1 \in 1 .. Len(kinds) /\ (n + 1) - 1 = n
      BY <1>1, <2>1
    <3>2. IsMadeTo(n)
      BY <1>10, <3>1
    <3>3. g[n + 1] = Next1(g[n], kinds[n + 1]) /\ kinds[n + 1] \in Calls
      BY <1>1, <1>8, <3>1
    <3>4. /\ g[n + 1] \in Q /\ Len(g[n + 1]) = n + 1
          /\ \A k \in 1 .. n : g[n + 1][k] = g[n][k]
          /\ g[n + 1][n + 1] \notin live
          /\ g[n + 1][n + 1][1] = kinds[n + 1][1] /\ g[n + 1][n + 1][2] = kinds[n + 1][2]
      <4> DEFINE s == g[n]
                 kind == kinds[n + 1]
      <4>1. s \in Q /\ kind \in Calls /\ Len(s) = n
        BY <3>2, <3>3
      <4>2. g[n + 1] = Next1(s, kind)
        BY <3>3
      <4> HIDE DEF s, kind
      <4>3. /\ Next1(s, kind) \in Q /\ Len(Next1(s, kind)) = n + 1
            /\ \A k \in 1 .. n : Next1(s, kind)[k] = s[k]
            /\ Next1(s, kind)[n + 1] \notin live
            /\ Next1(s, kind)[n + 1][1] = kind[1] /\ Next1(s, kind)[n + 1][2] = kind[2]
        BY <1>2, <4>1
      <4> QED BY <4>2, <4>3 DEF s, kind
    <3>5. \A k \in 1 .. n + 1 : k \in 1 .. n \/ k = n + 1
      OBVIOUS
    <3>6. ASSUME NEW k \in 1 .. n + 1
          PROVE  /\ g[n + 1][k] \notin live
                 /\ g[n + 1][k][1] = kinds[k][1] /\ g[n + 1][k][2] = kinds[k][2]
      BY <3>2, <3>4, <3>5, SMTT(40)
    <3>7. IsMadeTo(n + 1)
      BY <3>4, <3>6
    <3> QED BY <3>7
  <2> QED BY <2>1
<1> HIDE DEF A
<1>11. Nat \subseteq A
  BY <1>9, <1>10, InductionOnSet
<1>12. IsMadeTo(Len(kinds))
  BY <1>1, <1>11 DEF A
<1> QED BY <1>7, <1>12 DEF IsMade, Q

(* r built objects of the given kinds. *)
Built(g, kinds, r) ==
    /\ r.ok /\ IsMade(g.live, kinds, r.val)
    /\ r.g = [g EXCEPT !.live = @ \cup Range(r.val)]

(* A construction builds all it was asked for, or leaves nothing behind. *)
LEMMA BuildResult ==
    ASSUME NEW g, NativeOK(g), NEW kinds \in Seq(Calls), NEW at
    PROVE  /\ at \in 1 .. Len(kinds) => Build(g, kinds, at) = Failed(g)
           /\ at \notin 1 .. Len(kinds) => Built(g, kinds, Build(g, kinds, at))
<1>1. ASSUME NEW some \in Seq(Calls)
      PROVE  /\ Created(g, some).val = Made(g.live, some)
             /\ Created(g, some).g = [g EXCEPT !.live = @ \cup Range(Made(g.live, some))]
             /\ Created(g, some).ok
             /\ IsMade(g.live, some, Made(g.live, some))
  BY MadeIsMade DEF Created, Return, NativeOK, Result
<1>2. ASSUME at \in 1 .. Len(kinds) PROVE Build(g, kinds, at) = Failed(g)
  <2> DEFINE some == SubSeq(kinds, 1, at - 1)
             made == Made(g.live, some)
             h == [g EXCEPT !.live = @ \cup Range(made)]
  <2>1. some \in Seq(Calls)
    BY <1>2, SubSeqProperties
  <2>2. Created(g, some).val = made /\ Created(g, some).g = h /\ IsMade(g.live, some, made)
    BY <1>1, <2>1
  <2>3. Build(g, kinds, at) = Unwound(Created(g, some))
    BY <1>2 DEF Build
  <2> HIDE DEF some, made
  <2>4. Range(made) \cap g.live = {} /\ Range(made) \subseteq Handles
    <3>1. Range(made) = {made[k] : k \in 1 .. Len(made)}
      BY <2>2, SMTT(40) DEF IsMade, Range
    <3> QED BY <2>2, <3>1 DEF IsMade
  <2>5. made = <<>> => h = g
    <3>1. made = <<>> => Range(made) = {}
      BY DEF Range
    <3> QED BY <3>1 DEF NativeOK, NativeSides
  <2>6. Release(h, Range(made)) = g
    <3>1. h \in NativeSides /\ h.live = g.live \cup Range(made)
          /\ h.mapped = g.mapped /\ h.pending = g.pending
          /\ h.misuse = g.misuse /\ h.engine = g.engine
      BY <2>4 DEF NativeOK, NativeSides
    <3>2. /\ h.live \ Range(made) = g.live
          /\ h.mapped \ Range(made) = g.mapped /\ h.pending \ Range(made) = g.pending
          /\ Range(made) \subseteq h.live
      BY <2>4, <3>1 DEF NativeOK
    <3>3. Release(h, Range(made)) \in NativeSides
      BY <3>1, <3>2 DEF NativeOK, NativeSides, Release
    <3> HIDE DEF h
    <3>4. /\ Release(h, Range(made)).live = g.live
          /\ Release(h, Range(made)).mapped = g.mapped
          /\ Release(h, Range(made)).pending = g.pending
          /\ Release(h, Range(made)).misuse = g.misuse
          /\ Release(h, Range(made)).engine = g.engine
      BY <3>1, <3>2 DEF NativeSides, Release, NativeOK
    <3> QED BY <3>3, <3>4 DEF NativeSides, NativeOK
  <2> QED BY <2>2, <2>3, <2>5, <2>6 DEF Unwound, ReleasedOnFailure
<1>3. ASSUME at \notin 1 .. Len(kinds) PROVE Built(g, kinds, Build(g, kinds, at))
  <2>1. Build(g, kinds, at) = Created(g, kinds)
    BY <1>3 DEF Build
  <2> QED BY <1>1, <2>1 DEF Built
<1> QED BY <1>2, <1>3

-----------------------------------------------------------------------------
(* Who owns the live handles.  The mesh entry is not counted to the rest of  *)
(* the engine: a draw takes it out, rebuilds it and puts it back.            *)

(* What the engine owns besides its mesh entry. *)
Rest(e) ==
    e.core \cup {e.texture, e.view, e.readback.buffer} \cup SamplerOwned(e.supersampler)
    \cup Range(e.white) \cup e.samplers

(* The objects the parts of an engine hold, told apart by what they are for. *)
SamplerShape(s) ==
    s # NoSampler =>
        /\ \A h \in s.handles : h[2] \in {"sampling", "params", "cells", "records"}
        /\ s.readback.buffer \in s.handles

(* The default white is a texture, its view and a sampler, or not made yet. *)
WhiteShape(w) ==
    w # <<>> =>
        /\ Len(w) = 3 /\ w[2][1] = "view"
        /\ \A k \in 1 .. 3 : w[k][2] = "white"

(* The objects of an engine are of the kind and the role of their place. *)
EngineShape(e) ==
    /\ e \in Engines
    /\ \A h \in e.core : h[2] = "engine"
    /\ e.texture[1] = "texture" /\ e.texture[2] = "target"
    /\ e.view[1] = "view" /\ e.view[2] = "target"
    /\ e.readback.buffer[1] = "buffer" /\ e.readback.buffer[2] = "readback"
    /\ SamplerShape(e.supersampler)
    /\ WhiteShape(e.white)
    /\ \A h \in e.samplers : h[2] = "map"

(* A readback is marked mapped only while its buffer is. *)
MapsAgree(e, mapped) ==
    /\ e.readback.mapped => e.readback.buffer \in mapped
    /\ e.supersampler # NoSampler /\ e.supersampler.readback.mapped =>
           e.supersampler.readback.buffer \in mapped

(* Every live handle belongs to the engine or is among those held, or it is  *)
(* lost and of a kind in lost.                                               *)
Tracked(g, held, lost) ==
    /\ NativeOK(g) /\ EngineShape(g.engine) /\ MapsAgree(g.engine, g.mapped)
    /\ Rest(g.engine) \subseteq g.live /\ held \subseteq g.live
    /\ Rest(g.engine) \cap held = {}
    /\ \A h \in g.live : h \in Rest(g.engine) \/ h \in held \/ h[1] \in lost

(* What an update of the live handles leaves alone. *)
SameButLive(g, h) == h.engine = g.engine /\ h.mapped = g.mapped /\ h.pending = g.pending

(* Reading live handles changes nothing. *)
LEMMA UseLive ==
    ASSUME NEW g, NativeOK(g), NEW X, X \subseteq g.live
    PROVE  Use(g, X) = g
  BY DEF Use, NativeOK, NativeSides

(* Releasing what is held. *)
LEMMA ReleaseHeld ==
    ASSUME NEW g, NEW held, NEW lost, Tracked(g, held, lost), NEW X, X \subseteq held
    PROVE  /\ Tracked(Release(g, X), held \ X, lost)
           /\ Release(g, X).engine = g.engine
           /\ Release(g, X).mapped = g.mapped \ X /\ Release(g, X).pending = g.pending \ X
<1> DEFINE h == Release(g, X)
<1>1. g \in NativeSides /\ X \subseteq g.live /\ ~g.misuse /\ IsFiniteSet(g.live)
  BY DEF Tracked, NativeOK
<1>2. /\ h \in NativeSides /\ h.live = g.live \ X /\ h.mapped = g.mapped \ X
      /\ h.pending = g.pending \ X /\ ~h.misuse /\ h.engine = g.engine
  BY <1>1 DEF Release, NativeSides
<1>3. NativeOK(h)
  <2>1. IsFiniteSet(h.live)
    BY <1>1, <1>2, FS_Subset
  <2> HIDE DEF h
  <2> QED BY <1>2, <2>1 DEF NativeOK, Tracked
<1> HIDE DEF h
<1>4. /\ g.engine.readback.buffer \in Rest(g.engine)
      /\ g.engine.supersampler # NoSampler =>
            g.engine.supersampler.readback.buffer \in Rest(g.engine)
  BY DEF Rest, Tracked, EngineShape, SamplerShape, SamplerOwned
<1>5. MapsAgree(h.engine, h.mapped)
  BY <1>2, <1>4 DEF MapsAgree, Tracked
<1>6. Tracked(h, held \ X, lost)
  BY <1>2, <1>3, <1>5 DEF Tracked
<1> QED BY <1>2, <1>6 DEF h

(* Losing what is held. *)
LEMMA LoseHeld ==
    ASSUME NEW g, NEW held, NEW lost, Tracked(g, held, lost), NEW kept, kept \subseteq held,
           \A h \in held : h \in kept \/ h[1] \in lost
    PROVE  Tracked(g, kept, lost)
  BY DEF Tracked

(* What a construction builds is held. *)
LEMMA HoldBuilt ==
    ASSUME NEW g, NEW held, NEW lost, Tracked(g, held, lost),
           NEW kinds, NEW r, Built(g, kinds, r)
    PROVE  /\ Tracked(r.g, held \cup Range(r.val), lost) /\ SameButLive(g, r.g)
           /\ Range(r.val) \cap g.live = {} /\ Range(r.val) \subseteq r.g.live
<1> DEFINE made == r.val
<1>1. made \in Seq(Handles) /\ \A k \in 1 .. Len(made) : made[k] \notin g.live
  BY DEF Built, IsMade
<1>2. Range(made) = {made[k] : k \in 1 .. Len(made)}
  BY <1>1 DEF Range
<1>3. Range(made) \cap g.live = {}
  BY <1>1, <1>2
<1>4. IsFiniteSet(Range(made)) /\ Range(made) \subseteq Handles
  BY <1>1, RangeFinite
<1> HIDE DEF made
<1>5. /\ r.g \in NativeSides /\ r.g.live = g.live \cup Range(made)
      /\ r.g.mapped = g.mapped /\ r.g.pending = g.pending /\ ~r.g.misuse
      /\ r.g.engine = g.engine
  BY <1>4 DEF Built, made, Tracked, NativeOK, NativeSides
<1>6. IsFiniteSet(r.g.live)
  BY <1>4, <1>5, FS_Union DEF Tracked, NativeOK
<1>7. NativeOK(r.g)
  BY <1>5, <1>6 DEF NativeOK, Tracked
<1>8. Tracked(r.g, held \cup Range(made), lost)
  BY <1>3, <1>5, <1>7 DEF Tracked
<1> QED BY <1>3, <1>5, <1>8 DEF made, SameButLive

(* The engine takes over what is held, or gives up what it owned. *)
LEMMA ExchangeHeld ==
    ASSUME NEW g, NEW held, NEW lost, Tracked(g, held, lost), NEW e, NEW kept,
           EngineShape(e), MapsAgree(e, g.mapped),
           Rest(e) \cup kept = Rest(g.engine) \cup held, Rest(e) \cap kept = {}
    PROVE  /\ Tracked([g EXCEPT !.engine = e], kept, lost)
           /\ [g EXCEPT !.engine = e].engine = e
           /\ [g EXCEPT !.engine = e].live = g.live
           /\ [g EXCEPT !.engine = e].mapped = g.mapped
           /\ [g EXCEPT !.engine = e].pending = g.pending
<1> DEFINE h == [g EXCEPT !.engine = e]
<1>1. g \in NativeSides /\ e \in Engines
  BY DEF Tracked, NativeOK, EngineShape
<1>2. /\ h \in NativeSides /\ h.live = g.live /\ h.mapped = g.mapped
      /\ h.pending = g.pending /\ h.misuse = g.misuse /\ h.engine = e
  BY <1>1 DEF NativeSides
<1> HIDE DEF h
<1>3. NativeOK(h)
  BY <1>2 DEF NativeOK, Tracked
<1>4. Tracked(h, kept, lost)
  BY <1>2, <1>3 DEF Tracked
<1> QED BY <1>2, <1>4 DEF h

-----------------------------------------------------------------------------
(* The supersampler. *)

(* The engine may be changed before or after a release. *)
LEMMA ReleaseCommutes ==
    ASSUME NEW g \in NativeSides, NEW X, NEW e \in Engines \cup {NoEngine}
    PROVE  [Release(g, X) EXCEPT !.engine = e] = Release([g EXCEPT !.engine = e], X)
  BY DEF Release, NativeSides

(* No call fails without a fault. *)
LEMMA FailsNone ==
    \A call : call # "none" => Fails(NoFault, call) = 0
  BY DEF Fails, NoFault

(* f is e but for the supersampler. *)
OtherSampler(e, f) == f = [e EXCEPT !.supersampler = f.supersampler]

(* h is g with no more buffers mapped or pending. *)
NoMoreMaps(g, h) == h.mapped \subseteq g.mapped /\ h.pending \subseteq g.pending

(* The parts of an engine are disjoint. *)
LEMMA SamplerApart ==
    ASSUME NEW e, EngineShape(e), NEW s, SamplerShape(s), s \in Supersamplers \cup {NoSampler}
    PROVE  /\ EngineShape([e EXCEPT !.supersampler = s])
           /\ [e EXCEPT !.supersampler = s].supersampler = s
           /\ Rest([e EXCEPT !.supersampler = NoSampler]) \cap SamplerOwned(s) = {}
           /\ Rest([e EXCEPT !.supersampler = s]) =
                 Rest([e EXCEPT !.supersampler = NoSampler]) \cup SamplerOwned(s)
<1>1. e \in Engines /\ WhiteShape(e.white)
  BY DEF EngineShape
<1>2. \A h \in Range(e.white) : h[2] = "white"
  BY <1>1 DEF WhiteShape, Range, Engines
<1> DEFINE f == [e EXCEPT !.supersampler = s]
           n == [e EXCEPT !.supersampler = NoSampler]
<1>3. /\ f \in Engines /\ f.supersampler = s /\ f.core = e.core /\ f.texture = e.texture
      /\ f.view = e.view /\ f.readback = e.readback /\ f.white = e.white
      /\ f.samplers = e.samplers
  BY <1>1 DEF Engines
<1>4. /\ n.supersampler = NoSampler /\ n.core = e.core /\ n.texture = e.texture
      /\ n.view = e.view /\ n.readback = e.readback /\ n.white = e.white
      /\ n.samplers = e.samplers
  BY <1>1 DEF Engines
<1> HIDE DEF f, n
<1>5. EngineShape(f)
  BY <1>3 DEF EngineShape
<1>6. Rest(f) = Rest(n) \cup SamplerOwned(s)
  BY <1>3, <1>4 DEF Rest, SamplerOwned
<1>7. \A h \in Rest(n) : h[2] \in {"engine", "target", "readback", "white", "map"}
  BY <1>2, <1>4 DEF Rest, EngineShape, SamplerOwned
<1>8. \A h \in SamplerOwned(s) : h[2] \in {"sampling", "params", "cells", "records"}
  BY DEF SamplerOwned, SamplerShape
<1>9. Rest(n) \cap SamplerOwned(s) = {}
  BY <1>7, <1>8
<1> QED BY <1>3, <1>5, <1>6, <1>9 DEF f, n

(* destroy_supersampler releases what the supersampler owns, and only that. *)
LEMMA DestroySampler ==
    ASSUME NEW g, NEW held, NEW lost, Tracked(g, held, lost)
    PROVE  /\ Tracked(destroy_supersampler(g), held, lost)
           /\ destroy_supersampler(g).engine = [g.engine EXCEPT !.supersampler = NoSampler]
           /\ NoMoreMaps(g, destroy_supersampler(g))
<1> DEFINE e == g.engine
           s == e.supersampler
           n == [e EXCEPT !.supersampler = NoSampler]
           d == destroy_supersampler(g)
<1>1. g \in NativeSides /\ EngineShape(e) /\ e \in Engines /\ MapsAgree(e, g.mapped)
  BY DEF Tracked, NativeOK, EngineShape
<1>2. s \in Supersamplers \cup {NoSampler} /\ SamplerShape(s)
  BY <1>1 DEF EngineShape, Engines
<1>3. e = [e EXCEPT !.supersampler = s]
  BY <1>1 DEF Engines
<1>4. CASE s = NoSampler
  <2>1. d = g
    BY <1>4 DEF destroy_supersampler
  <2>2. n = e
    BY <1>3, <1>4
  <2> QED BY <2>1, <2>2 DEF NoMoreMaps
<1>5. CASE s # NoSampler
  <2> DEFINE X == s.handles
             g1 == [g EXCEPT !.engine = n]
  <2>1. SamplerOwned(s) = X
    BY <1>5 DEF SamplerOwned
  <2>2. SamplerShape(NoSampler) /\ NoSampler \in Supersamplers \cup {NoSampler}
    BY DEF SamplerShape
  <2>3. EngineShape(n) /\ n.supersampler = NoSampler /\ n.readback = e.readback
    BY <1>1, <2>2, SamplerApart DEF Engines
  <2>4. Rest(n) \cap X = {} /\ Rest(e) = Rest(n) \cup X
    BY <1>1, <1>2, <1>3, <2>1, SamplerApart
  <2>5. d = Release(g1, X)
    <3>1. d = [Release(g, X) EXCEPT !.engine = n]
      BY <1>1, <1>5 DEF destroy_supersampler, Release, NativeSides
    <3>2. n \in Engines
      BY <2>3 DEF EngineShape
    <3> HIDE DEF n, X
    <3> QED BY <1>1, <3>1, <3>2, ReleaseCommutes
  <2>6. MapsAgree(n, g.mapped)
    BY <1>1, <2>3 DEF MapsAgree
  <2> HIDE DEF X, n
  <2>7. /\ Rest(n) \cup (held \cup X) = Rest(e) \cup held /\ Rest(n) \cap (held \cup X) = {}
        /\ (held \cup X) \ X = held
    BY <2>4 DEF Tracked
  <2>8. /\ Tracked(g1, held \cup X, lost) /\ g1.engine = n
        /\ g1.mapped = g.mapped /\ g1.pending = g.pending
    BY <2>3, <2>6, <2>7, ExchangeHeld
  <2> HIDE DEF g1
  <2>9. /\ Tracked(Release(g1, X), held, lost) /\ Release(g1, X).engine = n
        /\ NoMoreMaps(g1, Release(g1, X))
    BY <2>7, <2>8, ReleaseHeld DEF NoMoreMaps
  <2> QED BY <2>5, <2>8, <2>9 DEF NoMoreMaps, n
<1> QED BY <1>4, <1>5

(* The calls that build a supersampler. *)
LEMMA SamplerCallsFacts ==
    /\ SamplerCalls \in Seq(Calls) /\ Len(SamplerCalls) = 8
    /\ \A k \in 1 .. 8 : SamplerCalls[k][2] \in {"sampling", "params", "cells", "records"}
<1> USE DEF SamplerCalls, Calls, Kinds, Roles, device_create_shader_module,
         device_create_supersampling_bind_group_layout, device_create_pipeline_layout,
         device_create_compute_pipeline, device_create_buffer, device_create_compute_bind_group
<1>1. Len(SamplerCalls) = 8
  OBVIOUS
<1>2. /\ SamplerCalls[1] = <<"shader", "sampling">> /\ SamplerCalls[2] = <<"layout", "sampling">>
      /\ SamplerCalls[3] = <<"pipeline_layout", "sampling">>
      /\ SamplerCalls[4] = <<"compute_pipeline", "sampling">>
  OBVIOUS
<1>3. /\ SamplerCalls[5] = <<"buffer", "params">> /\ SamplerCalls[6] = <<"buffer", "cells">>
      /\ SamplerCalls[7] = <<"buffer", "records">> /\ SamplerCalls[8] = <<"group", "sampling">>
  OBVIOUS
<1>4. /\ <<"shader", "sampling">> \in Calls /\ <<"layout", "sampling">> \in Calls
      /\ <<"pipeline_layout", "sampling">> \in Calls
      /\ <<"compute_pipeline", "sampling">> \in Calls
      /\ <<"buffer", "params">> \in Calls /\ <<"buffer", "cells">> \in Calls
      /\ <<"buffer", "records">> \in Calls /\ <<"group", "sampling">> \in Calls
  OBVIOUS
<1> HIDE DEF Calls, Kinds, Roles
<1>5. SamplerCalls \in Seq(Calls)
  <2> DEFINE a == <<"shader", "sampling">>
             b == <<"layout", "sampling">>
             c == <<"pipeline_layout", "sampling">>
             d == <<"compute_pipeline", "sampling">>
             e == <<"buffer", "params">>
             f == <<"buffer", "cells">>
             g == <<"buffer", "records">>
             h == <<"group", "sampling">>
  <2>1. SamplerCalls = <<a, b, c, d, e, f, g, h>>
    OBVIOUS
  <2> HIDE DEF a, b, c, d, e, f, g, h
  <2>2. a \in Calls /\ b \in Calls /\ c \in Calls /\ d \in Calls /\ e \in Calls
        /\ f \in Calls /\ g \in Calls /\ h \in Calls
    BY <1>4 DEF a, b, c, d, e, f, g, h
  <2>3. <<a, b, c, d, e, f, g, h>> \in Seq(Calls)
    BY <2>2
  <2> QED BY <2>1, <2>3
<1> HIDE DEF SamplerCalls
<1>6. \A k \in 1 .. 8 : SamplerCalls[k][2] \in {"sampling", "params", "cells", "records"}
  <2>1. \A k \in 1 .. 8 : k \in {1, 2, 3, 4} \/ k \in {5, 6, 7, 8}
    OBVIOUS
  <2>2. \A k \in {1, 2, 3, 4} : SamplerCalls[k][2] \in {"sampling", "params", "cells", "records"}
    BY <1>2
  <2>3. \A k \in {5, 6, 7, 8} : SamplerCalls[k][2] \in {"sampling", "params", "cells", "records"}
    BY <1>3
  <2> QED BY <2>1, <2>2, <2>3
<1> QED BY <1>1, <1>5, <1>6

(* A supersampler is built for the engine as it is, or nothing changes. *)
LEMMA BuildSampler ==
    ASSUME NEW g, NEW held, NEW lost, Tracked(g, held, lost), NEW fault,
           g.engine.supersampler = NoSampler
    PROVE  LET r == BuildSupersampler(g, fault)
           IN  /\ Tracked(r.g, held, lost) /\ NoMoreMaps(g, r.g)
               /\ OtherSampler(g.engine, r.g.engine)
               /\ fault = NoFault => r.ok
               /\ r.ok => SupersamplerFits(r.g.engine)
                          /\ r.g.engine.supersampler.view = g.engine.view
<1> DEFINE e == g.engine
           r == BuildSupersampler(g, fault)
           b == Build(g, SamplerCalls, Fails(fault, "supersampler"))
<1>1. NativeOK(g) /\ EngineShape(e) /\ e \in Engines /\ MapsAgree(e, g.mapped)
  BY DEF Tracked, EngineShape
<1>2. Use(g, {e.view}) = g
  <2>1. e.view \in g.live
    BY DEF Tracked, Rest
  <2> QED BY <1>1, <2>1, UseLive
<1>3. r = IF b.ok THEN Done([b.g EXCEPT !.engine.supersampler = NewSupersampler(b.g.engine, b.val)])
          ELSE b
  BY <1>2 DEF BuildSupersampler, Then
<1>4. fault = NoFault => Fails(fault, "supersampler") \notin 1 .. Len(SamplerCalls)
  BY FailsNone, SamplerCallsFacts
<1>5. CASE Fails(fault, "supersampler") \in 1 .. Len(SamplerCalls)
  <2>1. b = Failed(g)
    BY <1>1, <1>5, SamplerCallsFacts, BuildResult
  <2>2. r.g = g /\ ~r.ok
    BY <1>3, <2>1 DEF Failed, Result
  <2>3. OtherSampler(e, e)
    BY <1>1 DEF OtherSampler, Engines
  <2> QED BY <1>4, <1>5, <2>2, <2>3 DEF NoMoreMaps
<1>6. CASE Fails(fault, "supersampler") \notin 1 .. Len(SamplerCalls)
  <2>1. Built(g, SamplerCalls, b)
    BY <1>1, <1>6, SamplerCallsFacts, BuildResult
  <2> DEFINE made == b.val
             s == NewSupersampler(e, made)
             f == [e EXCEPT !.supersampler = s]
  <2> HIDE DEF b
  <2>2. /\ Tracked(b.g, held \cup Range(made), lost) /\ SameButLive(g, b.g)
        /\ Range(made) \cap g.live = {} /\ Range(made) \subseteq b.g.live
    BY <2>1, HoldBuilt
  <2>3. /\ made \in Seq(Handles) /\ Len(made) = 8 /\ b.ok
        /\ \A k \in 1 .. 8 : made[k][2] \in {"sampling", "params", "cells", "records"}
    BY <2>1, SamplerCallsFacts DEF Built, IsMade
  <2>4. /\ Range(made) \subseteq Handles /\ made[7] \in Handles /\ made[7] \in Range(made)
        /\ \A h \in Range(made) : h[2] \in {"sampling", "params", "cells", "records"}
    <3> HIDE DEF made
    <3>1. made \in Seq(Handles) /\ Len(made) = 8
      BY <2>3
    <3>2. DOMAIN made = 1 .. 8 /\ 7 \in 1 .. 8
      BY <3>1
    <3>3. \A k \in 1 .. 8 : made[k] \in Handles
      BY <3>1, ElementOfSeq
    <3>4. /\ \A k \in 1 .. 8 : made[k] \in Range(made)
          /\ \A h \in Range(made) : \E k \in 1 .. 8 : h = made[k]
      BY <3>2, Zenon DEF Range
    <3> QED BY <2>3, <3>2, <3>3, <3>4
  <2>5. r = Done([b.g EXCEPT !.engine = f])
    <3>1. b.g.engine = e
      BY <2>2 DEF SameButLive
    <3>2. [b.g EXCEPT !.engine.supersampler = s] = [b.g EXCEPT !.engine = f]
      BY <3>1
    <3> QED BY <1>3, <2>3, <3>1, <3>2
  <2> HIDE DEF made
  <2>6. CellsOf(e.size) \in Nat /\ e.view \in Handles /\ e.algorithm \in Algorithms
    BY <1>1 DEF Engines, CellsOf
  <2>7. s \in Supersamplers
    BY <2>4, <2>6 DEF NewSupersampler, Supersamplers, NewReadback, Readbacks
  <2>8. /\ s.handles = Range(made) /\ s.readback.buffer = made[7] /\ s.readback.mapped = FALSE
        /\ s.view = e.view /\ s.cells = CellsOf(e.size) /\ s.algorithm = e.algorithm
    BY DEF NewSupersampler, NewReadback
  <2> HIDE DEF s
  <2>9. SamplerShape(s) /\ s # NoSampler /\ SamplerOwned(s) = Range(made)
    BY <2>4, <2>7, <2>8, GpuConstants DEF SamplerShape, SamplerOwned
  <2>10. EngineShape(f) /\ f.supersampler = s /\ Rest(f) = Rest(e) \cup Range(made)
    <3>1. e = [e EXCEPT !.supersampler = NoSampler]
      BY <1>1 DEF Engines
    <3> QED BY <1>1, <2>7, <2>9, <3>1, SamplerApart
  <2>11. /\ f.readback = e.readback /\ f.size = e.size /\ f.algorithm = e.algorithm
         /\ f.view = e.view
    BY <1>1 DEF Engines
  <2>12. MapsAgree(f, b.g.mapped)
    BY <1>1, <2>2, <2>8, <2>10, <2>11 DEF MapsAgree, SameButLive
  <2> HIDE DEF f
  <2>13. /\ Rest(f) \cup held = Rest(b.g.engine) \cup (held \cup Range(made))
         /\ Rest(f) \cap held = {}
    <3>1. Rest(e) \cap held = {} /\ held \subseteq g.live
      BY DEF Tracked
    <3> QED BY <2>2, <2>10, <3>1 DEF SameButLive
  <2>14. /\ Tracked([b.g EXCEPT !.engine = f], held, lost)
         /\ [b.g EXCEPT !.engine = f].engine = f
         /\ [b.g EXCEPT !.engine = f].mapped = b.g.mapped
         /\ [b.g EXCEPT !.engine = f].pending = b.g.pending
    BY <2>2, <2>10, <2>12, <2>13, ExchangeHeld
  <2>15. r.g = [b.g EXCEPT !.engine = f] /\ r.ok
    BY <2>5 DEF Done, Return, Result
  <2>16. OtherSampler(e, f)
    BY <2>10 DEF OtherSampler, f
  <2>17. SupersamplerFits(f) /\ f.supersampler.view = e.view
    BY <2>8, <2>9, <2>10, <2>11 DEF SupersamplerFits
  <2> QED BY <2>2, <2>14, <2>15, <2>16, <2>17 DEF NoMoreMaps, SameButLive
<1> QED BY <1>5, <1>6

(* ensure_supersampler replaces a supersampler that does not fit. *)
Ensured(g, r, fault) ==
    /\ NoMoreMaps(g, r.g) /\ OtherSampler(g.engine, r.g.engine)
    /\ fault = NoFault => r.ok
    /\ g.engine.super_sample # "gpu" => r.g.engine = g.engine
    /\ r.ok /\ g.engine.super_sample = "gpu" =>
           /\ SupersamplerFits(r.g.engine)
           /\ \/ r.g.engine = g.engine
              \/ r.g.engine.supersampler.view = g.engine.view

(* ensure_supersampler keeps the account, whichever of its calls fails. *)
LEMMA EnsureSampler ==
    ASSUME NEW g, NEW held, NEW lost, Tracked(g, held, lost), NEW fault
    PROVE  /\ Tracked(ensure_supersampler(g, fault).g, held, lost)
           /\ Ensured(g, ensure_supersampler(g, fault), fault)
<1> DEFINE e == g.engine
           r == ensure_supersampler(g, fault)
<1>1. e \in Engines
  BY DEF Tracked, EngineShape
<1>2. OtherSampler(e, e)
  BY <1>1 DEF OtherSampler, Engines
<1>3. CASE e.super_sample # "gpu" \/ SupersamplerFits(e)
  <2>1. r.g = g /\ r.ok
    BY <1>3 DEF ensure_supersampler, Done, Return, Result
  <2> QED BY <1>2, <1>3, <2>1 DEF Ensured, NoMoreMaps
<1>4. CASE ~(e.super_sample # "gpu" \/ SupersamplerFits(e))
  <2> DEFINE d == destroy_supersampler(g)
             n == [e EXCEPT !.supersampler = NoSampler]
  <2>1. Tracked(d, held, lost) /\ d.engine = n /\ NoMoreMaps(g, d)
    BY DestroySampler
  <2>2. r = BuildSupersampler(d, fault)
    BY <1>4 DEF ensure_supersampler
  <2>3. n.supersampler = NoSampler /\ n.view = e.view
    BY <1>1 DEF Engines
  <2> HIDE DEF d, n
  <2>4. /\ Tracked(r.g, held, lost) /\ NoMoreMaps(d, r.g) /\ OtherSampler(d.engine, r.g.engine)
        /\ fault = NoFault => r.ok
        /\ r.ok => SupersamplerFits(r.g.engine)
                   /\ r.g.engine.supersampler.view = d.engine.view
    BY <2>1, <2>2, <2>3, BuildSampler
  <2> HIDE DEF r
  <2>5. OtherSampler(e, r.g.engine)
    <3> DEFINE s == r.g.engine.supersampler
    <3>1. [n EXCEPT !.supersampler = s] = [e EXCEPT !.supersampler = s]
      BY <1>1 DEF n, Engines
    <3> QED BY <2>1, <2>4, <3>1 DEF OtherSampler
  <2>6. Ensured(g, r, fault)
    BY <1>4, <2>1, <2>3, <2>4, <2>5 DEF Ensured, NoMoreMaps
  <2> QED BY <2>4, <2>6 DEF r
<1> QED BY <1>3, <1>4

(* f is an engine with the parts of e. *)
SameParts(e, f) ==
    /\ f \in Engines /\ f.core = e.core /\ f.texture = e.texture /\ f.view = e.view
    /\ f.readback = e.readback /\ f.supersampler = e.supersampler /\ f.white = e.white
    /\ f.samplers = e.samplers

(* What the parts of the engine do not tell may be changed at will. *)
LEMMA Reconfigure ==
    ASSUME NEW g, NEW held, NEW lost, Tracked(g, held, lost), NEW f, SameParts(g.engine, f)
    PROVE  /\ Tracked([g EXCEPT !.engine = f], held, lost)
           /\ [g EXCEPT !.engine = f].engine = f
           /\ [g EXCEPT !.engine = f].live = g.live
           /\ NoMoreMaps(g, [g EXCEPT !.engine = f])
<1>1. EngineShape(f) /\ MapsAgree(f, g.mapped)
  BY DEF SameParts, Tracked, EngineShape, MapsAgree
<1>2. Rest(f) = Rest(g.engine)
  BY DEF SameParts, Rest
<1>3. Rest(f) \cup held = Rest(g.engine) \cup held /\ Rest(f) \cap held = {}
  BY <1>2 DEF Tracked
<1> QED BY <1>1, <1>3, ExchangeHeld DEF NoMoreMaps

(* The engine is in the given mode and its supersampler is the one of that mode. *)
InMode(e, mode) ==
    /\ e.super_sample = mode
    /\ mode = "gpu" => SupersamplerFits(e) /\ e.supersampler.view = e.view
    /\ mode # "gpu" => e.supersampler = NoSampler

(* engine_set_super_sample changes the mode and the supersampler. *)
LEMMA SetMode ==
    ASSUME NEW g, NEW held, NEW lost, Tracked(g, held, lost), NEW mode \in Modes, NEW fault
    PROVE  LET r == engine_set_super_sample(g, mode, fault)
           IN  /\ Tracked(r.g, held, lost) /\ NoMoreMaps(g, r.g)
               /\ OtherSampler([g.engine EXCEPT !.super_sample = mode], r.g.engine)
               /\ fault = NoFault => r.ok
               /\ r.ok /\ g.engine.supersampler = NoSampler => InMode(r.g.engine, mode)
               /\ mode # "gpu" => InMode(r.g.engine, mode)
<1> DEFINE e == g.engine
           f == [e EXCEPT !.super_sample = mode]
           h == [g EXCEPT !.engine = f]
           r == engine_set_super_sample(g, mode, fault)
<1>1. g \in NativeSides /\ e \in Engines
  BY DEF Tracked, NativeOK, EngineShape
<1>2. SameParts(e, f) /\ f.super_sample = mode /\ f \in Engines
  BY <1>1 DEF SameParts, Engines
<1>3. [g EXCEPT !.engine.super_sample = mode] = h
  BY <1>1 DEF NativeSides
<1> HIDE DEF f
<1>4. Tracked(h, held, lost) /\ h.engine = f /\ NoMoreMaps(g, h)
  BY <1>2, Reconfigure
<1> HIDE DEF h
<1>5. CASE mode = "gpu"
  <2>1. r = ensure_supersampler(h, fault)
    BY <1>3, <1>5 DEF engine_set_super_sample
  <2>2. Tracked(r.g, held, lost) /\ Ensured(h, r, fault)
    BY <1>4, <2>1, EnsureSampler
  <2> HIDE DEF r
  <2>3. OtherSampler(f, r.g.engine)
    BY <1>4, <2>2 DEF Ensured
  <2>4. r.g.engine.super_sample = mode /\ r.g.engine.view = f.view
    BY <1>2, <2>3 DEF OtherSampler, Engines
  <2>5. r.ok /\ e.supersampler = NoSampler => InMode(r.g.engine, mode)
    BY <1>2, <1>4, <1>5, <2>2, <2>4 DEF Ensured, InMode, SupersamplerFits, SameParts
  <2>6. NoMoreMaps(g, r.g) /\ (fault = NoFault => r.ok)
    BY <1>4, <2>2 DEF Ensured, NoMoreMaps
  <2> QED BY <1>5, <2>2, <2>3, <2>5, <2>6 DEF r, f
<1>6. CASE mode # "gpu"
  <2> DEFINE d == destroy_supersampler(h)
  <2>1. r.g = d /\ r.ok
    BY <1>3, <1>6 DEF engine_set_super_sample, Done, Return, Result
  <2>2. /\ Tracked(d, held, lost) /\ d.engine = [f EXCEPT !.supersampler = NoSampler]
        /\ NoMoreMaps(h, d)
    BY <1>4, DestroySampler
  <2> HIDE DEF d
  <2>3. d.engine.super_sample = mode /\ d.engine.supersampler = NoSampler
    BY <1>2, <2>2 DEF Engines
  <2>4. OtherSampler(f, d.engine) /\ InMode(d.engine, mode)
    BY <1>6, <2>2, <2>3 DEF OtherSampler, InMode
  <2>5. NoMoreMaps(g, d)
    BY <1>4, <2>2 DEF NoMoreMaps
  <2> HIDE DEF r
  <2> QED BY <2>1, <2>2, <2>4, <2>5 DEF r, f
<1> QED BY <1>5, <1>6

(* engine_set_algorithm changes the algorithm and the supersampler. *)
LEMMA SetAlgorithm ==
    ASSUME NEW g, NEW held, NEW lost, Tracked(g, held, lost), NEW a \in Algorithms, NEW fault
    PROVE  LET r == engine_set_algorithm(g, a, fault)
           IN  /\ Tracked(r.g, held, lost) /\ NoMoreMaps(g, r.g)
               /\ OtherSampler([g.engine EXCEPT !.algorithm = a], r.g.engine)
               /\ fault = NoFault => r.ok
               /\ \A mode : r.ok /\ InMode(g.engine, mode) => InMode(r.g.engine, mode)
<1> DEFINE e == g.engine
           f == [e EXCEPT !.algorithm = a]
           h == [g EXCEPT !.engine = f]
           r == engine_set_algorithm(g, a, fault)
<1>1. g \in NativeSides /\ e \in Engines
  BY DEF Tracked, NativeOK, EngineShape
<1>2. SameParts(e, f) /\ f.super_sample = e.super_sample /\ f \in Engines
  BY <1>1 DEF SameParts, Engines
<1>3. [g EXCEPT !.engine.algorithm = a] = h
  BY <1>1 DEF NativeSides
<1> HIDE DEF f
<1>4. Tracked(h, held, lost) /\ h.engine = f /\ NoMoreMaps(g, h)
  BY <1>2, Reconfigure
<1> HIDE DEF h
<1>5. r = ensure_supersampler(h, fault)
  BY <1>3 DEF engine_set_algorithm
<1>6. Tracked(r.g, held, lost) /\ Ensured(h, r, fault)
  BY <1>4, <1>5, EnsureSampler
<1> HIDE DEF r
<1>7. OtherSampler(f, r.g.engine)
  BY <1>4, <1>6 DEF Ensured
<1>8. r.g.engine.super_sample = e.super_sample /\ r.g.engine.view = f.view
  BY <1>2, <1>7 DEF OtherSampler, Engines
<1>9. ASSUME NEW mode, r.ok, InMode(e, mode) PROVE InMode(r.g.engine, mode)
  <2>1. CASE mode = "gpu"
    BY <1>2, <1>4, <1>6, <1>8, <1>9, <2>1 DEF Ensured, InMode, SupersamplerFits, SameParts
  <2>2. CASE mode # "gpu"
    BY <1>2, <1>4, <1>6, <1>8, <1>9, <2>2 DEF Ensured, InMode, SameParts
  <2> QED BY <2>1, <2>2
<1>10. NoMoreMaps(g, r.g) /\ (fault = NoFault => r.ok)
  BY <1>4, <1>6 DEF Ensured, NoMoreMaps
<1> QED BY <1>6, <1>7, <1>9, <1>10 DEF r, f

-----------------------------------------------------------------------------
(* Resizing. *)

(* The kinds of what a failed operation may lose. *)
LossesAllowed(fault, lost) ==
    "view" \in lost /\ (fault # NoFault => {"texture", "buffer"} \subseteq lost)

(* The calls that make a texture with its view, and a readback. *)
LEMMA TargetCallsFacts ==
    /\ \A role \in Roles : /\ TextureCalls(role) \in Seq(Calls) /\ Len(TextureCalls(role)) = 2
                           /\ TextureCalls(role)[1] = <<"texture", role>>
                           /\ TextureCalls(role)[2] = <<"view", role>>
    /\ ReadbackCalls \in Seq(Calls) /\ Len(ReadbackCalls) = 1
    /\ ReadbackCalls[1] = <<"buffer", "readback">>
<1>1. \A role \in Roles : <<"texture", role>> \in Calls /\ <<"view", role>> \in Calls
  BY DEF Calls, Kinds
<1>2. <<"buffer", "readback">> \in Calls
  BY DEF Calls, Kinds, Roles
<1> QED BY <1>1, <1>2 DEF TextureCalls, device_create_texture, texture_create_view,
                          ReadbackCalls, device_create_buffer

(* The elements of short sequences. *)
LEMMA ShortRanges ==
    ASSUME NEW S, NEW s \in Seq(S)
    PROVE  /\ Len(s) = 1 => Range(s) = {s[1]} /\ s[1] \in S
           /\ Len(s) = 2 => Range(s) = {s[1], s[2]} /\ s[1] \in S /\ s[2] \in S
           /\ Len(s) = 3 => Range(s) = {s[1], s[2], s[3]}
<1>1. Range(s) = {s[k] : k \in 1 .. Len(s)}
  BY DEF Range
<1>2. CASE Len(s) = 1
  <2>1. \A k : k \in 1 .. 1 <=> k = 1
    OBVIOUS
  <2> QED BY <1>1, <1>2, <2>1
<1>3. CASE Len(s) = 2
  <2>1. \A k : k \in 1 .. 2 <=> k = 1 \/ k = 2
    OBVIOUS
  <2> QED BY <1>1, <1>3, <2>1
<1>4. CASE Len(s) = 3
  <2>1. \A k : k \in 1 .. 3 <=> k = 1 \/ k = 2 \/ k = 3
    OBVIOUS
  <2> QED BY <1>1, <1>4, <2>1
<1> QED BY <1>2, <1>3, <1>4

(* An engine drawn into a new target and read through a new readback. *)
Retargeted(e, texture, view, buffer, size) ==
    [e EXCEPT !.texture = texture, !.view = view, !.readback = NewReadback(buffer),
              !.size = size]

(* f owns new in the place of old. *)
Exchanges(e, f, old, new) ==
    \E rest : /\ Rest(e) = rest \cup old /\ rest \cap old = {}
              /\ Rest(f) = rest \cup new

(* A new render target takes the place of the old one and of nothing else. *)
LEMMA TargetApart ==
    ASSUME NEW e, EngineShape(e), NEW texture \in Handles, NEW view \in Handles,
           NEW buffer \in Handles, NEW size \in Nat,
           texture[1] = "texture", texture[2] = "target", view[1] = "view", view[2] = "target",
           buffer[1] = "buffer", buffer[2] = "readback"
    PROVE  LET f == Retargeted(e, texture, view, buffer, size)
               old == {e.readback.buffer, e.view, e.texture}
           IN  /\ EngineShape(f)
               /\ f.texture = texture /\ f.view = view /\ f.readback = NewReadback(buffer)
               /\ f.size = size /\ f.mesh = e.mesh /\ f.super_sample = e.super_sample
               /\ f.algorithm = e.algorithm /\ f.supersampler = e.supersampler
               /\ Exchanges(e, f, old, {texture, view, buffer})
<1> DEFINE f == Retargeted(e, texture, view, buffer, size)
           old == {e.readback.buffer, e.view, e.texture}
           rest == e.core \cup SamplerOwned(e.supersampler) \cup Range(e.white) \cup e.samplers
<1>1. e \in Engines /\ WhiteShape(e.white)
  BY DEF EngineShape
<1>2. NewReadback(buffer) \in Readbacks /\ NewReadback(buffer).buffer = buffer
  BY DEF NewReadback, Readbacks
<1>3. /\ f \in Engines /\ f.texture = texture /\ f.view = view
      /\ f.readback = NewReadback(buffer) /\ f.core = e.core
      /\ f.supersampler = e.supersampler /\ f.white = e.white /\ f.samplers = e.samplers
  BY <1>1, <1>2 DEF Retargeted, Engines
<1>4. /\ f.size = size /\ f.mesh = e.mesh /\ f.super_sample = e.super_sample
      /\ f.algorithm = e.algorithm
  BY <1>1 DEF Retargeted, Engines
<1> HIDE DEF f
<1>5. EngineShape(f)
  BY <1>2, <1>3 DEF EngineShape
<1>6. \A h \in Range(e.white) : h[2] = "white"
  BY <1>1 DEF WhiteShape, Range, Engines
<1>7. \A h \in SamplerOwned(e.supersampler) : h[2] \in {"sampling", "params", "cells", "records"}
  BY DEF SamplerOwned, SamplerShape, EngineShape
<1>8. \A h \in rest : h[2] \notin {"target", "readback"}
  BY <1>6, <1>7 DEF EngineShape
<1>9. \A h \in old : h[2] \in {"target", "readback"}
  BY DEF EngineShape
<1>10. rest \cap old = {}
  BY <1>8, <1>9
<1>11. Rest(e) = rest \cup old /\ Rest(f) = rest \cup {texture, view, buffer}
  BY <1>2, <1>3 DEF Rest
<1> HIDE DEF rest, old
<1>12. Exchanges(e, f, old, {texture, view, buffer})
  BY <1>10, <1>11 DEF Exchanges
<1> QED BY <1>3, <1>4, <1>5, <1>12 DEF f, old

(* The mesh and the configuration of the engine stay. *)
SameConfig(e, f) ==
    f.mesh = e.mesh /\ f.super_sample = e.super_sample /\ f.algorithm = e.algorithm

(* r is what a resize left of g. *)
Resized(g, r, size, fault) ==
    /\ NoMoreMaps(g, r.g) /\ SameConfig(g.engine, r.g.engine)
    /\ fault = NoFault => r.ok
    /\ r.ok => /\ r.g.engine.size = size
               /\ g.engine.super_sample # "gpu" =>
                      r.g.engine.supersampler = g.engine.supersampler
               /\ g.engine.super_sample = "gpu" /\ g.engine.supersampler # NoSampler
                  /\ g.engine.supersampler.cells # CellsOf(size) => InMode(r.g.engine, "gpu")

(* resize after its target is built: a failed conversion releases the new target. *)
LEMMA SwapResult ==
    ASSUME NEW g, NEW held, NEW lost, Tracked(g, held, lost), NEW size \in Nat, NEW fault,
           LossesAllowed(fault, lost),
           NEW t, Built(g, TextureCalls("target"), t), NEW b,
           Built(t.g, ReadbackCalls, b)
    PROVE  LET r == SwapTarget(b, g.engine, t.val, size, fault)
           IN  Tracked(r.g, held, lost) /\ Resized(g, r, size, fault)
<1> DEFINE e == g.engine
           old == {e.readback.buffer, e.view, e.texture}
           new == {t.val[1], t.val[2], b.val[1]}
           f == Retargeted(e, t.val[1], t.val[2], b.val[1], size)
           k == [b.g EXCEPT !.engine = f]
           s == ensure_supersampler(k, fault)
           r == SwapTarget(b, e, t.val, size, fault)
<1>1. g \in NativeSides /\ EngineShape(e) /\ MapsAgree(e, g.mapped)
  BY DEF Tracked, NativeOK
<1>2. /\ t.val \in Seq(Handles) /\ Len(t.val) = 2
      /\ t.val[1][1] = "texture" /\ t.val[1][2] = "target"
      /\ t.val[2][1] = "view" /\ t.val[2][2] = "target"
  <2>1. "target" \in Roles
    BY DEF Roles
  <2> QED BY <2>1, TargetCallsFacts, SMTT(40) DEF Built, IsMade
<1>3. /\ b.val \in Seq(Handles) /\ Len(b.val) = 1 /\ b.ok
      /\ b.val[1][1] = "buffer" /\ b.val[1][2] = "readback"
  BY TargetCallsFacts DEF Built, IsMade
<1>4. /\ Range(t.val) = {t.val[1], t.val[2]} /\ t.val[1] \in Handles /\ t.val[2] \in Handles
      /\ Range(b.val) = {b.val[1]} /\ b.val[1] \in Handles
  BY <1>2, <1>3, ShortRanges
<1>5. /\ Tracked(b.g, (held \cup Range(t.val)) \cup Range(b.val), lost)
      /\ SameButLive(g, b.g) /\ Range(t.val) \cap g.live = {} /\ Range(b.val) \cap g.live = {}
  <2>1. /\ Tracked(t.g, held \cup Range(t.val), lost) /\ SameButLive(g, t.g)
        /\ Range(t.val) \cap g.live = {}
    BY HoldBuilt
  <2>2. g.live \subseteq t.g.live
    BY <1>1 DEF Built, NativeSides
  <2>3. /\ Tracked(b.g, (held \cup Range(t.val)) \cup Range(b.val), lost)
        /\ SameButLive(t.g, b.g) /\ Range(b.val) \cap t.g.live = {}
    BY <2>1, HoldBuilt
  <2> QED BY <2>1, <2>2, <2>3 DEF SameButLive
<1>6. /\ EngineShape(f)
      /\ f.texture = t.val[1] /\ f.view = t.val[2] /\ f.readback = NewReadback(b.val[1])
      /\ f.size = size /\ SameConfig(e, f) /\ f.supersampler = e.supersampler
      /\ Exchanges(e, f, old, new)
  <2> DEFINE texture == t.val[1]
             view == t.val[2]
             buffer == b.val[1]
             f1 == Retargeted(e, texture, view, buffer, size)
             new1 == {texture, view, buffer}
  <2>1. /\ texture \in Handles /\ view \in Handles /\ buffer \in Handles
        /\ texture[1] = "texture" /\ texture[2] = "target"
        /\ view[1] = "view" /\ view[2] = "target"
        /\ buffer[1] = "buffer" /\ buffer[2] = "readback"
    BY <1>2, <1>3, <1>4
  <2> HIDE DEF texture, view, buffer
  <2>2. /\ EngineShape(f1)
        /\ f1.texture = texture /\ f1.view = view /\ f1.readback = NewReadback(buffer)
        /\ f1.size = size /\ SameConfig(e, f1) /\ f1.supersampler = e.supersampler
        /\ Exchanges(e, f1, old, new1)
    <3> HIDE DEF e
    <3>1. /\ EngineShape(f1)
          /\ f1.texture = texture /\ f1.view = view /\ f1.readback = NewReadback(buffer)
          /\ f1.size = size /\ f1.mesh = e.mesh /\ f1.super_sample = e.super_sample
          /\ f1.algorithm = e.algorithm /\ f1.supersampler = e.supersampler
          /\ Exchanges(e, f1, old, new1)
      BY <1>1, <2>1, TargetApart
    <3> QED BY <3>1 DEF SameConfig
  <2> QED BY <2>2 DEF texture, view, buffer
<1> HIDE DEF f
<1>7. /\ Rest(f) \cup (held \cup old) = Rest(e) \cup (held \cup new)
      /\ Rest(f) \cap (held \cup old) = {} /\ (held \cup old) \ old = held
  <2>1. PICK rest : /\ Rest(e) = rest \cup old /\ rest \cap old = {}
                    /\ Rest(f) = rest \cup new
    BY <1>6 DEF Exchanges
  <2>2. Rest(e) \subseteq g.live /\ held \subseteq g.live /\ Rest(e) \cap held = {}
    BY DEF Tracked
  <2>3. new \cap g.live = {}
    BY <1>4, <1>5
  <2> HIDE DEF old, new
  <2> QED BY <2>1, <2>2, <2>3
<1>8. (held \cup Range(t.val)) \cup Range(b.val) = held \cup new
  BY <1>4
<1>9. MapsAgree(f, b.g.mapped)
  BY <1>1, <1>5, <1>6 DEF MapsAgree, SameButLive, NewReadback
<1>10. /\ Tracked(k, held \cup old, lost) /\ k.engine = f /\ k.mapped = g.mapped
       /\ k.pending = g.pending
  <2> HIDE DEF old, new
  <2>1. b.g.engine = e /\ b.g.mapped = g.mapped /\ b.g.pending = g.pending
    BY <1>5 DEF SameButLive
  <2>2. Tracked(b.g, held \cup new, lost)
    BY <1>5, <1>8
  <2> QED BY <1>6, <1>7, <1>9, <2>1, <2>2, ExchangeHeld
<1>11. [b.g EXCEPT !.engine.texture = t.val[1], !.engine.view = t.val[2],
                   !.engine.readback = NewReadback(b.val[1]), !.engine.size = size] = k
  <2>1. b.g.engine = e /\ b.g \in NativeSides /\ e \in Engines
    BY <1>1, <1>5 DEF SameButLive, Tracked, NativeOK, EngineShape
  <2> QED BY <2>1 DEF NativeSides, Engines, f, Retargeted
<1>12. r = IF s.ok THEN Done(Release(s.g, old)) ELSE s
  BY <1>3, <1>11 DEF SwapTarget, Then
<1> HIDE DEF k, r
<1>14. Tracked(s.g, held \cup old, lost) /\ Ensured(k, s, fault)
  BY <1>10, EnsureSampler
<1> HIDE DEF s
<1>15. SameConfig(e, s.g.engine) /\ s.g.engine.size = size /\ OtherSampler(f, s.g.engine)
  <2>1. OtherSampler(f, s.g.engine)
    BY <1>10, <1>14 DEF Ensured
  <2>2. SameConfig(f, s.g.engine) /\ s.g.engine.size = f.size
    BY <1>6, <2>1 DEF OtherSampler, SameConfig, Engines, EngineShape
  <2> QED BY <1>6, <2>1, <2>2 DEF SameConfig
<1>16. ASSUME s.ok PROVE Tracked(r.g, held, lost) /\ Resized(g, r, size, fault)
  <2> DEFINE d == Release(s.g, old)
  <2>1. r.g = d /\ r.ok
    BY <1>12, <1>16 DEF Done, Return, Result
  <2>2. /\ Tracked(d, held, lost) /\ d.engine = s.g.engine
        /\ d.mapped = s.g.mapped \ old /\ d.pending = s.g.pending \ old
    <3> HIDE DEF old
    <3>1. old \subseteq held \cup old
      OBVIOUS
    <3>2. /\ Tracked(d, (held \cup old) \ old, lost) /\ d.engine = s.g.engine
          /\ d.mapped = s.g.mapped \ old /\ d.pending = s.g.pending \ old
      BY <1>14, <3>1, ReleaseHeld, SMTT(40)
    <3> QED BY <1>7, <3>2
  <2> HIDE DEF d
  <2>3. NoMoreMaps(g, d)
    BY <1>10, <1>14, <2>2 DEF NoMoreMaps, Ensured
  <2>4. e.super_sample # "gpu" => d.engine.supersampler = e.supersampler
    BY <1>6, <1>10, <1>14, <2>2 DEF Ensured, SameConfig
  <2>5. ASSUME e.super_sample = "gpu", e.supersampler # NoSampler,
               e.supersampler.cells # CellsOf(size)
        PROVE  InMode(d.engine, "gpu")
    <3>1. SupersamplerFits(s.g.engine) /\ ~SupersamplerFits(f)
      BY <1>6, <1>10, <1>14, <1>16, <2>5 DEF Ensured, SameConfig, SupersamplerFits
    <3>2. s.g.engine.supersampler.view = f.view
      BY <1>6, <1>10, <1>14, <1>16, <2>5, <3>1 DEF Ensured, SameConfig
    <3>3. s.g.engine.view = f.view /\ s.g.engine.super_sample = "gpu"
      BY <1>6, <1>15, <2>5 DEF OtherSampler, SameConfig, Engines, EngineShape
    <3> QED BY <2>2, <3>1, <3>2, <3>3 DEF InMode
  <2>6. Resized(g, r, size, fault)
    BY <1>15, <2>1, <2>2, <2>3, <2>4, <2>5 DEF Resized
  <2> QED BY <2>1, <2>2, <2>6
<1>17. ASSUME ~s.ok PROVE Tracked(r.g, held, lost) /\ Resized(g, r, size, fault)
  <2>1. r = s /\ fault # NoFault
    BY <1>12, <1>14, <1>17 DEF Ensured
  <2>2. \A h \in held \cup old : h \in held \/ h[1] \in lost
    BY <1>1, <2>1 DEF LossesAllowed, EngineShape
  <2>3. Tracked(s.g, held, lost)
    <3> HIDE DEF old
    <3> QED BY <1>14, <2>2, LoseHeld
  <2>4. NoMoreMaps(g, s.g)
    BY <1>10, <1>14 DEF NoMoreMaps, Ensured
  <2> QED BY <1>15, <1>17, <2>1, <2>3, <2>4 DEF Resized
<1> QED BY <1>16, <1>17 DEF r

(* A resize swaps the target, or leaves the old one in place. *)
LEMMA ResizeResult ==
    ASSUME NEW g, NEW held, NEW lost, Tracked(g, held, lost), NEW size \in Nat, NEW fault,
           LossesAllowed(fault, lost)
    PROVE  /\ Tracked(resize(g, size, fault).g, held, lost)
           /\ Resized(g, resize(g, size, fault), size, fault)
<1> DEFINE t == Build(g, TextureCalls("target"), Fails(fault, "target"))
           b == Build(t.g, ReadbackCalls, Fails(fault, "readback"))
           r == resize(g, size, fault)
<1>1. NativeOK(g) /\ "target" \in Roles
  BY DEF Tracked, Roles
<1>2. r = IF t.ok THEN SwapTarget(b, g.engine, t.val, size, fault) ELSE t
  BY DEF resize, Then
<1>3. fault = NoFault => /\ Fails(fault, "target") \notin 1 .. 2
                         /\ Fails(fault, "readback") \notin 1 .. 1
  BY FailsNone
<1>4. CASE Fails(fault, "target") \in 1 .. 2
  <2>1. t = Failed(g)
    BY <1>1, <1>4, TargetCallsFacts, BuildResult
  <2>2. r.g = g /\ ~r.ok
    BY <1>2, <2>1 DEF Failed, Result
  <2> QED BY <1>3, <1>4, <2>2 DEF Resized, NoMoreMaps, SameConfig
<1>5. CASE Fails(fault, "target") \notin 1 .. 2
  <2>1. Built(g, TextureCalls("target"), t)
    BY <1>1, <1>5, TargetCallsFacts, BuildResult
  <2> HIDE DEF t
  <2>2. Tracked(t.g, held \cup Range(t.val), lost) /\ SameButLive(g, t.g) /\ t.ok
        /\ Range(t.val) \cap g.live = {}
    BY <2>1, HoldBuilt DEF Built
  <2>3. CASE Fails(fault, "readback") \in 1 .. 1
    <3>1. b = Failed(t.g)
      BY <2>2, <2>3, TargetCallsFacts, BuildResult DEF Tracked
    <3> DEFINE X == Range(t.val)
               d == Release(t.g, X)
    <3>2. r.g = d /\ ~r.ok
      <4>1. ~b.ok /\ b.g = t.g
        BY <3>1 DEF Failed, Result
      <4>2. r = Failed(d)
        BY <1>2, <2>2, <4>1 DEF SwapTarget
      <4> QED BY <4>2 DEF Failed, Result
    <3>3. (held \cup X) \ X = held
      BY <2>2 DEF Tracked
    <3>4. X \subseteq held \cup X /\ Tracked(t.g, held \cup X, lost)
      BY <2>2
    <3>5. /\ Tracked(d, (held \cup X) \ X, lost) /\ d.engine = t.g.engine
          /\ d.mapped = t.g.mapped \ X /\ d.pending = t.g.pending \ X
      <4> HIDE DEF X
      <4> QED BY <3>4, ReleaseHeld
    <3> HIDE DEF d, X
    <3>6. Tracked(d, held, lost) /\ d.engine = g.engine /\ NoMoreMaps(g, d)
      BY <2>2, <3>3, <3>5 DEF SameButLive, NoMoreMaps
    <3> QED BY <1>3, <2>3, <3>2, <3>6 DEF Resized, SameConfig
  <2>4. CASE Fails(fault, "readback") \notin 1 .. 1
    <3>1. Built(t.g, ReadbackCalls, b)
      BY <2>2, <2>4, TargetCallsFacts, BuildResult DEF Tracked
    <3> HIDE DEF b
    <3> QED BY <1>2, <2>1, <2>2, <3>1, SwapResult
  <2> QED BY <2>3, <2>4
<1> QED BY <1>4, <1>5

-----------------------------------------------------------------------------
(* The mesh. *)

(* The objects of a mesh entry, told apart by their kinds. *)
EntryShape(m) ==
    /\ m \in MeshEntries
    /\ \A h \in m.buffers : h[1] = "buffer"
    /\ ~m.released => m.group \in Handles /\ m.group[1] = "group"
    /\ m.texture # <<>> =>
           Len(m.texture) = 2 /\ m.texture[1][1] = "texture" /\ m.texture[2][1] = "view"

(* f differs from e in the mesh and its textures only. *)
SameSetup(e, f) ==
    /\ f.size = e.size /\ f.super_sample = e.super_sample /\ f.algorithm = e.algorithm
    /\ f.supersampler = e.supersampler /\ f.texture = e.texture /\ f.view = e.view
    /\ f.readback = e.readback

(* h is g but for the mesh and its textures. *)
MeshStep(g, h) == NoMoreMaps(g, h) /\ SameSetup(g.engine, h.engine)

(* Steps of the mesh compose. *)
LEMMA MeshStepTransitive ==
    ASSUME NEW g, NEW h, NEW k, MeshStep(g, h), MeshStep(h, k)
    PROVE  MeshStep(g, k)
  BY DEF MeshStep, NoMoreMaps, SameSetup

(* A construction that is not stored yet is a step of the mesh. *)
LEMMA BuildIsMeshStep ==
    ASSUME NEW g, NEW h, SameButLive(g, h)
    PROVE  MeshStep(g, h)
  BY DEF MeshStep, NoMoreMaps, SameSetup, SameButLive

(* A single call. *)
LEMMA OneCall ==
    ASSUME NEW c \in Calls
    PROVE  <<c>> \in Seq(Calls) /\ Len(<<c>>) = 1 /\ <<c>>[1] = c
  OBVIOUS

(* The engine takes over a white texture, or a sampler. *)
Taken(g, held, lost, h) ==
    Tracked(h, held, lost) /\ MeshStep(g, h) /\ h.engine.mesh = g.engine.mesh

(* The default white of h is w; its samplers are X. *)
HasWhite(h, w) == h.engine.white = w
HasSamplers(h, X) == h.engine.samplers = X

(* The engine becomes the owner of the default white. *)
LEMMA TakeWhite ==
    ASSUME NEW g, NEW held, NEW lost, NEW w \in Seq(Handles), Tracked(g, held \cup Range(w), lost),
           held \cap Range(w) = {}, g.engine.white = <<>>, w # <<>>, WhiteShape(w),
           NEW h, h = [g EXCEPT !.engine.white = w]
    PROVE  Taken(g, held, lost, h) /\ HasWhite(h, w)
<1> DEFINE e == g.engine
           f == [e EXCEPT !.white = w]
<1>1. g \in NativeSides /\ EngineShape(e) /\ e \in Engines /\ MapsAgree(e, g.mapped)
  BY DEF Tracked, NativeOK, EngineShape
<1>2. h = [g EXCEPT !.engine = f]
  BY <1>1 DEF NativeSides
<1>3. /\ f \in Engines /\ f.core = e.core /\ f.texture = e.texture /\ f.view = e.view
      /\ f.readback = e.readback /\ f.supersampler = e.supersampler /\ f.white = w
      /\ f.samplers = e.samplers
  BY <1>1 DEF Engines
<1>4. SameSetup(e, f) /\ f.mesh = e.mesh
  BY <1>1 DEF Engines, SameSetup
<1> HIDE DEF f
<1>5. EngineShape(f) /\ MapsAgree(f, g.mapped)
  BY <1>1, <1>3 DEF EngineShape, MapsAgree
<1>6. Rest(f) = Rest(e) \cup Range(w)
  <2>1. Range(e.white) = {}
    BY DEF Range
  <2> QED BY <1>3, <2>1 DEF Rest
<1>7. Rest(f) \cup held = Rest(e) \cup (held \cup Range(w)) /\ Rest(f) \cap held = {}
  BY <1>6 DEF Tracked
<1>8. Tracked(h, held, lost) /\ h.engine = f /\ h.mapped = g.mapped /\ h.pending = g.pending
  <2> DEFINE k == [g EXCEPT !.engine = f]
  <2>1. Tracked(k, held, lost) /\ k.engine = f /\ k.mapped = g.mapped /\ k.pending = g.pending
    BY <1>5, <1>7, ExchangeHeld
  <2> HIDE DEF k
  <2> QED BY <1>2, <2>1 DEF k
<1> QED BY <1>2, <1>3, <1>4, <1>8 DEF Taken, HasWhite, HasSamplers, MeshStep, NoMoreMaps

(* The engine becomes the owner of the samplers of the maps. *)
LEMMA TakeSampler ==
    ASSUME NEW g, NEW held, NEW lost, NEW X \in SUBSET Handles, Tracked(g, held \cup X, lost),
           held \cap X = {}, g.engine.samplers = {}, \A x \in X : x[2] = "map",
           NEW h, h = [g EXCEPT !.engine.samplers = X]
    PROVE  Taken(g, held, lost, h) /\ HasSamplers(h, X)
<1> DEFINE e == g.engine
           f == [e EXCEPT !.samplers = X]
<1>1. g \in NativeSides /\ EngineShape(e) /\ e \in Engines /\ MapsAgree(e, g.mapped)
  BY DEF Tracked, NativeOK, EngineShape
<1>2. h = [g EXCEPT !.engine = f]
  BY <1>1 DEF NativeSides
<1>3. /\ f \in Engines /\ f.core = e.core /\ f.texture = e.texture /\ f.view = e.view
      /\ f.readback = e.readback /\ f.supersampler = e.supersampler /\ f.white = e.white
      /\ f.samplers = X
  BY <1>1 DEF Engines
<1>4. SameSetup(e, f) /\ f.mesh = e.mesh
  BY <1>1 DEF Engines, SameSetup
<1> HIDE DEF f
<1>5. EngineShape(f) /\ MapsAgree(f, g.mapped)
  BY <1>1, <1>3 DEF EngineShape, MapsAgree
<1>6. Rest(f) = Rest(e) \cup X
  BY <1>3 DEF Rest
<1>7. Rest(f) \cup held = Rest(e) \cup (held \cup X) /\ Rest(f) \cap held = {}
  BY <1>6 DEF Tracked
<1>8. Tracked(h, held, lost) /\ h.engine = f /\ h.mapped = g.mapped /\ h.pending = g.pending
  <2> DEFINE k == [g EXCEPT !.engine = f]
  <2>1. Tracked(k, held, lost) /\ k.engine = f /\ k.mapped = g.mapped /\ k.pending = g.pending
    BY <1>5, <1>7, ExchangeHeld
  <2> HIDE DEF k
  <2> QED BY <1>2, <2>1 DEF k
<1> QED BY <1>2, <1>3, <1>4, <1>8 DEF Taken, HasWhite, HasSamplers, MeshStep, NoMoreMaps

(* r is one new object, held. *)
OneHeld(g, held, lost, call, r) ==
    /\ r.ok /\ r.val \in Seq(Handles) /\ Len(r.val) = 1 /\ Range(r.val) = {r.val[1]}
    /\ r.val[1] \in Handles /\ r.val[1][1] = call[1] /\ r.val[1][2] = call[2]
    /\ r.val[1] \notin g.live /\ r.val[1] \in r.g.live
    /\ Tracked(r.g, held \cup {r.val[1]}, lost) /\ SameButLive(g, r.g)

(* A single call makes its object or changes nothing. *)
LEMMA SingleCall ==
    ASSUME NEW g, NEW held, NEW lost, Tracked(g, held, lost), NEW c \in Calls, NEW at
    PROVE  /\ at = 1 => Build(g, <<c>>, at) = Failed(g)
           /\ at # 1 => OneHeld(g, held, lost, c, Build(g, <<c>>, at))
<1> DEFINE kinds == <<c>>
           r == Build(g, kinds, at)
<1>1. kinds \in Seq(Calls) /\ Len(kinds) = 1 /\ kinds[1] = c
  BY OneCall
<1>2. NativeOK(g) /\ (at \in 1 .. 1 <=> at = 1)
  BY DEF Tracked
<1> HIDE DEF kinds
<1>3. ASSUME at = 1 PROVE r = Failed(g)
  BY <1>1, <1>2, <1>3, BuildResult
<1>4. ASSUME at # 1 PROVE OneHeld(g, held, lost, c, r)
  <2>1. Built(g, kinds, r)
    BY <1>1, <1>2, <1>4, BuildResult
  <2> HIDE DEF r
  <2>2. /\ r.ok /\ r.val \in Seq(Handles) /\ Len(r.val) = 1
        /\ r.val[1][1] = c[1] /\ r.val[1][2] = c[2]
    BY <1>1, <2>1 DEF Built, IsMade
  <2>3. Range(r.val) = {r.val[1]} /\ r.val[1] \in Handles
    BY <2>2, ShortRanges
  <2>4. /\ Tracked(r.g, held \cup Range(r.val), lost) /\ SameButLive(g, r.g)
        /\ Range(r.val) \cap g.live = {} /\ Range(r.val) \subseteq r.g.live
    BY <2>1, HoldBuilt
  <2> QED BY <2>2, <2>3, <2>4 DEF OneHeld
<1> QED BY <1>3, <1>4 DEF kinds

(* r is a new texture and its view, held. *)
TextureHeld(g, held, lost, role, r) ==
    /\ r.ok /\ r.val \in Seq(Handles) /\ Len(r.val) = 2
    /\ Range(r.val) = {r.val[1], r.val[2]} /\ r.val[1] \in Handles /\ r.val[2] \in Handles
    /\ r.val[1][1] = "texture" /\ r.val[1][2] = role
    /\ r.val[2][1] = "view" /\ r.val[2][2] = role
    /\ r.val[1] \notin g.live /\ r.val[2] \notin g.live /\ {r.val[1], r.val[2]} \subseteq r.g.live
    /\ Tracked(r.g, held \cup {r.val[1], r.val[2]}, lost) /\ SameButLive(g, r.g)

(* A texture and its view are made together, or neither is left. *)
LEMMA TextureCall ==
    ASSUME NEW g, NEW held, NEW lost, Tracked(g, held, lost), NEW role \in Roles, NEW at
    PROVE  /\ at \in 1 .. 2 => Build(g, TextureCalls(role), at) = Failed(g)
           /\ at \notin 1 .. 2 =>
                 TextureHeld(g, held, lost, role, Build(g, TextureCalls(role), at))
<1> DEFINE kinds == TextureCalls(role)
           r == Build(g, kinds, at)
<1>1. /\ kinds \in Seq(Calls) /\ Len(kinds) = 2 /\ kinds[1] = <<"texture", role>>
      /\ kinds[2] = <<"view", role>>
  BY TargetCallsFacts
<1>2. NativeOK(g)
  BY DEF Tracked
<1> HIDE DEF kinds
<1>3. ASSUME at \in 1 .. 2 PROVE r = Failed(g)
  BY <1>1, <1>2, <1>3, BuildResult
<1>4. ASSUME at \notin 1 .. 2 PROVE TextureHeld(g, held, lost, role, r)
  <2>1. Built(g, kinds, r)
    BY <1>1, <1>2, <1>4, BuildResult
  <2> HIDE DEF r
  <2>2. /\ r.ok /\ r.val \in Seq(Handles) /\ Len(r.val) = 2
        /\ r.val[1][1] = "texture" /\ r.val[1][2] = role
        /\ r.val[2][1] = "view" /\ r.val[2][2] = role
    BY <1>1, <2>1 DEF Built, IsMade
  <2>3. Range(r.val) = {r.val[1], r.val[2]} /\ r.val[1] \in Handles /\ r.val[2] \in Handles
    BY <2>2, ShortRanges
  <2>4. /\ Tracked(r.g, held \cup Range(r.val), lost) /\ SameButLive(g, r.g)
        /\ Range(r.val) \cap g.live = {} /\ Range(r.val) \subseteq r.g.live
    BY <2>1, HoldBuilt
  <2> QED BY <2>2, <2>3, <2>4 DEF TextureHeld
<1> QED BY <1>3, <1>4 DEF kinds

(* The default white texture is there, or its making failed. *)
WhiteMade(g, held, lost, r, fault) ==
    /\ Tracked(r.g, held, lost) /\ MeshStep(g, r.g)
    /\ r.ok => r.g.engine.white # <<>>
    /\ fault = NoFault => r.ok

(* The default white is stored once all of it is made. *)
LEMMA MakeWhite ==
    ASSUME NEW g, NEW held, NEW lost, Tracked(g, held, lost), NEW fault,
           g.engine.white = <<>>,
           NEW t, TextureHeld(g, held, lost, "white", t),
           NEW s, OneHeld(t.g, held \cup {t.val[1], t.val[2]}, lost, <<"sampler", "white">>, s)
    PROVE  WhiteMade(g, held, lost, Done([s.g EXCEPT !.engine.white = t.val \o s.val]), fault)
<1> DEFINE w == t.val \o s.val
           h == [s.g EXCEPT !.engine.white = w]
           x == t.val[1]
           y == t.val[2]
           z == s.val[1]
<1>1. /\ t.val \in Seq(Handles) /\ Len(t.val) = 2 /\ x[2] = "white"
      /\ y[1] = "view" /\ y[2] = "white" /\ x \notin g.live /\ y \notin g.live
      /\ x \in Handles /\ y \in Handles /\ SameButLive(g, t.g)
      /\ Tracked(t.g, held \cup {x, y}, lost)
  BY DEF TextureHeld
<1>2. /\ s.val \in Seq(Handles) /\ Len(s.val) = 1 /\ z[2] = "white" /\ z \notin t.g.live
      /\ z \in Handles /\ SameButLive(t.g, s.g)
      /\ Tracked(s.g, (held \cup {x, y}) \cup {z}, lost)
  BY DEF OneHeld
<1>3. w \in Seq(Handles) /\ Len(w) = 3 /\ w[1] = x /\ w[2] = y /\ w[3] = z
  <2> DEFINE p == t.val
             q == s.val
  <2>1. p \in Seq(Handles) /\ Len(p) = 2 /\ q \in Seq(Handles) /\ Len(q) = 1
    BY <1>1, <1>2
  <2> HIDE DEF p, q
  <2>2. /\ p \o q \in Seq(Handles) /\ Len(p \o q) = 3
        /\ (p \o q)[1] = p[1] /\ (p \o q)[2] = p[2] /\ (p \o q)[3] = q[1]
    <3> DEFINE r == p \o q
    <3>1. Joined(Handles, p, q, r)
      BY <2>1, Concatenated
    <3> HIDE DEF r
    <3>2. /\ r \in Seq(Handles) /\ Len(r) = 2 + 1 /\ \A k \in 1 .. 2 : r[k] = p[k]
          /\ \A k \in 1 .. 1 : r[2 + k] = q[k]
      BY <2>1, <3>1 DEF Joined
    <3>3. r[2 + 1] = q[1]
      BY <3>2
    <3>4. r[1] = p[1] /\ r[2] = p[2] /\ r[3] = q[1] /\ Len(r) = 3
      BY <3>2, <3>3
    <3> QED BY <3>2, <3>4 DEF r
  <2> QED BY <2>2 DEF p, q
<1> HIDE DEF w, x, y, z
<1>4. Range(w) = {x, y, z} /\ w # <<>>
  BY <1>3, ShortRanges
<1>5. WhiteShape(w)
  <2>1. \A k \in 1 .. 3 : k = 1 \/ k = 2 \/ k = 3
    OBVIOUS
  <2> QED BY <1>1, <1>2, <1>3, <2>1 DEF WhiteShape
<1>6. Tracked(s.g, held \cup Range(w), lost) /\ held \cap Range(w) = {}
  <2>1. held \subseteq g.live /\ held \subseteq t.g.live
    BY <1>1 DEF Tracked
  <2>2. held \cup Range(w) = (held \cup {x, y}) \cup {z}
    BY <1>4
  <2>3. held \cap Range(w) = {}
    BY <1>1, <1>2, <1>4, <2>1
  <2> QED BY <1>2, <2>2, <2>3
<1>7. s.g.engine.white = <<>> /\ MeshStep(g, s.g)
  BY <1>1, <1>2, BuildIsMeshStep, MeshStepTransitive DEF SameButLive
<1>8. Taken(s.g, held, lost, h) /\ HasWhite(h, w)
  <2>1. h = [s.g EXCEPT !.engine.white = w]
    OBVIOUS
  <2> HIDE DEF h
  <2> QED BY <1>3, <1>4, <1>5, <1>6, <1>7, <2>1, TakeWhite
<1> HIDE DEF h
<1>9. Tracked(h, held, lost) /\ MeshStep(g, h) /\ h.engine.white # <<>>
  BY <1>4, <1>7, <1>8, MeshStepTransitive DEF Taken, HasWhite
<1>10. WhiteMade(g, held, lost, Done(h), fault)
  BY <1>9 DEF WhiteMade, Done, Return, Result
<1> QED BY <1>10 DEF h, w

(* ensure_default_white, whichever of its calls fails. *)
LEMMA WhiteResult ==
    ASSUME NEW g, NEW held, NEW lost, Tracked(g, held, lost), NEW fault,
           LossesAllowed(fault, lost)
    PROVE  WhiteMade(g, held, lost, ensure_default_white(g, fault), fault)
<1> DEFINE r == ensure_default_white(g, fault)
           t == Build(g, TextureCalls("white"), Fails(fault, "white"))
           c == device_create_sampler("white")
           s == Build(t.g, <<c>>, Fails(fault, "white_sampler"))
<1>1. "white" \in Roles /\ c \in Calls /\ c = <<"sampler", "white">>
  BY DEF Roles, Calls, Kinds, device_create_sampler
<1>2. fault = NoFault => Fails(fault, "white") \notin 1 .. 2
                         /\ Fails(fault, "white_sampler") # 1
  BY FailsNone
<1>3. MeshStep(g, g)
  BY DEF MeshStep, NoMoreMaps, SameSetup
<1>4. CASE g.engine.white # <<>>
  <2>1. r.g = g /\ r.ok
    BY <1>4 DEF ensure_default_white, Done, Return, Result
  <2> HIDE DEF r
  <2>2. WhiteMade(g, held, lost, r, fault)
    BY <1>3, <1>4, <2>1 DEF WhiteMade
  <2> QED BY <2>2 DEF r
<1>5. CASE g.engine.white = <<>>
  <2>1. r = IF t.ok THEN IF s.ok THEN Done([s.g EXCEPT !.engine.white = t.val \o s.val])
                                 ELSE s
            ELSE t
    BY <1>5 DEF ensure_default_white, Then
  <2> HIDE DEF r, c
  <2>2. CASE Fails(fault, "white") \in 1 .. 2
    <3>1. t = Failed(g)
      BY <1>1, <2>2, TextureCall
    <3> HIDE DEF t
    <3>2. r.g = g /\ ~r.ok
      BY <2>1, <3>1 DEF Failed, Result
    <3>3. WhiteMade(g, held, lost, r, fault)
      BY <1>2, <1>3, <2>2, <3>2 DEF WhiteMade
    <3> QED BY <3>3 DEF r
  <2>3. CASE Fails(fault, "white") \notin 1 .. 2
    <3> DEFINE two == held \cup {t.val[1], t.val[2]}
    <3>1. TextureHeld(g, held, lost, "white", t)
      BY <1>1, <2>3, TextureCall
    <3> HIDE DEF t
    <3>2. t.ok /\ Tracked(t.g, two, lost) /\ SameButLive(g, t.g)
      BY <3>1 DEF TextureHeld
    <3> HIDE DEF two
    <3>3. CASE Fails(fault, "white_sampler") = 1
      <4>1. s = Failed(t.g)
        BY <1>1, <3>2, <3>3, SingleCall
      <4> HIDE DEF s
      <4>2. r.g = t.g /\ ~r.ok
        BY <2>1, <3>2, <4>1 DEF Failed, Result
      <4>3. held \subseteq two /\ \A h \in two : h \in held \/ h[1] \in lost
        BY <1>2, <3>1, <3>3 DEF LossesAllowed, TextureHeld, two
      <4>4. Tracked(t.g, held, lost)
        BY <3>2, <4>3, LoseHeld
      <4>5. WhiteMade(g, held, lost, r, fault)
        BY <1>2, <3>2, <3>3, <4>2, <4>4, BuildIsMeshStep DEF WhiteMade
      <4> QED BY <4>5 DEF r
    <3>4. CASE Fails(fault, "white_sampler") # 1
      <4>1. OneHeld(t.g, two, lost, c, s)
        BY <1>1, <3>2, <3>4, SingleCall
      <4> HIDE DEF s
      <4>2. s.ok /\ OneHeld(t.g, held \cup {t.val[1], t.val[2]}, lost, <<"sampler", "white">>, s)
        BY <1>1, <4>1 DEF two, OneHeld
      <4>3. r = Done([s.g EXCEPT !.engine.white = t.val \o s.val])
        BY <2>1, <3>2, <4>2
      <4>4. WhiteMade(g, held, lost, r, fault)
        BY <1>5, <3>1, <4>2, <4>3, MakeWhite
      <4> QED BY <4>4 DEF r
    <3> QED BY <3>3, <3>4
  <2> QED BY <2>2, <2>3
<1> QED BY <1>4, <1>5

(* The sampler of a map is there, or its making failed. *)
SamplerMade(g, held, lost, r, fault) ==
    /\ Tracked(r.g, held, lost) /\ MeshStep(g, r.g)
    /\ fault = NoFault => r.ok

(* upload_sampler, whichever of its calls fails. *)
LEMMA SamplerResult ==
    ASSUME NEW g, NEW held, NEW lost, Tracked(g, held, lost), NEW fault
    PROVE  SamplerMade(g, held, lost, upload_sampler(g, fault), fault)
<1> DEFINE r == upload_sampler(g, fault)
           c == device_create_sampler("map")
           s == Build(g, <<c>>, Fails(fault, "sampler"))
<1>1. c \in Calls /\ c[2] = "map"
  BY DEF Roles, Calls, Kinds, device_create_sampler
<1>2. fault = NoFault => Fails(fault, "sampler") # 1
  BY FailsNone
<1>3. MeshStep(g, g)
  BY DEF MeshStep, NoMoreMaps, SameSetup
<1>4. CASE g.engine.samplers # {}
  <2>1. r.g = g /\ r.ok
    BY <1>4 DEF upload_sampler, Done, Return, Result
  <2> HIDE DEF r
  <2>2. SamplerMade(g, held, lost, r, fault)
    BY <1>3, <2>1 DEF SamplerMade
  <2> QED BY <2>2 DEF r
<1>5. CASE g.engine.samplers = {}
  <2>1. r = IF s.ok THEN Done([s.g EXCEPT !.engine.samplers = Range(s.val)]) ELSE s
    BY <1>5 DEF upload_sampler, Then
  <2> HIDE DEF r, c
  <2>2. CASE Fails(fault, "sampler") = 1
    <3>1. s = Failed(g)
      BY <1>1, <2>2, SingleCall
    <3> HIDE DEF s
    <3>2. r.g = g /\ ~r.ok
      BY <2>1, <3>1 DEF Failed, Result
    <3>3. SamplerMade(g, held, lost, r, fault)
      BY <1>2, <1>3, <2>2, <3>2 DEF SamplerMade
    <3> QED BY <3>3 DEF r
  <2>3. CASE Fails(fault, "sampler") # 1
    <3> DEFINE X == Range(s.val)
               h == [s.g EXCEPT !.engine.samplers = X]
    <3>1. OneHeld(g, held, lost, c, s)
      BY <1>1, <2>3, SingleCall
    <3> HIDE DEF s
    <3>2. /\ X \in SUBSET Handles /\ Tracked(s.g, held \cup X, lost) /\ held \cap X = {}
          /\ s.g.engine.samplers = {} /\ \A x \in X : x[2] = "map"
      BY <1>1, <1>5, <3>1 DEF OneHeld, SameButLive, Tracked
    <3>3. h = [s.g EXCEPT !.engine.samplers = X] /\ r = Done(h) /\ MeshStep(g, s.g)
      BY <2>1, <3>1, BuildIsMeshStep DEF OneHeld
    <3> HIDE DEF h, X
    <3>4. Taken(s.g, held, lost, h)
      BY <3>2, <3>3, TakeSampler
    <3>5. Tracked(h, held, lost) /\ MeshStep(g, h)
      BY <3>3, <3>4, MeshStepTransitive DEF Taken
    <3>6. SamplerMade(g, held, lost, r, fault)
      BY <3>3, <3>5 DEF SamplerMade, Done, Return, Result
    <3> QED BY <3>6 DEF r
  <2> QED BY <2>2, <2>3
<1> QED BY <1>4, <1>5

(* r is a mesh entry with all it needs, or a failure that keeps left. *)
EntryMade(g, r, left, lost, fault) ==
    /\ MeshStep(g, r.g)
    /\ r.ok => /\ EntryShape(r.val) /\ ~r.val.released
               /\ Tracked(r.g, MeshOwned(r.val), lost)
    /\ ~r.ok => Tracked(r.g, left, lost)
    /\ fault = NoFault => r.ok

(* The handles of an entry without a bind group. *)
LEMMA UngroupedOwns ==
    ASSUME NEW m, EntryShape(m), m.released
    PROVE  /\ MeshOwned(m) = m.buffers \cup Range(m.texture)
           /\ \A h \in MeshOwned(m) : h[1] \in {"buffer", "texture", "view"}
<1>1. m # NoMesh /\ m.texture \in Seq(Handles)
  BY GpuConstants DEF EntryShape, MeshEntries
<1>2. MeshOwned(m) = m.buffers \cup Range(m.texture)
  BY <1>1 DEF MeshOwned, LiveGroup
<1>3. \A h \in Range(m.texture) : h[1] \in {"texture", "view"}
  <2>1. CASE m.texture = <<>>
    BY <2>1 DEF Range
  <2>2. CASE m.texture # <<>>
    <3>1. Len(m.texture) = 2
      BY <2>2 DEF EntryShape
    <3>2. Range(m.texture) = {m.texture[1], m.texture[2]}
      BY <1>1, <3>1, ShortRanges
    <3> QED BY <2>2, <3>2 DEF EntryShape
  <2> QED BY <2>1, <2>2
<1> QED BY <1>2, <1>3 DEF EntryShape

(* A failed operation may lose all that an entry without a group holds. *)
LEMMA LoseEntry ==
    ASSUME NEW g, NEW m, EntryShape(m), m.released, NEW lost, Tracked(g, MeshOwned(m), lost),
           NEW fault, fault # NoFault, LossesAllowed(fault, lost),
           NEW left, left \subseteq MeshOwned(m)
    PROVE  Tracked(g, left, lost)
<1>1. \A h \in MeshOwned(m) : h \in left \/ h[1] \in lost
  BY UngroupedOwns DEF LossesAllowed
<1> QED BY <1>1, LoseHeld

(* The group of an entry is made, or the entry stays without one. *)
LEMMA GroupResult ==
    ASSUME NEW g, NEW m, EntryShape(m), m.released, NEW lost, Tracked(g, MeshOwned(m), lost),
           NEW fault, LossesAllowed(fault, lost), NEW bound, bound \subseteq g.live,
           NEW left, left \subseteq MeshOwned(m)
    PROVE  EntryMade(g, WithGroup(g, m, bound, fault), left, lost, fault)
<1> DEFINE r == WithGroup(g, m, bound, fault)
           c == device_create_material_bind_group
           s == Build(g, <<c>>, Fails(fault, "group"))
<1>1. c \in Calls /\ c[1] = "group"
  BY DEF Roles, Calls, Kinds, device_create_material_bind_group
<1>2. fault = NoFault => Fails(fault, "group") # 1
  BY FailsNone
<1>3. MeshStep(g, g)
  BY DEF MeshStep, NoMoreMaps, SameSetup
<1>4. Use(g, bound \cup m.buffers) = g
  <2>1. bound \cup m.buffers \subseteq g.live
    BY UngroupedOwns DEF Tracked
  <2> QED BY <2>1, UseLive DEF Tracked
<1>5. r = IF s.ok THEN Return(s.g, [m EXCEPT !.group = s.val[1], !.released = FALSE]) ELSE s
  BY <1>4 DEF WithGroup, Then
<1> HIDE DEF r, c
<1>6. CASE Fails(fault, "group") = 1
  <2>1. s = Failed(g)
    BY <1>1, <1>6, SingleCall
  <2> HIDE DEF s
  <2>2. r.g = g /\ ~r.ok
    BY <1>5, <2>1 DEF Failed, Result
  <2>3. Tracked(g, left, lost)
    BY <1>2, <1>6, LoseEntry
  <2>4. EntryMade(g, r, left, lost, fault)
    BY <1>2, <1>3, <1>6, <2>2, <2>3 DEF EntryMade
  <2> QED BY <2>4 DEF r
<1>7. CASE Fails(fault, "group") # 1
  <2> DEFINE x == s.val[1]
             n == [m EXCEPT !.group = x, !.released = FALSE]
             held == MeshOwned(m)
  <2>1. OneHeld(g, held, lost, c, s)
    BY <1>1, <1>7, SingleCall
  <2> HIDE DEF s
  <2>2. x \in Handles /\ x[1] = "group" /\ Tracked(s.g, held \cup {x}, lost) /\ MeshStep(g, s.g)
    BY <1>1, <2>1, BuildIsMeshStep DEF OneHeld
  <2>3. r.ok /\ r.g = s.g /\ r.val = n
    BY <1>5, <2>1 DEF Return, OneHeld, Result
  <2> HIDE DEF x
  <2>4. /\ n \in MeshEntries /\ n.group = x /\ n.released = FALSE /\ n.buffers = m.buffers
        /\ n.texture = m.texture
    BY <2>2 DEF EntryShape, MeshEntries
  <2> HIDE DEF n
  <2>5. EntryShape(n) /\ ~n.released
    BY <2>2, <2>4 DEF EntryShape
  <2>6. MeshOwned(n) = held \cup {x}
    <3>1. n # NoMesh
      BY <2>4, GpuConstants
    <3>2. MeshOwned(n) = m.buffers \cup {x} \cup Range(m.texture)
      BY <2>4, <3>1 DEF MeshOwned, LiveGroup
    <3>3. held = m.buffers \cup Range(m.texture)
      BY UngroupedOwns
    <3> QED BY <3>2, <3>3
  <2>7. EntryMade(g, r, left, lost, fault)
    BY <2>2, <2>3, <2>5, <2>6 DEF EntryMade
  <2> QED BY <2>7 DEF r
<1> QED BY <1>6, <1>7

(* An operation that comes after one that only changes the mesh's textures. *)
LEMMA EntryMadeAfter ==
    ASSUME NEW g, NEW h, NEW r, NEW left, NEW lost, NEW fault, MeshStep(g, h),
           EntryMade(h, r, left, lost, fault)
    PROVE  EntryMade(g, r, left, lost, fault)
  BY MeshStepTransitive DEF EntryMade

(* The bind group of an entry without a map. *)
LEMMA WhiteGroupResult ==
    ASSUME NEW g, NEW m, EntryShape(m), m.released, NEW lost, Tracked(g, MeshOwned(m), lost),
           NEW fault, LossesAllowed(fault, lost),
           NEW left, left \subseteq MeshOwned(m)
    PROVE  EntryMade(g, WithWhiteGroup(g, m, fault), left, lost, fault)
<1> DEFINE r == WithWhiteGroup(g, m, fault)
           w == ensure_default_white(g, fault)
           bound == {w.g.engine.white[2], w.g.engine.white[3]}
<1>1. WhiteMade(g, MeshOwned(m), lost, w, fault)
  BY WhiteResult
<1>2. r = IF w.ok THEN WithGroup(w.g, m, bound, fault) ELSE w
  BY DEF WithWhiteGroup, Then
<1> HIDE DEF w, r
<1>3. Tracked(w.g, MeshOwned(m), lost) /\ MeshStep(g, w.g)
  BY <1>1 DEF WhiteMade
<1>4. CASE ~w.ok
  <2>1. r = w /\ fault # NoFault
    BY <1>1, <1>2, <1>4 DEF WhiteMade
  <2>2. Tracked(w.g, left, lost)
    BY <1>3, <2>1, LoseEntry
  <2>3. EntryMade(g, r, left, lost, fault)
    BY <1>3, <1>4, <2>1, <2>2 DEF EntryMade
  <2> QED BY <2>3 DEF r
<1>5. CASE w.ok
  <2>1. bound \subseteq w.g.live
    <3> DEFINE v == w.g.engine.white
    <3>1. v # <<>> /\ WhiteShape(v) /\ v \in Seq(Handles) /\ Range(v) \subseteq w.g.live
      BY <1>1, <1>3, <1>5 DEF WhiteMade, Tracked, EngineShape, Engines, Rest
    <3> HIDE DEF v
    <3>2. Len(v) = 3
      BY <3>1 DEF WhiteShape
    <3>3. Range(v) = {v[1], v[2], v[3]}
      BY <3>1, <3>2, ShortRanges
    <3> QED BY <3>1, <3>3, SMTT(40) DEF v
  <2> HIDE DEF bound
  <2>2. r = WithGroup(w.g, m, bound, fault)
    BY <1>2, <1>5
  <2>3. EntryMade(w.g, r, left, lost, fault)
    BY <1>3, <2>1, <2>2, GroupResult
  <2>4. EntryMade(g, r, left, lost, fault)
    BY <1>3, <2>3, EntryMadeAfter
  <2> QED BY <2>4 DEF r
<1> QED BY <1>4, <1>5

(* The three buffers of a mesh. *)
LEMMA MeshCallsFacts ==
    /\ MeshCalls \in Seq(Calls) /\ Len(MeshCalls) = 3
    /\ MeshCalls[1][1] = "buffer" /\ MeshCalls[2][1] = "buffer" /\ MeshCalls[3][1] = "buffer"
<1> DEFINE a == device_create_buffer("vertex")
           b == device_create_buffer("index")
           c == device_create_buffer("uniform")
<1>1. a \in Calls /\ b \in Calls /\ c \in Calls
  BY DEF device_create_buffer, Calls, Kinds, Roles
<1>2. a[1] = "buffer" /\ b[1] = "buffer" /\ c[1] = "buffer"
  BY DEF device_create_buffer
<1>3. MeshCalls = <<a, b, c>>
  BY DEF MeshCalls
<1> HIDE DEF a, b, c
<1> QED BY <1>1, <1>2, <1>3

(* create_mesh_entry. *)
LEMMA CreateResult ==
    ASSUME NEW g, NEW lost, Tracked(g, {}, lost), NEW fault, LossesAllowed(fault, lost),
           NEW geometry \in 1 .. 2
    PROVE  EntryMade(g, create_mesh_entry(g, geometry, fault), {}, lost, fault)
<1> DEFINE r == create_mesh_entry(g, geometry, fault)
           at == Fails(fault, "mesh")
           b == Build(g, MeshCalls, at)
           m == NewEntry(b.val, geometry)
<1>1. NativeOK(g)
  BY DEF Tracked
<1>2. fault = NoFault => at \notin 1 .. 3
  BY FailsNone
<1>3. r = IF b.ok THEN WithWhiteGroup(b.g, m, fault) ELSE b
  BY DEF create_mesh_entry, Then
<1> HIDE DEF r, at
<1>4. CASE at \in 1 .. 3
  <2>1. b = Failed(g)
    BY <1>1, <1>4, MeshCallsFacts, BuildResult
  <2> HIDE DEF b
  <2>2. r.g = g /\ ~r.ok
    BY <1>3, <2>1 DEF Failed, Result
  <2>3. MeshStep(g, g)
    BY DEF MeshStep, NoMoreMaps, SameSetup
  <2>4. EntryMade(g, r, {}, lost, fault)
    BY <1>2, <1>4, <2>2, <2>3 DEF EntryMade
  <2> QED BY <2>4 DEF r
<1>5. CASE at \notin 1 .. 3
  <2>1. Built(g, MeshCalls, b)
    BY <1>1, <1>5, MeshCallsFacts, BuildResult
  <2> DEFINE made == b.val
  <2> HIDE DEF b
  <2>2. Tracked(b.g, {} \cup Range(made), lost) /\ SameButLive(g, b.g)
    BY <2>1, HoldBuilt
  <2>3. /\ b.ok /\ made \in Seq(Handles) /\ Len(made) = 3
        /\ made[1][1] = "buffer" /\ made[2][1] = "buffer" /\ made[3][1] = "buffer"
    BY <2>1, MeshCallsFacts DEF Built, IsMade
  <2> HIDE DEF made
  <2>4. Range(made) = {made[1], made[2], made[3]} /\ Range(made) \subseteq Handles
    BY <2>3, ShortRanges, RangeFinite
  <2>5. /\ m.buffers = Range(made) /\ m.group = <<>> /\ m.released /\ m.texture = <<>>
        /\ m.geometry = geometry /\ m.map = NoMap
    BY DEF NewEntry, made
  <2>6. m \in MeshEntries
    <3>1. NoMap \in Maps /\ <<>> \in Seq(Handles)
      BY DEF Maps
    <3> QED BY <2>4, <3>1 DEF NewEntry, MeshEntries, made
  <2> HIDE DEF m
  <2>7. EntryShape(m)
    BY <2>3, <2>4, <2>5, <2>6 DEF EntryShape
  <2>8. MeshOwned(m) = Range(made)
    <3>1. Range(m.texture) = {}
      BY <2>5 DEF Range
    <3> QED BY <2>5, <2>7, <3>1, UngroupedOwns
  <2>9. Tracked(b.g, MeshOwned(m), lost)
    BY <2>2, <2>8
  <2>10. EntryMade(b.g, r, {}, lost, fault)
    BY <1>3, <2>3, <2>5, <2>7, <2>9, WhiteGroupResult
  <2>11. EntryMade(g, r, {}, lost, fault)
    BY <2>2, <2>10, BuildIsMeshStep, EntryMadeAfter
  <2> QED BY <2>11 DEF r
<1> QED BY <1>4, <1>5

(* What an entry holds, part by part. *)
LEMMA EntryParts ==
    ASSUME NEW m, EntryShape(m)
    PROVE  /\ m # NoMesh
           /\ LiveGroup(m) \cup DataTexture(m) \subseteq MeshOwned(m)
           /\ m.buffers \subseteq MeshOwned(m)
           /\ m.buffers \cap (LiveGroup(m) \cup DataTexture(m)) = {}
           /\ \A h \in MeshOwned(m) : \/ h \in m.buffers \cup LiveGroup(m) \cup DataTexture(m)
                                      \/ h[1] = "view"
<1>1. m # NoMesh /\ m \in MeshEntries /\ m.texture \in Seq(Handles)
  BY GpuConstants DEF EntryShape, MeshEntries
<1>2. MeshOwned(m) = m.buffers \cup LiveGroup(m) \cup Range(m.texture)
  BY <1>1 DEF MeshOwned
<1>3. \A h \in LiveGroup(m) : h[1] = "group"
  BY DEF LiveGroup, EntryShape
<1>4. /\ DataTexture(m) \subseteq Range(m.texture)
      /\ \A h \in DataTexture(m) : h[1] = "texture"
      /\ \A h \in Range(m.texture) : h \in DataTexture(m) \/ h[1] = "view"
  <2>1. CASE m.texture = <<>>
    BY <2>1 DEF Range, DataTexture
  <2>2. CASE m.texture # <<>>
    <3>1. Len(m.texture) = 2
      BY <2>2 DEF EntryShape
    <3>2. Range(m.texture) = {m.texture[1], m.texture[2]}
      BY <1>1, <3>1, ShortRanges
    <3>3. DataTexture(m) = {m.texture[1]}
      BY <2>2 DEF DataTexture
    <3> QED BY <2>2, <3>2, <3>3 DEF EntryShape
  <2> QED BY <2>1, <2>2
<1>5. \A h \in m.buffers : h[1] = "buffer"
  BY DEF EntryShape
<1>6. m.buffers \cap (LiveGroup(m) \cup DataTexture(m)) = {}
  BY <1>3, <1>4, <1>5
<1> QED BY <1>1, <1>2, <1>4, <1>6

(* The engine is the same. *)
SameEngine(g, h) == h.engine = g.engine

(* A release of what is held is a step of the mesh. *)
LEMMA ReleaseIsMeshStep ==
    ASSUME NEW g, NEW held, NEW lost, Tracked(g, held, lost), NEW X, X \subseteq held
    PROVE  MeshStep(g, Release(g, X)) /\ SameEngine(g, Release(g, X))
<1> DEFINE d == Release(g, X)
<1>1. /\ Tracked(d, held \ X, lost) /\ d.engine = g.engine
      /\ d.mapped = g.mapped \ X /\ d.pending = g.pending \ X
  BY ReleaseHeld, SMTT(40)
<1> HIDE DEF d
<1>2. MeshStep(g, d) /\ SameEngine(g, d)
  BY <1>1 DEF MeshStep, NoMoreMaps, SameSetup, SameEngine
<1> QED BY <1>2 DEF d

(* The group and the texture go; the texture's view is lost. *)
LEMMA FreeGroup ==
    ASSUME NEW g, NEW m, EntryShape(m), NEW lost, Tracked(g, MeshOwned(m), lost),
           "view" \in lost
    PROVE  LET free == Release(g, LiveGroup(m) \cup DataTexture(m))
           IN  Tracked(free, m.buffers, lost) /\ MeshStep(g, free)
<1> DEFINE X == LiveGroup(m) \cup DataTexture(m)
           held == MeshOwned(m)
           free == Release(g, X)
           B == m.buffers
<1>1. /\ X \subseteq held /\ B \subseteq held /\ B \cap X = {}
      /\ \A h \in held : h \in B \/ h \in X \/ h[1] = "view"
  BY EntryParts
<1> HIDE DEF X, B, held
<1>2. Tracked(g, held, lost)
  BY DEF held
<1>3. Tracked(free, held \ X, lost) /\ MeshStep(g, free)
  BY <1>1, <1>2, ReleaseHeld, ReleaseIsMeshStep
<1> HIDE DEF free
<1>4. B \subseteq held \ X /\ \A h \in held \ X : h \in B \/ h[1] \in lost
  BY <1>1
<1>5. Tracked(free, B, lost)
  <2> DEFINE Y == held \ X
  <2>1. Tracked(free, Y, lost) /\ B \subseteq Y /\ \A h \in Y : h \in B \/ h[1] \in lost
    BY <1>3, <1>4
  <2> HIDE DEF Y
  <2> QED BY <2>1, LoseHeld
<1> QED BY <1>3, <1>5 DEF free, X, B

(* A new map for an entry without a group. *)
NewMap(g, m, fault) ==
    Then(Build(g, TextureCalls("map"), Fails(fault, "texture")),
         LAMBDA h, t :
             Then(upload_sampler(h, fault),
                  LAMBDA k, none : WithGroup(k, [m EXCEPT !.texture = t],
                                             {t[2]} \cup k.engine.samplers, fault)))

(* An entry gets a map of its own: texture, sampler and bind group. *)
LEMMA MapResult ==
    ASSUME NEW g, NEW m, EntryShape(m), m.released, m.texture = <<>>,
           NEW lost, Tracked(g, MeshOwned(m), lost),
           NEW fault, LossesAllowed(fault, lost), NEW left, left \subseteq MeshOwned(m),
           NEW r, r = NewMap(g, m, fault)
    PROVE  EntryMade(g, r, left, lost, fault)
<1> DEFINE at == Fails(fault, "texture")
           t == Build(g, TextureCalls("map"), at)
           u == upload_sampler(t.g, fault)
           n == [m EXCEPT !.texture = t.val]
           bound == {t.val[2]} \cup u.g.engine.samplers
<1>1. "map" \in Roles
  BY DEF Roles
<1>2. fault = NoFault => at \notin 1 .. 2
  BY FailsNone
<1>3. r = IF t.ok THEN IF u.ok THEN WithGroup(u.g, n, bound, fault) ELSE u ELSE t
  BY DEF NewMap, Then
<1>4. MeshOwned(m) = m.buffers
  <2>1. Range(m.texture) = {}
    BY DEF Range
  <2> QED BY <2>1, UngroupedOwns
<1> HIDE DEF at
<1>5. CASE at \in 1 .. 2
  <2>1. t = Failed(g)
    BY <1>1, <1>5, TextureCall
  <2> HIDE DEF t
  <2>2. r.g = g /\ ~r.ok
    BY <1>3, <2>1 DEF Failed, Result
  <2>3. MeshStep(g, g)
    BY DEF MeshStep, NoMoreMaps, SameSetup
  <2>4. Tracked(g, left, lost)
    BY <1>2, <1>5, LoseEntry
  <2> QED BY <1>2, <1>5, <2>2, <2>3, <2>4 DEF EntryMade
<1>6. CASE at \notin 1 .. 2
  <2> DEFINE x == t.val[1]
             y == t.val[2]
             v == t.val
             held == MeshOwned(m)
  <2>1. TextureHeld(g, held, lost, "map", t)
    BY <1>1, <1>6, TextureCall
  <2> HIDE DEF t
  <2>2. /\ t.ok /\ v \in Seq(Handles) /\ Len(v) = 2 /\ Range(v) = {x, y}
        /\ v[1][1] = "texture" /\ v[2][1] = "view"
        /\ Tracked(t.g, held \cup {x, y}, lost) /\ MeshStep(g, t.g)
    BY <2>1, BuildIsMeshStep DEF TextureHeld
  <2>3. /\ n \in MeshEntries /\ n.texture = v /\ n.released /\ n.buffers = m.buffers
    <3> HIDE DEF v
    <3>1. n = [m EXCEPT !.texture = v]
      BY DEF v
    <3> QED BY <2>2, <3>1 DEF EntryShape, MeshEntries
  <2> HIDE DEF n
  <2>4. EntryShape(n)
    BY <2>2, <2>3 DEF EntryShape
  <2>5. MeshOwned(n) = held \cup {x, y}
    <3>1. MeshOwned(n) = n.buffers \cup Range(n.texture)
      BY <2>3, <2>4, UngroupedOwns
    <3> QED BY <1>4, <2>2, <2>3, <3>1
  <2> HIDE DEF held, x
  <2>6. Tracked(t.g, MeshOwned(n), lost)
    BY <2>2, <2>5
  <2>7. SamplerMade(t.g, MeshOwned(n), lost, u, fault)
    BY <2>6, SamplerResult
  <2> HIDE DEF u
  <2>8. Tracked(u.g, MeshOwned(n), lost) /\ MeshStep(g, u.g) /\ (fault = NoFault => u.ok)
    BY <2>2, <2>7, MeshStepTransitive DEF SamplerMade
  <2>9. left \subseteq MeshOwned(n)
    BY <2>5 DEF held
  <2>10. CASE ~u.ok
    <3>1. r = u /\ fault # NoFault
      BY <1>3, <2>2, <2>8, <2>10
    <3>2. Tracked(u.g, left, lost)
      BY <2>3, <2>4, <2>8, <2>9, <3>1, LoseEntry
    <3> QED BY <2>8, <2>10, <3>1, <3>2 DEF EntryMade
  <2>11. CASE u.ok
    <3>1. bound \subseteq u.g.live
      BY <2>5, <2>8 DEF Tracked, Rest
    <3>2. r = WithGroup(u.g, n, bound, fault)
      BY <1>3, <2>2, <2>11
    <3> HIDE DEF bound
    <3>3. EntryMade(u.g, r, left, lost, fault)
      BY <2>3, <2>4, <2>8, <2>9, <3>1, <3>2, GroupResult
    <3> QED BY <2>8, <3>3, EntryMadeAfter
  <2> QED BY <2>10, <2>11
<1> QED BY <1>5, <1>6

(* rebuild_group. *)
LEMMA RebuildResult ==
    ASSUME NEW g, NEW m, EntryShape(m), NEW lost, Tracked(g, MeshOwned(m), lost),
           NEW fault, LossesAllowed(fault, lost), NEW want_map \in Maps,
           NEW left, left \subseteq m.buffers
    PROVE  EntryMade(g, rebuild_group(g, m, want_map, fault), left, lost, fault)
<1> DEFINE r == rebuild_group(g, m, want_map, fault)
           wanted == [Ungrouped(m) EXCEPT !.map = want_map]
           free == Release(g, LiveGroup(m) \cup DataTexture(m))
<1>1. r = IF want_map = NoMap THEN WithWhiteGroup(free, wanted, fault)
          ELSE NewMap(free, wanted, fault)
  BY DEF rebuild_group, NewMap
<1>2. Tracked(free, m.buffers, lost) /\ MeshStep(g, free)
  BY FreeGroup DEF LossesAllowed
<1>3. wanted \in MeshEntries /\ wanted.buffers = m.buffers /\ wanted.released
      /\ wanted.texture = <<>>
  <2>1. <<>> \in Seq(Handles) /\ m \in MeshEntries
    BY DEF EntryShape
  <2> QED BY <2>1 DEF MeshEntries, Ungrouped
<1> HIDE DEF r, wanted, free
<1>4. EntryShape(wanted)
  BY <1>3 DEF EntryShape
<1>5. MeshOwned(wanted) = m.buffers
  <2>1. Range(wanted.texture) = {}
    BY <1>3 DEF Range
  <2> QED BY <1>3, <1>4, <2>1, UngroupedOwns
<1>6. Tracked(free, MeshOwned(wanted), lost) /\ left \subseteq MeshOwned(wanted)
  BY <1>2, <1>5
<1>7. EntryMade(free, r, left, lost, fault)
  <2>1. CASE want_map = NoMap
    <3>1. r = WithWhiteGroup(free, wanted, fault)
      BY <1>1, <2>1
    <3> QED BY <1>3, <1>4, <1>6, <3>1, WhiteGroupResult
  <2>2. CASE want_map # NoMap
    <3>1. r = NewMap(free, wanted, fault)
      BY <1>1, <2>2
    <3> QED BY <1>3, <1>4, <1>6, <3>1, MapResult
  <2> QED BY <2>1, <2>2
<1>8. EntryMade(g, r, left, lost, fault)
  BY <1>2, <1>7, EntryMadeAfter
<1> QED BY <1>8 DEF r

(* The engine's mesh entry holds what the rest of the engine does not. *)
MeshTracked(g, lost) ==
    /\ g.engine.mesh # NoMesh => EntryShape(g.engine.mesh)
    /\ Tracked(g, MeshOwned(g.engine.mesh), lost)

(* h is g with another mesh entry in the engine. *)
WithMesh(g, m) == [g EXCEPT !.engine.mesh = m]

(* Storing an entry changes the engine in its mesh alone. *)
LEMMA PutMesh ==
    ASSUME NEW g, NEW held, NEW lost, Tracked(g, held, lost), NEW m \in MeshEntries \cup {NoMesh},
           NEW h, h = WithMesh(g, m)
    PROVE  Tracked(h, held, lost) /\ MeshStep(g, h) /\ h.engine.mesh = m
<1> DEFINE e == g.engine
           f == [e EXCEPT !.mesh = m]
           k == [g EXCEPT !.engine = f]
<1>1. g \in NativeSides /\ e \in Engines
  BY DEF Tracked, NativeOK, EngineShape
<1>2. h = k
  BY <1>1 DEF NativeSides, WithMesh
<1>3. SameParts(e, f) /\ SameSetup(e, f) /\ f.mesh = m
  BY <1>1 DEF SameParts, SameSetup, Engines
<1> HIDE DEF f
<1>4. Tracked(k, held, lost) /\ k.engine = f /\ NoMoreMaps(g, k)
  BY <1>3, Reconfigure
<1> HIDE DEF k
<1> QED BY <1>2, <1>3, <1>4 DEF MeshStep

(* destroy_mesh_entry, with the entry taken out of the engine. *)
LEMMA DropMesh ==
    ASSUME NEW g, NEW m, NEW lost, "view" \in lost, m # NoMesh => EntryShape(m),
           Tracked(g, MeshOwned(m), lost), NEW d, d = destroy_mesh_entry(g, m)
    PROVE  Tracked(d, {}, lost) /\ MeshStep(g, d) /\ SameEngine(g, d)
<1>1. CASE m = NoMesh
  <2>1. d = g /\ MeshOwned(m) = {}
    BY <1>1 DEF destroy_mesh_entry, MeshOwned
  <2> QED BY <2>1 DEF MeshStep, NoMoreMaps, SameSetup, SameEngine
<1>2. CASE m # NoMesh
  <2> DEFINE X == LiveGroup(m) \cup DataTexture(m) \cup m.buffers
             held == MeshOwned(m)
             Y == held \ X
  <2>1. d = Release(g, X)
    BY <1>2 DEF destroy_mesh_entry
  <2>2. X \subseteq held /\ \A h \in held : h \in X \/ h[1] = "view"
    BY <1>2, EntryParts
  <2> HIDE DEF X, held
  <2>3. Tracked(g, held, lost)
    BY DEF held
  <2>4. Tracked(d, Y, lost) /\ MeshStep(g, d) /\ SameEngine(g, d)
    BY <2>1, <2>2, <2>3, ReleaseHeld, ReleaseIsMeshStep
  <2>5. {} \subseteq Y /\ \A h \in Y : h \in {} \/ h[1] \in lost
    BY <2>2
  <2> HIDE DEF Y
  <2>6. Tracked(d, {}, lost)
    <3> DEFINE none == {}
    <3>1. none \subseteq Y /\ \A h \in Y : h \in none \/ h[1] \in lost
      BY <2>5
    <3> HIDE DEF none
    <3>2. Tracked(d, none, lost)
      BY <2>4, <3>1, LoseHeld
    <3> QED BY <3>2 DEF none
  <2> QED BY <2>4, <2>6
<1> QED BY <1>1, <1>2

(* fresh_entry makes a whole entry or leaves nothing the code keeps. *)
LEMMA FreshResult ==
    ASSUME NEW g, NEW lost, MeshTracked(g, lost), NEW fault, LossesAllowed(fault, lost),
           NEW node \in Nodes
    PROVE  EntryMade(g, fresh_entry(g, node, fault), {}, lost, fault)
<1> DEFINE m == g.engine.mesh
           d == destroy_mesh_entry(g, m)
           k == WithMesh(d, NoMesh)
           c == create_mesh_entry(k, node.geometry, fault)
           r == fresh_entry(g, node, fault)
<1>1. r = IF c.ok THEN IF node.map = NoMap THEN Return(c.g, c.val)
                       ELSE rebuild_group(c.g, c.val, node.map, fault)
          ELSE c
  BY DEF fresh_entry, Then, WithMesh
<1>2. node.geometry \in 1 .. 2 /\ node.map \in Maps
  BY DEF Nodes
<1>3. "view" \in lost /\ (m # NoMesh => EntryShape(m)) /\ Tracked(g, MeshOwned(m), lost)
  BY DEF LossesAllowed, MeshTracked
<1> HIDE DEF m, r
<1>4. Tracked(d, {}, lost) /\ MeshStep(g, d)
  BY <1>3, DropMesh
<1> HIDE DEF d
<1>5. Tracked(k, {}, lost) /\ MeshStep(d, k)
  BY <1>4, PutMesh
<1> HIDE DEF k
<1>6. EntryMade(k, c, {}, lost, fault) /\ MeshStep(g, k)
  BY <1>2, <1>4, <1>5, CreateResult, MeshStepTransitive
<1> HIDE DEF c
<1>7. EntryMade(g, c, {}, lost, fault)
  BY <1>6, EntryMadeAfter
<1>8. CASE ~c.ok
  BY <1>1, <1>7, <1>8 DEF r
<1>9. CASE c.ok /\ node.map = NoMap
  <2>1. r.ok /\ r.g = c.g /\ r.val = c.val
    BY <1>1, <1>9 DEF Return, Result
  <2>2. EntryMade(g, r, {}, lost, fault)
    BY <1>7, <1>9, <2>1 DEF EntryMade
  <2> QED BY <2>2 DEF r
<1>10. CASE c.ok /\ node.map # NoMap
  <2>1. r = rebuild_group(c.g, c.val, node.map, fault)
    BY <1>1, <1>10
  <2>2. EntryShape(c.val) /\ Tracked(c.g, MeshOwned(c.val), lost) /\ MeshStep(g, c.g)
    BY <1>7, <1>10 DEF EntryMade
  <2> DEFINE none == {}
  <2>3. none \subseteq c.val.buffers
    OBVIOUS
  <2> HIDE DEF none
  <2>4. EntryMade(c.g, r, none, lost, fault)
    BY <1>2, <2>1, <2>2, <2>3, RebuildResult
  <2>5. EntryMade(g, r, none, lost, fault)
    BY <2>2, <2>4, EntryMadeAfter
  <2> QED BY <2>5 DEF r, none
<1> QED BY <1>8, <1>9, <1>10

(* A mesh entry has its group. *)
MeshClean(e) == e.mesh # NoMesh => ~e.mesh.released

(* What entry_for leaves. *)
Entered(g, r, lost, fault) ==
    /\ MeshTracked(r.g, lost) /\ MeshStep(g, r.g)
    /\ r.ok => r.g.engine.mesh # NoMesh
    /\ fault = NoFault =>
          /\ r.ok
          /\ MeshClean(g.engine) => MeshClean(r.g.engine)

(* Keeping what was made. *)
LEMMA StoreResult ==
    ASSUME NEW g, NEW lost, NEW fault, NEW r, NEW left, left # NoMesh => EntryShape(left),
           left \in MeshEntries \cup {NoMesh},
           EntryMade(g, r, MeshOwned(left), lost, fault), NEW s, s = StoreEntry(r, left)
    PROVE  Entered(g, s, lost, fault)
<1> DEFINE m == IF r.ok THEN r.val ELSE left
           h == WithMesh(r.g, m)
<1>1. s.g = h /\ s.ok = r.ok
  BY DEF StoreEntry, WithMesh, Result
<1>2. /\ m \in MeshEntries \cup {NoMesh} /\ (m # NoMesh => EntryShape(m))
      /\ Tracked(r.g, MeshOwned(m), lost)
      /\ (r.ok => m # NoMesh /\ ~m.released)
  BY GpuConstants DEF EntryMade, EntryShape
<1> HIDE DEF m
<1>3. Tracked(h, MeshOwned(m), lost) /\ MeshStep(r.g, h) /\ h.engine.mesh = m
  BY <1>2, PutMesh
<1> HIDE DEF h
<1>4. MeshStep(g, h)
  BY <1>3, MeshStepTransitive DEF EntryMade
<1> QED BY <1>1, <1>2, <1>3, <1>4 DEF Entered, MeshTracked, EntryMade, MeshClean

(* entry_for finds the entry, rebuilds it or makes it. *)
LEMMA EntryResult ==
    ASSUME NEW g, NEW lost, MeshTracked(g, lost), NEW fault, LossesAllowed(fault, lost),
           NEW node \in Nodes
    PROVE  Entered(g, entry_for(g, node, fault), lost, fault)
<1> DEFINE m == g.engine.mesh
           r == entry_for(g, node, fault)
<1>1. (m # NoMesh => EntryShape(m)) /\ Tracked(g, MeshOwned(m), lost)
  BY DEF MeshTracked
<1>2. CASE m = NoMesh \/ m.geometry # node.geometry
  <2> DEFINE f == fresh_entry(g, node, fault)
             left == NoMesh
  <2>1. r = StoreEntry(f, left)
    BY <1>2 DEF entry_for
  <2>2. EntryMade(g, f, {}, lost, fault) /\ MeshOwned(left) = {}
    BY FreshResult DEF MeshOwned
  <2>3. left \in MeshEntries \cup {NoMesh} /\ (left # NoMesh => EntryShape(left))
    OBVIOUS
  <2> HIDE DEF f, left, r
  <2>4. Entered(g, r, lost, fault)
    BY <2>1, <2>2, <2>3, StoreResult
  <2> QED BY <2>4 DEF r
<1>3. CASE ~(m = NoMesh \/ m.geometry # node.geometry) /\ m.map = node.map
  <2>1. r.g = g /\ r.ok
    BY <1>3 DEF entry_for, Done, Return, Result
  <2> HIDE DEF r
  <2>2. Entered(g, r, lost, fault)
    BY <1>3, <2>1 DEF Entered, MeshClean, MeshStep, NoMoreMaps, SameSetup
  <2> QED BY <2>2 DEF r
<1>4. CASE ~(m = NoMesh \/ m.geometry # node.geometry) /\ m.map # node.map
  <2> DEFINE left == Ungrouped(m)
             f == rebuild_group(g, m, node.map, fault)
  <2>1. r = StoreEntry(f, left)
    BY <1>4 DEF entry_for
  <2>2. EntryShape(m) /\ node.map \in Maps
    BY <1>1, <1>4 DEF Nodes
  <2>3. left \in MeshEntries /\ left.buffers = m.buffers /\ left.released /\ left.texture = <<>>
    <3>1. <<>> \in Seq(Handles) /\ m \in MeshEntries
      BY <2>2 DEF EntryShape
    <3> QED BY <3>1 DEF MeshEntries, Ungrouped
  <2> HIDE DEF f, left, r
  <2>4. EntryShape(left)
    BY <2>2, <2>3 DEF EntryShape
  <2>5. MeshOwned(left) = m.buffers
    <3>1. Range(left.texture) = {}
      BY <2>3 DEF Range
    <3> QED BY <2>3, <2>4, <3>1, UngroupedOwns
  <2>6. EntryMade(g, f, m.buffers, lost, fault)
    <3>1. f = rebuild_group(g, m, node.map, fault)
      BY DEF f
    <3> DEFINE b == m.buffers
    <3>2. b \subseteq m.buffers
      OBVIOUS
    <3> HIDE DEF m, b
    <3>3. EntryMade(g, f, b, lost, fault)
      BY <1>1, <2>2, <3>1, <3>2, RebuildResult
    <3> QED BY <3>3 DEF b
  <2>7. Entered(g, r, lost, fault)
    BY <2>1, <2>3, <2>4, <2>5, <2>6, StoreResult
  <2> QED BY <2>7 DEF r
<1> QED BY <1>2, <1>3, <1>4

-----------------------------------------------------------------------------
(* A frame. *)

(* What was built and is released at once leaves no trace. *)
LEMMA BuildAndRelease ==
    ASSUME NEW g, NativeOK(g), NEW kinds, NEW r, Built(g, kinds, r)
    PROVE  Release(r.g, Range(r.val)) = g
<1> DEFINE X == Range(r.val)
           h == r.g
           d == Release(h, X)
<1>1. r.val \in Seq(Handles) /\ \A k \in 1 .. Len(r.val) : r.val[k] \notin g.live
  BY DEF Built, IsMade
<1>2. X \cap g.live = {} /\ X \subseteq Handles
  <2>1. X = {r.val[k] : k \in 1 .. Len(r.val)}
    BY <1>1 DEF Range
  <2> QED BY <1>1, <2>1
<1> HIDE DEF X
<1>3. /\ h \in NativeSides /\ h.live = g.live \cup X
      /\ h.mapped = g.mapped /\ h.pending = g.pending
      /\ h.misuse = g.misuse /\ h.engine = g.engine
  BY <1>2 DEF Built, NativeOK, NativeSides, X
<1>4. /\ h.live \ X = g.live /\ h.mapped \ X = g.mapped /\ h.pending \ X = g.pending
      /\ X \subseteq h.live
  BY <1>2, <1>3 DEF NativeOK
<1> HIDE DEF h
<1>5. /\ d \in NativeSides /\ d.live = g.live /\ d.mapped = g.mapped
      /\ d.pending = g.pending /\ d.misuse = g.misuse /\ d.engine = g.engine
  BY <1>3, <1>4 DEF NativeSides, Release, NativeOK
<1> HIDE DEF d
<1>6. d = g
  BY <1>5 DEF NativeSides, NativeOK
<1> QED BY <1>6 DEF d, h, X

(* A frame takes two calls. *)
LEMMA FrameCallsFacts ==
    FrameCalls \in Seq(Calls) /\ Len(FrameCalls) = 2
<1>1. device_create_command_encoder \in Calls /\ command_encoder_finish \in Calls
  BY DEF device_create_command_encoder, command_encoder_finish, Calls, Kinds, Roles
<1> QED BY <1>1 DEF FrameCalls

(* The native side after a frame is encoded is what it was. *)
Encoded(g, r, at) == r.g = g /\ (at \notin 1 .. 2 => r.ok)

(* Encoding uses live objects only. *)
LEMMA EncodeResult ==
    ASSUME NEW g, NativeOK(g), NEW used, used \subseteq g.live, NEW at
    PROVE  Encoded(g, Encode(g, used, at), at)
<1> DEFINE b == Build(g, FrameCalls, at)
           r == Encode(g, used, at)
<1>1. r = IF b.ok THEN Done(Release(b.g, Range(b.val))) ELSE b
  BY UseLive DEF Encode, Then
<1>2. CASE at \in 1 .. 2
  <2>1. b = Failed(g)
    BY <1>2, FrameCallsFacts, BuildResult
  <2> HIDE DEF b
  <2> QED BY <1>1, <1>2, <2>1 DEF Failed, Result, Encoded
<1>3. CASE at \notin 1 .. 2
  <2>1. Built(g, FrameCalls, b)
    BY <1>3, FrameCallsFacts, BuildResult
  <2> HIDE DEF b, r
  <2>2. Release(b.g, Range(b.val)) = g /\ b.ok
    BY <2>1, BuildAndRelease DEF Built
  <2>3. Encoded(g, r, at)
    BY <1>1, <2>2 DEF Done, Return, Result, Encoded
  <2> QED BY <2>3 DEF r
<1> QED BY <1>2, <1>3

(* What submit leaves. *)
Submitted(g, u, lost, fault) ==
    /\ MeshTracked(u.g, lost) /\ MeshStep(g, u.g)
    /\ fault = NoFault /\ MeshClean(g.engine) => u.ok /\ MeshClean(u.g.engine)

(* submit: the entry is looked up, then the frame is encoded with it. *)
LEMMA SubmitResult ==
    ASSUME NEW g, NEW lost, MeshTracked(g, lost), NEW fault, LossesAllowed(fault, lost),
           NEW node \in Nodes
    PROVE  Submitted(g, submit(g, node, fault), lost, fault)
<1> DEFINE x == entry_for(g, node, fault)
           h == x.g
           m == h.engine.mesh
           used == {h.engine.view, h.engine.texture, h.engine.readback.buffer, m.group}
                   \cup m.buffers
           at == Fails(fault, "encode")
           c == Encode(h, used, at)
           u == submit(g, node, fault)
<1>1. Entered(g, x, lost, fault)
  BY EntryResult
<1>2. u = IF x.ok THEN IF m.released THEN Failed(h) ELSE c ELSE x
  BY DEF submit, Then, submit_draw_frame
<1>3. fault = NoFault => at \notin 1 .. 2
  BY FailsNone
<1> HIDE DEF x, u, at
<1>4. /\ MeshTracked(h, lost) /\ MeshStep(g, h) /\ (x.ok => m # NoMesh)
      /\ fault = NoFault /\ MeshClean(g.engine) => x.ok /\ ~m.released /\ MeshClean(h.engine)
  BY <1>1 DEF Entered, MeshClean
<1> HIDE DEF h
<1>5. ASSUME x.ok, ~m.released PROVE Encoded(h, c, at)
  <2>1. EntryShape(m) /\ Tracked(h, MeshOwned(m), lost)
    BY <1>4, <1>5 DEF MeshTracked
  <2>2. {m.group} \cup m.buffers \subseteq MeshOwned(m)
    BY <1>4, <1>5 DEF MeshOwned, LiveGroup
  <2>3. used \subseteq h.live /\ NativeOK(h)
    BY <2>1, <2>2 DEF Tracked, Rest
  <2> HIDE DEF used
  <2> QED BY <2>3, EncodeResult
<1> HIDE DEF c
<1>6. u.g = h
  BY <1>2, <1>5 DEF Failed, Result, Encoded, h
<1>7. fault = NoFault /\ MeshClean(g.engine) => u.ok
  BY <1>2, <1>3, <1>4, <1>5 DEF Encoded
<1>8. Submitted(g, u, lost, fault)
  BY <1>4, <1>6, <1>7 DEF Submitted
<1> QED BY <1>8 DEF u

-----------------------------------------------------------------------------
(* Reading a frame back. *)

(* h is g but for what is mapped and pending. *)
Remapped(g, h) ==
    /\ h = [g EXCEPT !.mapped = h.mapped, !.pending = h.pending]
    /\ h.mapped \subseteq g.live /\ h.pending \subseteq g.live

(* The mapped and the pending buffers of h. *)
MapsAre(h, M, P) == h.mapped = M /\ h.pending = P

(* h is g with mapped and pending as given. *)
LEMMA RemapFields ==
    ASSUME NEW g \in NativeSides, NEW M, NEW P, M \subseteq g.live, P \subseteq g.live,
           NEW h, h = [g EXCEPT !.mapped = M, !.pending = P]
    PROVE  Remapped(g, h) /\ MapsAre(h, M, P)
  BY DEF Remapped, NativeSides, MapsAre

(* p is g after a poll. *)
PolledOK(g, p) ==
    /\ Remapped(g, p) /\ NativeOK(p) /\ g.mapped \subseteq p.mapped
    /\ g.mapped = {} /\ g.pending = {} => p.mapped = {} /\ p.pending = {}

(* A poll maps what was pending, drops it or leaves it. *)
LEMMA PollResult ==
    ASSUME NEW g, NativeOK(g), NEW late, NEW b \in g.live, NEW p,
           p = Use(Polled(g, late), {b})
    PROVE  PolledOK(g, p)
<1> DEFINE P == IF late = "pending" THEN g.pending ELSE {}
           M == IF late = "mapped" THEN g.mapped \cup g.pending ELSE g.mapped
           q == Polled(g, late)
<1>1. g \in NativeSides /\ M \subseteq g.live /\ P \subseteq g.live
  BY DEF NativeOK
<1>2. q = [g EXCEPT !.mapped = M, !.pending = P]
  BY <1>1 DEF Polled, NativeSides
<1>3. /\ g.mapped \subseteq M
      /\ g.mapped = {} /\ g.pending = {} => M = {} /\ P = {}
  OBVIOUS
<1> HIDE DEF M, P, q
<1>4. Remapped(g, q) /\ MapsAre(q, M, P)
  BY <1>1, <1>2, RemapFields
<1>5. NativeOK(q)
  BY <1>1, <1>2 DEF NativeOK, NativeSides
<1>6. b \in q.live
  BY <1>1, <1>2 DEF NativeSides
<1>7. p = q
  BY <1>5, <1>6, UseLive DEF q
<1> QED BY <1>3, <1>4, <1>5, <1>7 DEF PolledOK, MapsAre

(* What reading a readback leaves: q returns it, and no other readback's mapping *)
(* is touched.                                                                   *)
ReadBack(g, rb, q, fault) ==
    /\ Remapped(g, q.g)
    /\ q.val \in Readbacks /\ q.val.buffer = rb.buffer
    /\ q.val.mapped => rb.buffer \in q.g.mapped
    /\ \A b \in g.mapped : b # rb.buffer => b \in q.g.mapped
    /\ fault = NoFault /\ g.mapped = {} /\ g.pending = {} =>
          q.ok /\ q.g.mapped = {} /\ q.g.pending = {}

(* read_staged maps, copies and unmaps; a failure leaves the readback as marked. *)
LEMMA ReadResult ==
    ASSUME NEW g, NativeOK(g), NEW rb \in Readbacks, rb.buffer \in g.live,
           rb.mapped => rb.buffer \in g.mapped, NEW fault, NEW late
    PROVE  ReadBack(g, rb, read_staged(g, rb, fault, late), fault)
<1> DEFINE b == rb.buffer
           p == Use(Polled(g, late), {b})
           at == Fails(fault, "map")
           m == map_read(g, rb, fault, late)
           q == read_staged(g, rb, fault, late)
<1>1. /\ Remapped(g, p) /\ NativeOK(p) /\ g.mapped \subseteq p.mapped
      /\ g.mapped = {} /\ g.pending = {} => p.mapped = {} /\ p.pending = {}
  <2>1. p = Use(Polled(g, late), {b})
    OBVIOUS
  <2> HIDE DEF p
  <2>2. PolledOK(g, p)
    BY <2>1, PollResult
  <2> QED BY <2>2 DEF PolledOK
<1>2. fault = NoFault => at = 0
  BY FailsNone
<1>3. m = IF rb.mapped THEN Failed(g)
          ELSE IF b \in g.mapped \cup g.pending \/ at = 1 THEN Failed(p)
          ELSE IF at = 2 THEN Failed([p EXCEPT !.pending = @ \cup {b}])
          ELSE Done([p EXCEPT !.mapped = @ \cup {b}])
  BY DEF map_read
<1>4. q = IF ~m.ok THEN Result(m.g, FALSE, rb)
          ELSE IF at = 3 THEN Result(m.g, FALSE, [rb EXCEPT !.mapped = TRUE])
          ELSE Return([m.g EXCEPT !.mapped = @ \ {b}], rb)
  BY DEF read_staged, read_mapped
<1>5. /\ g \in NativeSides /\ p \in NativeSides /\ p.live = g.live
      /\ p.mapped \subseteq g.live /\ p.pending \subseteq g.live
  BY <1>1 DEF NativeOK, Remapped, NativeSides
<1> HIDE DEF p, at, m, q
<1>6. ASSUME NEW M, NEW P, M \subseteq g.live, P \subseteq g.live,
             NEW h, h = [p EXCEPT !.mapped = M, !.pending = P]
      PROVE  Remapped(g, h) /\ MapsAre(h, M, P)
  <2>1. h = [g EXCEPT !.mapped = M, !.pending = P]
    BY <1>1, <1>5, <1>6 DEF Remapped, NativeSides
  <2> QED BY <1>5, <1>6, <2>1, RemapFields
<1>7. CASE rb.mapped
  <2>1. q = [g |-> g, ok |-> FALSE, val |-> rb]
    BY <1>3, <1>4, <1>7 DEF Failed, Result
  <2>2. Remapped(g, g) /\ b \in g.mapped
    BY <1>5, <1>7 DEF Remapped, NativeSides, NativeOK
  <2>3. ReadBack(g, rb, q, fault)
    BY <1>7, <2>1, <2>2 DEF ReadBack
  <2> QED BY <2>3 DEF q
<1>8. CASE ~rb.mapped /\ (b \in g.mapped \cup g.pending \/ at = 1)
  <2>1. q = [g |-> p, ok |-> FALSE, val |-> rb]
    BY <1>3, <1>4, <1>8 DEF Failed, Result
  <2>2. ReadBack(g, rb, q, fault)
    BY <1>1, <1>2, <1>8, <2>1 DEF ReadBack
  <2> QED BY <2>2 DEF q
<1>9. CASE ~rb.mapped /\ ~(b \in g.mapped \cup g.pending \/ at = 1) /\ at = 2
  <2> DEFINE h == [p EXCEPT !.pending = @ \cup {b}]
             P == p.pending \cup {b}
             M == p.mapped
  <2>1. q = [g |-> h, ok |-> FALSE, val |-> rb]
    BY <1>3, <1>4, <1>9 DEF Failed, Result
  <2>2. h = [p EXCEPT !.mapped = M, !.pending = P] /\ M \subseteq g.live /\ P \subseteq g.live
    BY <1>5 DEF NativeSides
  <2> HIDE DEF h, P
  <2>3. Remapped(g, h) /\ h.mapped = p.mapped
    <3> HIDE DEF M
    <3>1. Remapped(g, h) /\ MapsAre(h, M, P)
      BY <1>6, <2>2
    <3> QED BY <3>1 DEF M, MapsAre
  <2>4. ReadBack(g, rb, q, fault)
    BY <1>1, <1>2, <1>9, <2>1, <2>3 DEF ReadBack
  <2> QED BY <2>4 DEF q
<1>10. CASE ~rb.mapped /\ ~(b \in g.mapped \cup g.pending \/ at = 1) /\ at # 2
  <2> DEFINE h == [p EXCEPT !.mapped = @ \cup {b}]
             M == p.mapped \cup {b}
             P == p.pending
             k == [h EXCEPT !.mapped = @ \ {b}]
             N == (p.mapped \cup {b}) \ {b}
  <2>1. m = Done(h)
    BY <1>3, <1>10
  <2>2. /\ h = [p EXCEPT !.mapped = M, !.pending = P] /\ M \subseteq g.live /\ P \subseteq g.live
        /\ k = [p EXCEPT !.mapped = N, !.pending = P] /\ N \subseteq g.live
    BY <1>5 DEF NativeSides
  <2>3. q = IF at = 3 THEN [g |-> h, ok |-> FALSE, val |-> [rb EXCEPT !.mapped = TRUE]]
            ELSE [g |-> k, ok |-> TRUE, val |-> rb]
    <3>1. m.ok /\ m.g = h
      BY <2>1 DEF Done, Return, Result
    <3> QED BY <1>4, <3>1 DEF Return, Result
  <2> HIDE DEF h, k
  <2>4. /\ Remapped(g, h) /\ h.mapped = p.mapped \cup {b}
        /\ Remapped(g, k) /\ k.mapped = (p.mapped \cup {b}) \ {b} /\ k.pending = p.pending
    <3> HIDE DEF M, N, P
    <3>1. Remapped(g, h) /\ MapsAre(h, M, P)
      BY <1>6, <2>2
    <3>2. Remapped(g, k) /\ MapsAre(k, N, P)
      BY <1>6, <2>2
    <3> QED BY <3>1, <3>2 DEF M, N, P, MapsAre
  <2>5. CASE at = 3
    <3> DEFINE v == [rb EXCEPT !.mapped = TRUE]
    <3>1. v \in Readbacks /\ v.buffer = b /\ q.val = v /\ q.g = h /\ ~q.ok
      BY <2>3, <2>5 DEF Readbacks
    <3> HIDE DEF v
    <3>2. ReadBack(g, rb, q, fault)
      BY <1>1, <1>2, <2>4, <2>5, <3>1 DEF ReadBack
    <3> QED BY <3>2 DEF q
  <2>6. CASE at # 3
    <3>1. q.val = rb /\ q.g = k /\ q.ok
      BY <2>3, <2>6
    <3>2. ReadBack(g, rb, q, fault)
      BY <1>1, <1>10, <2>4, <3>1 DEF ReadBack
    <3> QED BY <3>2 DEF q
  <2> QED BY <2>5, <2>6
<1> QED BY <1>7, <1>8, <1>9, <1>10

(* The engine of h is f. *)
HasEngine(h, f) == h.engine = f

(* The mappings change, and what the engine knows of them. *)
LEMMA TrackRemapped ==
    ASSUME NEW g, NEW held, NEW lost, Tracked(g, held, lost), NEW k, Remapped(g, k),
           NEW f, EngineShape(f), Rest(f) = Rest(g.engine), MapsAgree(f, k.mapped),
           NEW h, h = [k EXCEPT !.engine = f]
    PROVE  Tracked(h, held, lost) /\ HasEngine(h, f) /\ MapsAre(h, k.mapped, k.pending)
<1>1. g \in NativeSides /\ f \in Engines
  BY DEF Tracked, NativeOK, EngineShape
<1>2. /\ k \in NativeSides /\ k.live = g.live /\ k.misuse = g.misuse
      /\ k.mapped \subseteq g.live /\ k.pending \subseteq g.live
  <2> DEFINE M == k.mapped
             P == k.pending
  <2>1. k = [g EXCEPT !.mapped = M, !.pending = P] /\ M \subseteq g.live /\ P \subseteq g.live
    BY DEF Remapped
  <2> HIDE DEF M, P
  <2>2. k \in NativeSides /\ k.live = g.live /\ k.misuse = g.misuse
    BY <1>1, <2>1 DEF NativeSides
  <2> QED BY <2>1, <2>2 DEF M, P
<1>3. /\ h \in NativeSides /\ h.live = g.live /\ h.misuse = g.misuse /\ h.engine = f
      /\ h.mapped = k.mapped /\ h.pending = k.pending
  BY <1>1, <1>2 DEF NativeSides
<1>4. NativeOK(h)
  BY <1>2, <1>3 DEF NativeOK, Tracked
<1> QED BY <1>3, <1>4 DEF Tracked, HasEngine, MapsAre

(* f differs from e only in which readbacks are marked mapped. *)
SameLook(e, f) ==
    /\ f.size = e.size /\ f.super_sample = e.super_sample /\ f.algorithm = e.algorithm
    /\ f.mesh = e.mesh /\ f.view = e.view
    /\ e.supersampler = NoSampler => f.supersampler = NoSampler
    /\ e.supersampler # NoSampler =>
          /\ f.supersampler # NoSampler
          /\ f.supersampler.view = e.supersampler.view
          /\ f.supersampler.cells = e.supersampler.cells
          /\ f.supersampler.algorithm = e.supersampler.algorithm

(* The outcome of stage: the picture is read and nothing stays mapped. *)
Staged(g, held, lost, s, fault) ==
    /\ Tracked(s.g, held, lost) /\ SameLook(g.engine, s.g.engine)
    /\ /\ fault = NoFault /\ g.mapped = {} /\ g.pending = {}
       /\ g.engine.super_sample = "gpu" => g.engine.supersampler # NoSampler
       => s.ok /\ s.g.mapped = {} /\ s.g.pending = {}

(* The picture is read through the readback, or through the supersampler. *)
LEMMA ReadbackResult ==
    ASSUME NEW g, NEW held, NEW lost, Tracked(g, held, lost), NEW fault, NEW q,
           ReadBack(g, g.engine.readback, q, fault), NEW s, s = StoreReadback(q)
    PROVE  Staged(g, held, lost, s, fault)
<1> DEFINE e == g.engine
           f == [e EXCEPT !.readback = q.val]
           h == [q.g EXCEPT !.engine = f]
<1>1. g \in NativeSides /\ EngineShape(e) /\ e \in Engines /\ MapsAgree(e, g.mapped)
  BY DEF Tracked, NativeOK, EngineShape
<1>2. Remapped(g, q.g) /\ q.val \in Readbacks /\ q.val.buffer = e.readback.buffer
  BY DEF ReadBack
<1>3. q.g.engine = e /\ q.g \in NativeSides
  <2> DEFINE k == q.g
             M == k.mapped
             P == k.pending
  <2>1. k = [g EXCEPT !.mapped = M, !.pending = P] /\ M \subseteq g.live /\ P \subseteq g.live
    BY <1>2 DEF Remapped
  <2> HIDE DEF M, P, k
  <2>2. k \in NativeSides /\ k.engine = e
    BY <1>1, <2>1 DEF NativeSides
  <2> QED BY <2>2 DEF k
<1>4. s.g = h /\ s.ok = q.ok
  BY <1>3 DEF StoreReadback, Result, NativeSides
<1>5. /\ f \in Engines /\ f.readback = q.val /\ f.core = e.core /\ f.texture = e.texture
      /\ f.view = e.view /\ f.supersampler = e.supersampler /\ f.white = e.white
      /\ f.samplers = e.samplers
  BY <1>1, <1>2 DEF Engines
<1>6. SameLook(e, f)
  BY <1>1 DEF Engines, SameLook
<1> HIDE DEF f
<1>7. EngineShape(f) /\ Rest(f) = Rest(e)
  BY <1>1, <1>2, <1>5 DEF EngineShape, Rest
<1>8. MapsAgree(f, q.g.mapped)
  <2>1. e.supersampler # NoSampler =>
            e.supersampler.readback.buffer # e.readback.buffer
    <3>1. e.readback.buffer[2] = "readback"
      BY <1>1 DEF EngineShape
    <3>2. e.supersampler # NoSampler => e.supersampler.readback.buffer[2] # "readback"
      BY <1>1 DEF EngineShape, SamplerShape
    <3> QED BY <3>1, <3>2
  <2> QED BY <1>1, <1>2, <1>5, <2>1 DEF MapsAgree, ReadBack
<1> DEFINE k == q.g
<1>9. Remapped(g, k) /\ h = [k EXCEPT !.engine = f] /\ MapsAgree(f, k.mapped)
  BY <1>2, <1>8
<1> HIDE DEF h, k, e
<1>10. Tracked(h, held, lost) /\ HasEngine(h, f) /\ MapsAre(h, k.mapped, k.pending)
  <2>1. Rest(f) = Rest(g.engine)
    BY <1>7 DEF e
  <2> QED BY <1>7, <1>9, <2>1, TrackRemapped
<1>11. h.engine = f /\ h.mapped = q.g.mapped /\ h.pending = q.g.pending
  BY <1>10 DEF HasEngine, MapsAre, k
<1> QED BY <1>4, <1>6, <1>10, <1>11 DEF Staged, ReadBack, e

(* The supersampled picture is read through the readback of the records. *)
LEMMA RecordsResult ==
    ASSUME NEW g, NEW held, NEW lost, Tracked(g, held, lost), NEW fault, NEW q,
           g.engine.supersampler # NoSampler,
           ReadBack(g, g.engine.supersampler.readback, q, fault), NEW s, s = StoreRecords(q)
    PROVE  Staged(g, held, lost, s, fault)
<1> DEFINE e == g.engine
           x == e.supersampler
           y == [x EXCEPT !.readback = q.val]
           f == [e EXCEPT !.supersampler = y]
           h == [q.g EXCEPT !.engine = f]
<1>1. /\ g \in NativeSides /\ EngineShape(e) /\ e \in Engines /\ MapsAgree(e, g.mapped)
      /\ x \in Supersamplers /\ SamplerShape(x)
  BY DEF Tracked, NativeOK, EngineShape, Engines
<1>2. Remapped(g, q.g) /\ q.val \in Readbacks /\ q.val.buffer = x.readback.buffer
  BY DEF ReadBack
<1>3. q.g.engine = e /\ q.g \in NativeSides
  <2> DEFINE k == q.g
             M == k.mapped
             P == k.pending
  <2>1. k = [g EXCEPT !.mapped = M, !.pending = P] /\ M \subseteq g.live /\ P \subseteq g.live
    BY <1>2 DEF Remapped
  <2> HIDE DEF M, P, k
  <2>2. k \in NativeSides /\ k.engine = e
    BY <1>1, <2>1 DEF NativeSides
  <2> QED BY <2>2 DEF k
<1>4. s.g = h /\ s.ok = q.ok
  BY <1>1, <1>3 DEF StoreRecords, Result, NativeSides, Engines
<1>5. /\ y \in Supersamplers /\ y.handles = x.handles /\ y.readback = q.val
      /\ y.view = x.view /\ y.cells = x.cells /\ y.algorithm = x.algorithm
  BY <1>1, <1>2 DEF Supersamplers
<1> HIDE DEF y
<1>6. y # NoSampler /\ SamplerShape(y) /\ SamplerOwned(y) = SamplerOwned(x)
  BY <1>1, <1>2, <1>5, GpuConstants DEF SamplerShape, SamplerOwned
<1>7. /\ f \in Engines /\ f.readback = e.readback /\ f.core = e.core /\ f.texture = e.texture
      /\ f.view = e.view /\ f.supersampler = y /\ f.white = e.white
      /\ f.samplers = e.samplers
  BY <1>1, <1>5 DEF Engines
<1>8. f.size = e.size /\ f.super_sample = e.super_sample /\ f.algorithm = e.algorithm
      /\ f.mesh = e.mesh
  BY <1>1 DEF Engines
<1> HIDE DEF f
<1>9. EngineShape(f) /\ Rest(f) = Rest(e) /\ SameLook(e, f)
  BY <1>1, <1>5, <1>6, <1>7, <1>8 DEF EngineShape, Rest, SameLook
<1>10. MapsAgree(f, q.g.mapped)
  <2>1. x.readback.buffer # e.readback.buffer
    <3>1. e.readback.buffer[2] = "readback"
      BY <1>1 DEF EngineShape
    <3>2. x.readback.buffer[2] # "readback"
      BY <1>1 DEF SamplerShape
    <3> QED BY <3>1, <3>2
  <2> QED BY <1>1, <1>2, <1>5, <1>7, <2>1 DEF MapsAgree, ReadBack
<1> DEFINE k == q.g
<1>11. Remapped(g, k) /\ h = [k EXCEPT !.engine = f] /\ MapsAgree(f, k.mapped)
  BY <1>2, <1>10
<1> HIDE DEF h, k, e
<1>12. Tracked(h, held, lost) /\ HasEngine(h, f) /\ MapsAre(h, k.mapped, k.pending)
  <2>1. Rest(f) = Rest(g.engine)
    BY <1>9 DEF e
  <2> QED BY <1>9, <1>11, <2>1, TrackRemapped
<1>13. h.engine = f /\ h.mapped = q.g.mapped /\ h.pending = q.g.pending
  BY <1>12 DEF HasEngine, MapsAre, k
<1> QED BY <1>4, <1>9, <1>12, <1>13 DEF Staged, ReadBack, e

(* stage, in either mode and whichever of its calls fails. *)
LEMMA StageResult ==
    ASSUME NEW g, NEW held, NEW lost, Tracked(g, held, lost), NEW fault, NEW late
    PROVE  Staged(g, held, lost, stage(g, fault, late), fault)
<1> DEFINE e == g.engine
           s == stage(g, fault, late)
<1>1. /\ NativeOK(g) /\ EngineShape(e) /\ e \in Engines /\ MapsAgree(e, g.mapped)
      /\ Rest(e) \subseteq g.live
  BY DEF Tracked, EngineShape
<1>2. CASE e.super_sample # "gpu"
  <2> DEFINE rb == e.readback
             q == read_staged(g, rb, fault, late)
  <2>1. s = StoreReadback(q)
    BY <1>2 DEF stage
  <2>2. /\ rb \in Readbacks /\ rb.buffer \in g.live /\ (rb.mapped => rb.buffer \in g.mapped)
    BY <1>1 DEF Engines, Rest, MapsAgree
  <2>3. ReadBack(g, rb, q, fault)
    <3> HIDE DEF rb
    <3> QED BY <1>1, <2>2, ReadResult
  <2> HIDE DEF q, s
  <2>4. Staged(g, held, lost, s, fault)
    BY <2>1, <2>3, ReadbackResult
  <2> QED BY <2>4 DEF s
<1>3. CASE e.super_sample = "gpu" /\ e.supersampler = NoSampler
  <2>1. s.g = g /\ ~s.ok
    BY <1>3 DEF stage, Failed, Result
  <2> HIDE DEF s
  <2>2. Staged(g, held, lost, s, fault)
    BY <1>3, <2>1 DEF Staged, SameLook
  <2> QED BY <2>2 DEF s
<1>4. CASE e.super_sample = "gpu" /\ e.supersampler # NoSampler
  <2> DEFINE x == e.supersampler
             d == dispatch_compute_pass(g, fault)
             rb == x.readback
             q == read_staged(g, rb, fault, late)
             at == Fails(fault, "compute")
  <2>1. s = IF d.ok THEN StoreRecords(read_staged(d.g, d.g.engine.supersampler.readback,
                                                  fault, late))
            ELSE d
    BY <1>4 DEF stage, Then
  <2>2. x \in Supersamplers /\ SamplerShape(x) /\ x.handles \subseteq g.live
    BY <1>1, <1>4 DEF Engines, EngineShape, Rest, SamplerOwned
  <2>3. Encoded(g, d, at)
    <3> DEFINE used == x.handles
    <3>1. d = Encode(g, used, at) /\ used \subseteq g.live
      BY <2>2 DEF dispatch_compute_pass
    <3> HIDE DEF used, d
    <3> QED BY <1>1, <3>1, EncodeResult
  <2> HIDE DEF d, s
  <2>4. d.g = g /\ (fault = NoFault => d.ok)
    BY <2>3, FailsNone DEF Encoded
  <2>5. CASE ~d.ok
    <3>1. s.g = g /\ ~s.ok /\ fault # NoFault
      BY <2>1, <2>4, <2>5
    <3>2. Staged(g, held, lost, s, fault)
      BY <3>1 DEF Staged, SameLook
    <3> QED BY <3>2 DEF s
  <2>6. CASE d.ok
    <3>1. s = StoreRecords(q)
      BY <2>1, <2>4, <2>6
    <3>2. /\ rb \in Readbacks /\ rb.buffer \in g.live /\ (rb.mapped => rb.buffer \in g.mapped)
      BY <1>1, <1>4, <2>2 DEF Supersamplers, SamplerShape, MapsAgree
    <3>3. ReadBack(g, rb, q, fault)
      <4> HIDE DEF rb
      <4> QED BY <1>1, <3>2, ReadResult
    <3> HIDE DEF q
    <3>4. Staged(g, held, lost, s, fault)
      BY <1>4, <3>1, <3>3, RecordsResult
    <3> QED BY <3>4 DEF s
  <2> QED BY <2>5, <2>6
<1> QED BY <1>2, <1>3, <1>4

-----------------------------------------------------------------------------
(* The engine comes and goes. *)

(* Without an engine, all that is live is lost. *)
AllLost(g, lost) ==
    g.engine = NoEngine /\ NativeOK(g) /\ \A h \in g.live : h[1] \in lost

(* engine_destroy releases all but views of textures. *)
LEMMA DestroyResult ==
    ASSUME NEW g, NEW lost, MeshTracked(g, lost), "view" \in lost, NEW d, d = engine_destroy(g)
    PROVE  AllLost(d, lost) /\ NoMoreMaps(g, d)
<1> DEFINE e == g.engine
           m == e.mesh
           a == destroy_supersampler(g)
           b == destroy_mesh_entry(a, m)
           n == [e EXCEPT !.supersampler = NoSampler]
           X == EngineHandles(e)
           c == Release(b, X)
<1>1. d = [c EXCEPT !.engine = NoEngine]
  BY DEF engine_destroy
<1>2. (m # NoMesh => EntryShape(m)) /\ Tracked(g, MeshOwned(m), lost)
  BY DEF MeshTracked
<1>3. Tracked(a, MeshOwned(m), lost) /\ a.engine = n /\ NoMoreMaps(g, a)
  BY <1>2, DestroySampler
<1>4. /\ e \in Engines /\ e.white \in Seq(Handles) /\ WhiteShape(e.white)
      /\ n.core = e.core /\ n.texture = e.texture
      /\ n.view = e.view /\ n.readback = e.readback /\ n.samplers = e.samplers
      /\ n.white = e.white /\ n.supersampler = NoSampler
  BY <1>2 DEF Tracked, EngineShape, Engines
<1> HIDE DEF a, n
<1>5. Tracked(b, {}, lost) /\ MeshStep(a, b) /\ SameEngine(a, b)
  <2>1. b = destroy_mesh_entry(a, m)
    OBVIOUS
  <2> HIDE DEF b, m
  <2> QED BY <1>2, <1>3, <2>1, DropMesh
<1> HIDE DEF b
<1>6. /\ NativeOK(b) /\ Rest(n) \subseteq b.live
      /\ \A h \in b.live : h \in Rest(n) \/ h[1] \in lost
  BY <1>3, <1>5 DEF Tracked, SameEngine
<1>7. X \subseteq Rest(n) /\ \A h \in Rest(n) : h \in X \/ h[1] = "view"
  <2> DEFINE w == e.white
             W == IF w = <<>> THEN {} ELSE {w[1], w[3]}
  <2>1. W \subseteq Range(w) /\ \A h \in Range(w) : h \in W \/ h[1] = "view"
    <3>1. w \in Seq(Handles) /\ WhiteShape(w)
      BY <1>4
    <3> HIDE DEF w
    <3>2. CASE w = <<>>
      BY <3>2 DEF Range
    <3>3. CASE w # <<>>
      <4>1. Len(w) = 3 /\ w[2][1] = "view"
        BY <3>1, <3>3 DEF WhiteShape
      <4>2. Range(w) = {w[1], w[2], w[3]}
        BY <3>1, <4>1, ShortRanges
      <4> QED BY <3>3, <4>1, <4>2
    <3> QED BY <3>2, <3>3
  <2>2. X = {e.readback.buffer, e.view, e.texture} \cup e.core \cup e.samplers \cup W
    BY DEF EngineHandles
  <2>3. Rest(n) = e.core \cup {e.texture, e.view, e.readback.buffer} \cup Range(w) \cup e.samplers
    BY <1>4 DEF Rest, SamplerOwned
  <2> HIDE DEF W, w, X
  <2> QED BY <2>1, <2>2, <2>3
<1> HIDE DEF X
<1>8. /\ c \in NativeSides /\ c.live = b.live \ X /\ c.mapped = b.mapped \ X
      /\ c.pending = b.pending \ X /\ ~c.misuse
  BY <1>6, <1>7 DEF Release, NativeSides, NativeOK
<1> HIDE DEF c
<1>9. /\ d \in NativeSides /\ d.live = b.live \ X /\ d.mapped = b.mapped \ X
      /\ d.pending = b.pending \ X /\ ~d.misuse /\ d.engine = NoEngine
  BY <1>1, <1>8 DEF NativeSides
<1>10. IsFiniteSet(d.live)
  BY <1>6, <1>9, FS_Subset DEF NativeOK
<1>11. NativeOK(d)
  BY <1>6, <1>9, <1>10 DEF NativeOK
<1>12. \A h \in d.live : h[1] \in lost
  BY <1>6, <1>7, <1>9
<1>13. NoMoreMaps(g, d)
  BY <1>3, <1>5, <1>9 DEF NoMoreMaps, MeshStep
<1> QED BY <1>9, <1>11, <1>12, <1>13 DEF AllLost

(* The calls that build an engine. *)
LEMMA DeviceCallsFacts ==
    /\ DeviceCalls \in Seq(Calls) /\ Len(DeviceCalls) = 4
    /\ \A k \in 1 .. 4 : DeviceCalls[k][2] = "engine"
<1> DEFINE a == instance_create
           b == instance_request_adapter
           c == adapter_request_device
           d == device_get_queue
<1>1. a \in Calls /\ b \in Calls /\ c \in Calls /\ d \in Calls
  BY DEF instance_create, instance_request_adapter, adapter_request_device, device_get_queue,
         Calls, Kinds, Roles
<1>2. a[2] = "engine" /\ b[2] = "engine" /\ c[2] = "engine" /\ d[2] = "engine"
  BY DEF instance_create, instance_request_adapter, adapter_request_device, device_get_queue
<1>3. DeviceCalls = <<a, b, c, d>>
  BY DEF DeviceCalls
<1> HIDE DEF a, b, c, d
<1>4. \A k \in 1 .. 4 : k = 1 \/ k = 2 \/ k = 3 \/ k = 4
  OBVIOUS
<1>5. <<a, b, c, d>> \in Seq(Calls) /\ Len(<<a, b, c, d>>) = 4
  BY <1>1
<1>6. /\ DeviceCalls[1] = a /\ DeviceCalls[2] = b /\ DeviceCalls[3] = c /\ DeviceCalls[4] = d
  BY <1>3
<1> QED BY <1>2, <1>3, <1>4, <1>5, <1>6

(* The calls that make the pipeline. *)
LEMMA PipelineCallsFacts ==
    /\ PipelineCalls \in Seq(Calls) /\ Len(PipelineCalls) = 8
    /\ \A k \in 1 .. 8 : PipelineCalls[k][2] = "engine"
<1> DEFINE a == device_create_shader_module("engine")
           b == device_create_material_bind_group_layout
           c == device_create_pipeline_layout("engine")
           d == device_create_textured_render_pipeline
<1>1. a \in Calls /\ b \in Calls /\ c \in Calls /\ d \in Calls
  BY DEF device_create_shader_module, device_create_material_bind_group_layout,
         device_create_pipeline_layout, device_create_textured_render_pipeline,
         Calls, Kinds, Roles
<1>2. a[2] = "engine" /\ b[2] = "engine" /\ c[2] = "engine" /\ d[2] = "engine"
  BY DEF device_create_shader_module, device_create_material_bind_group_layout,
         device_create_pipeline_layout, device_create_textured_render_pipeline
<1>3. PipelineCalls = <<a, a, a, b, c, d, d, d>>
  BY DEF PipelineCalls
<1> HIDE DEF a, b, c, d
<1>4. <<a, a, a, b, c, d, d, d>> \in Seq(Calls) /\ Len(<<a, a, a, b, c, d, d, d>>) = 8
  BY <1>1
<1>5. /\ PipelineCalls[1] = a /\ PipelineCalls[2] = a /\ PipelineCalls[3] = a
      /\ PipelineCalls[4] = b
  BY <1>3
<1>6. /\ PipelineCalls[5] = c /\ PipelineCalls[6] = d /\ PipelineCalls[7] = d
      /\ PipelineCalls[8] = d
  BY <1>3
<1>7. \A k \in 1 .. 8 : k \in {1, 2, 3, 4} \/ k \in {5, 6, 7, 8}
  OBVIOUS
<1>8. \A k \in {1, 2, 3, 4} : PipelineCalls[k][2] = "engine"
  BY <1>2, <1>5
<1>9. \A k \in {5, 6, 7, 8} : PipelineCalls[k][2] = "engine"
  BY <1>2, <1>6
<1> QED BY <1>3, <1>4, <1>7, <1>8, <1>9

(* The objects of an engine: the target in the middle. *)
LEMMA EngineCallsFacts ==
    /\ EngineCalls \in Seq(Calls) /\ Len(EngineCalls) = 15
    /\ EngineCalls[5] = <<"texture", "target">> /\ EngineCalls[6] = <<"view", "target">>
    /\ EngineCalls[7] = <<"buffer", "readback">>
    /\ \A k \in 1 .. 4 \cup 8 .. 15 : EngineCalls[k][2] = "engine"
<1> DEFINE p == DeviceCalls
           q == TextureCalls("target")
           r == ReadbackCalls
           s == PipelineCalls
<1>1. EngineCalls = ((p \o q) \o r) \o s
  BY DEF EngineCalls
<1>2. /\ p \in Seq(Calls) /\ Len(p) = 4 /\ \A k \in 1 .. 4 : p[k][2] = "engine"
      /\ s \in Seq(Calls) /\ Len(s) = 8 /\ \A k \in 1 .. 8 : s[k][2] = "engine"
  BY DeviceCallsFacts, PipelineCallsFacts
<1>3. /\ q \in Seq(Calls) /\ Len(q) = 2 /\ q[1] = <<"texture", "target">>
      /\ q[2] = <<"view", "target">>
      /\ r \in Seq(Calls) /\ Len(r) = 1 /\ r[1] = <<"buffer", "readback">>
  <2>1. "target" \in Roles
    BY DEF Roles
  <2> QED BY <2>1, TargetCallsFacts
<1> HIDE DEF p, q, r, s
<1> DEFINE pq == p \o q
           pqr == pq \o r
           all == pqr \o s
<1>4. /\ pq \in Seq(Calls) /\ Len(pq) = 6 /\ \A k \in 1 .. 4 : pq[k] = p[k]
      /\ pq[5] = q[1] /\ pq[6] = q[2]
  <2>1. /\ pq \in Seq(Calls) /\ Len(pq) = 4 + 2 /\ \A k \in 1 .. 4 : pq[k] = p[k]
        /\ \A k \in 1 .. 2 : pq[4 + k] = q[k]
    <3>1. pq = p \o q
      OBVIOUS
    <3> HIDE DEF pq
    <3>2. Joined(Calls, p, q, pq)
      BY <1>2, <1>3, <3>1, Concatenated
    <3> QED BY <1>2, <1>3, <3>2 DEF Joined
  <2> HIDE DEF pq
  <2>2. pq[4 + 1] = q[1] /\ pq[4 + 2] = q[2]
    BY <2>1
  <2> QED BY <2>1, <2>2
<1> HIDE DEF pq
<1>5. /\ pqr \in Seq(Calls) /\ Len(pqr) = 7 /\ \A k \in 1 .. 6 : pqr[k] = pq[k]
      /\ pqr[7] = r[1]
  <2>1. /\ pqr \in Seq(Calls) /\ Len(pqr) = 6 + 1 /\ \A k \in 1 .. 6 : pqr[k] = pq[k]
        /\ \A k \in 1 .. 1 : pqr[6 + k] = r[k]
    <3>1. pqr = pq \o r
      OBVIOUS
    <3> HIDE DEF pqr
    <3>2. Joined(Calls, pq, r, pqr)
      BY <1>3, <1>4, <3>1, Concatenated
    <3> QED BY <1>3, <1>4, <3>2 DEF Joined
  <2> HIDE DEF pqr
  <2>2. pqr[6 + 1] = r[1]
    BY <2>1
  <2> QED BY <2>1, <2>2
<1> HIDE DEF pqr
<1>6. /\ all \in Seq(Calls) /\ Len(all) = 15 /\ \A k \in 1 .. 7 : all[k] = pqr[k]
      /\ \A k \in 8 .. 15 : all[k] = s[k - 7] /\ k - 7 \in 1 .. 8
  <2>1. /\ all \in Seq(Calls) /\ Len(all) = 7 + 8 /\ \A k \in 1 .. 7 : all[k] = pqr[k]
        /\ \A k \in 1 .. 8 : all[7 + k] = s[k]
    <3>1. all = pqr \o s
      OBVIOUS
    <3> HIDE DEF all
    <3>2. Joined(Calls, pqr, s, all)
      BY <1>2, <1>5, <3>1, Concatenated
    <3> QED BY <1>2, <1>5, <3>2 DEF Joined
  <2> HIDE DEF all
  <2>2. \A k \in 8 .. 15 : k - 7 \in 1 .. 8 /\ 7 + (k - 7) = k
    OBVIOUS
  <2>3. \A k \in 8 .. 15 : all[k] = s[k - 7]
    BY <2>1, <2>2
  <2> QED BY <2>1, <2>2, <2>3
<1>7. EngineCalls = all
  BY <1>1 DEF pq, pqr
<1> HIDE DEF all
<1>8. \A k \in 1 .. 4 : k \in 1 .. 6 /\ k \in 1 .. 7
  OBVIOUS
<1>9. \A k \in 1 .. 4 : all[k][2] = "engine"
  BY <1>2, <1>4, <1>5, <1>6, <1>8, SMTT(40)
<1>10. \A k \in 8 .. 15 : all[k][2] = "engine"
  BY <1>2, <1>6, SMTT(40)
<1>11. all[5] = q[1] /\ all[6] = q[2] /\ all[7] = r[1]
  BY <1>4, <1>5, <1>6
<1> QED BY <1>3, <1>6, <1>7, <1>9, <1>10, <1>11

(* The elements of a sequence, and of a part of it. *)
LEMMA RangeOfAll ==
    ASSUME NEW S, NEW s \in Seq(S)
    PROVE  /\ Range(s) = {s[k] : k \in 1 .. Len(s)}
           /\ \A k \in 1 .. Len(s) : s[k] \in S
  BY DEF Range

(* The elements of a part of a sequence. *)
LEMMA RangeOfPart ==
    ASSUME NEW S, NEW s \in Seq(S), NEW i \in 1 .. Len(s), NEW j \in i .. Len(s), NEW R,
           R = Range(SubSeq(s, i, j))
    PROVE  R = {s[k] : k \in i .. j}
<1> DEFINE t == SubSeq(s, i, j)
<1>1. t \in Seq(S) /\ Len(t) = j - i + 1 /\ \A k \in 1 .. j - i + 1 : t[k] = s[i + k - 1]
  BY SubSeqProperties
<1> HIDE DEF t
<1>2. Range(t) = {t[k] : k \in 1 .. j - i + 1}
  <2>1. t \in Seq(S)
    BY <1>1
  <2>2. Range(t) = {t[k] : k \in 1 .. Len(t)}
    BY <2>1, RangeOfAll
  <2> QED BY <1>1, <2>2
<1>3. ASSUME NEW k \in i .. j PROVE s[k] \in Range(t)
  <2>1. k - i + 1 \in 1 .. j - i + 1 /\ i + (k - i + 1) - 1 = k
    OBVIOUS
  <2> QED BY <1>1, <1>2, <2>1
<1>4. ASSUME NEW k \in 1 .. j - i + 1 PROVE t[k] \in {s[l] : l \in i .. j}
  <2>1. i + k - 1 \in i .. j
    OBVIOUS
  <2> QED BY <1>1, <2>1
<1> QED BY <1>2, <1>3, <1>4 DEF t

(* The engine that create makes. *)
NewlyMade(g, r, size, lost, fault) ==
    /\ ~r.ok => r.g = g
    /\ r.ok => /\ Tracked(r.g, {}, lost) /\ NoMoreMaps(g, r.g)
               /\ r.g.engine.mesh = NoMesh /\ r.g.engine.size = size
               /\ r.g.engine.supersampler = NoSampler
    /\ fault = NoFault => r.ok

(* A new engine owns what create made and nothing else. *)
LEMMA NewEngineShape ==
    ASSUME NEW live, NEW made, IsMade(live, EngineCalls, made), NEW size \in Nat, NEW e,
           e = NewEngine(made, size)
    PROVE  /\ EngineShape(e) /\ Rest(e) = Range(made) /\ ~e.readback.mapped
           /\ e.mesh = NoMesh /\ e.size = size /\ e.supersampler = NoSampler
<1>1. /\ made \in Seq(Handles) /\ Len(made) = 15
      /\ \A k \in 1 .. 15 : /\ made[k] \in Handles
                            /\ made[k][1] = EngineCalls[k][1] /\ made[k][2] = EngineCalls[k][2]
  <2>1. /\ made \in Seq(Handles) /\ Len(made) = 15
        /\ \A k \in 1 .. Len(made) :
              made[k][1] = EngineCalls[k][1] /\ made[k][2] = EngineCalls[k][2]
    BY EngineCallsFacts DEF IsMade
  <2>2. \A k \in 1 .. Len(made) : made[k] \in Handles
    <3>1. made \in Seq(Handles)
      BY <2>1
    <3> QED BY <3>1, RangeOfAll
  <2> QED BY <2>1, <2>2
<1> DEFINE A == Range(SubSeq(made, 1, 4))
           B == Range(SubSeq(made, 8, 15))
<1>2. A = {made[k] : k \in 1 .. 4}
  <2>1. made \in Seq(Handles) /\ 1 \in 1 .. Len(made) /\ 4 \in 1 .. Len(made)
    BY <1>1
  <2> HIDE DEF A
  <2>2. A = Range(SubSeq(made, 1, 4))
    BY DEF A
  <2> QED BY <2>1, <2>2, RangeOfPart
<1>3. B = {made[k] : k \in 8 .. 15}
  <2>1. made \in Seq(Handles) /\ 8 \in 1 .. Len(made) /\ 15 \in 8 .. Len(made)
    BY <1>1
  <2> HIDE DEF B
  <2>2. B = Range(SubSeq(made, 8, 15))
    BY DEF B
  <2> QED BY <2>1, <2>2, RangeOfPart, SMTT(40)
<1>4. /\ e.core = A \cup B /\ e.texture = made[5] /\ e.view = made[6]
      /\ e.readback = NewReadback(made[7]) /\ e.size = size /\ e.super_sample = "none"
      /\ e.algorithm = "standard" /\ e.supersampler = NoSampler /\ e.mesh = NoMesh
      /\ e.white = <<>> /\ e.samplers = {}
  BY DEF NewEngine
<1> HIDE DEF A, B
<1>5. /\ made[5] \in Handles /\ made[6] \in Handles /\ made[7] \in Handles
      /\ made[5][1] = "texture" /\ made[5][2] = "target"
      /\ made[6][1] = "view" /\ made[6][2] = "target"
      /\ made[7][1] = "buffer" /\ made[7][2] = "readback"
  <2>1. 5 \in 1 .. 15 /\ 6 \in 1 .. 15 /\ 7 \in 1 .. 15
    OBVIOUS
  <2> QED BY <1>1, <2>1, EngineCallsFacts
<1>6. A \cup B \subseteq Handles /\ \A h \in A \cup B : h[2] = "engine"
  <2>1. \A k \in 1 .. 4 \cup 8 .. 15 : k \in 1 .. 15
    OBVIOUS
  <2> QED BY <1>1, <1>2, <1>3, <2>1, EngineCallsFacts
<1>7. /\ NewReadback(made[7]) \in Readbacks /\ NewReadback(made[7]).buffer = made[7]
      /\ ~NewReadback(made[7]).mapped
  BY <1>5 DEF NewReadback, Readbacks
<1>8. e \in Engines
  <2>1. "none" \in Modes /\ "standard" \in Algorithms /\ <<>> \in Seq(Handles)
    BY DEF Modes, Algorithms
  <2>2. e = [core |-> A \cup B, texture |-> made[5], view |-> made[6],
             readback |-> NewReadback(made[7]), size |-> size, super_sample |-> "none",
             algorithm |-> "standard", supersampler |-> NoSampler, mesh |-> NoMesh,
             white |-> <<>>, samplers |-> {}]
    BY DEF NewEngine, A, B
  <2> QED BY <1>5, <1>6, <1>7, <2>1, <2>2 DEF Engines
<1>9. EngineShape(e)
  BY <1>4, <1>5, <1>6, <1>7, <1>8 DEF EngineShape, SamplerShape, WhiteShape
<1>10. Rest(e) = Range(made)
  <2>1. Range(made) = {made[k] : k \in 1 .. 15} /\ Range(<<>>) = {}
    BY <1>1 DEF Range
  <2>2. \A k \in 1 .. 15 : k \in 1 .. 4 \/ k = 5 \/ k = 6 \/ k = 7 \/ k \in 8 .. 15
    OBVIOUS
  <2>3. \A k \in 1 .. 15 : made[k] \in A \cup B \cup {made[5], made[6], made[7]}
    BY <1>2, <1>3, <2>2
  <2>4. A \cup B \cup {made[5], made[6], made[7]} \subseteq Range(made)
    BY <1>2, <1>3, <2>1
  <2>5. Rest(e) = A \cup B \cup {made[5], made[6], made[7]}
    BY <1>4, <1>7, <2>1 DEF Rest, SamplerOwned
  <2> QED BY <2>1, <2>3, <2>4, <2>5, SMTT(40)
<1> QED BY <1>4, <1>7, <1>9, <1>10

(* create makes a whole engine or releases what it made. *)
LEMMA CreateEngine ==
    ASSUME NEW g, NEW lost, AllLost(g, lost), NEW size \in Nat, NEW fault
    PROVE  NewlyMade(g, create(g, size, fault), size, lost, fault)
<1> DEFINE at == Fails(fault, "create")
           b == Build(g, EngineCalls, at)
           made == b.val
           e == NewEngine(made, size)
           r == create(g, size, fault)
<1>1. r = IF b.ok THEN Done([b.g EXCEPT !.engine = e]) ELSE b
  BY DEF create, Then
<1>2. NativeOK(g) /\ \A h \in g.live : h[1] \in lost
  BY DEF AllLost
<1>3. fault = NoFault => at \notin 1 .. 15
  BY FailsNone
<1> HIDE DEF at, r
<1>4. CASE at \in 1 .. 15
  <2>1. b = Failed(g)
    BY <1>2, <1>4, EngineCallsFacts, BuildResult
  <2> HIDE DEF b
  <2>2. r.g = g /\ ~r.ok
    BY <1>1, <2>1 DEF Failed, Result
  <2>3. NewlyMade(g, r, size, lost, fault)
    BY <1>3, <1>4, <2>2 DEF NewlyMade
  <2> QED BY <2>3 DEF r
<1>5. CASE at \notin 1 .. 15
  <2> DEFINE h == [b.g EXCEPT !.engine = e]
  <2>1. Built(g, EngineCalls, b)
    BY <1>2, <1>5, EngineCallsFacts, BuildResult
  <2> HIDE DEF b
  <2>2. /\ b.ok /\ IsMade(g.live, EngineCalls, made) /\ made \in Seq(Handles)
        /\ b.g = [g EXCEPT !.live = @ \cup Range(made)]
    BY <2>1 DEF Built, IsMade
  <2>3. IsFiniteSet(Range(made)) /\ Range(made) \subseteq Handles
    BY <2>2, RangeFinite
  <2> HIDE DEF made
  <2>4. /\ EngineShape(e) /\ Rest(e) = Range(made) /\ ~e.readback.mapped
        /\ e.mesh = NoMesh /\ e.size = size /\ e.supersampler = NoSampler
    BY <2>2, NewEngineShape
  <2> HIDE DEF e
  <2>5. /\ h \in NativeSides /\ h.live = g.live \cup Range(made) /\ ~h.misuse /\ h.engine = e
        /\ h.mapped = g.mapped /\ h.pending = g.pending
    <3>1. e \in Engines
      BY <2>4 DEF EngineShape
    <3> QED BY <1>2, <2>2, <2>3, <3>1 DEF NativeOK, NativeSides
  <2>6. r.ok /\ r.g = h
    BY <1>1, <2>2 DEF Done, Return, Result
  <2> HIDE DEF h
  <2>7. IsFiniteSet(h.live)
    BY <1>2, <2>3, <2>5, FS_Union DEF NativeOK
  <2>8. NativeOK(h)
    BY <1>2, <2>5, <2>7 DEF NativeOK
  <2>9. MapsAgree(e, h.mapped)
    BY <2>4 DEF MapsAgree
  <2>10. Tracked(h, {}, lost)
    BY <1>2, <2>4, <2>5, <2>8, <2>9 DEF Tracked
  <2>11. NewlyMade(g, r, size, lost, fault)
    BY <2>4, <2>5, <2>6, <2>10 DEF NewlyMade, NoMoreMaps
  <2> QED BY <2>11 DEF r
<1> QED BY <1>4, <1>5

-----------------------------------------------------------------------------
(* The invariant. *)

(* The kinds of what may be lost after so many failed calls. *)
Losable(n) == IF n = 0 THEN {"view"} ELSE {"texture", "view", "buffer"}

(* The settings of the facade. *)
Facades ==
    [output : Sizes, super_sample : Modes, sample_algorithm : Algorithms, destroyed : BOOLEAN]

(* The engine is set to what the facade is set to. *)
InStep(e, f) ==
    /\ e.size = render_dimensions(f) /\ e.algorithm = f.sample_algorithm
    /\ InMode(e, f.super_sample) /\ MeshClean(e)

(* Every live handle is accounted for. *)
Accounted(g, lost) ==
    /\ g.engine = NoEngine => AllLost(g, lost)
    /\ g.engine # NoEngine => MeshTracked(g, lost)

(* The engine and the facade agree, and nothing is mapped. *)
InOrder(g, f) ==
    /\ g.mapped = {} /\ g.pending = {}
    /\ g.engine # NoEngine => InStep(g.engine, f)

(* The inductive invariant: ownership whatever failed, and the agreement of *)
(* the engine with the facade as long as nothing did.                       *)
GpuInv ==
    /\ facade \in Facades /\ faults \in Nat
    /\ Accounted(gpu, Losable(faults))
    /\ faults = 0 => InOrder(gpu, facade) /\ last_draw \in {"none", "current"}

(* More may be lost after a call has failed. *)
LEMMA MoreLost ==
    ASSUME NEW g, NEW lost, NEW more, lost \subseteq more, Accounted(g, lost)
    PROVE  Accounted(g, more)
  BY DEF Accounted, AllLost, MeshTracked, Tracked

(* A failed call adds to what may be lost, and nothing is in order after it. *)
LEMMA Losses ==
    ASSUME NEW g, NEW n \in Nat, Accounted(g, Losable(n)), NEW fault, NEW m,
           m = IF fault = NoFault THEN n ELSE n + 1
    PROVE  /\ m \in Nat /\ Accounted(g, Losable(m)) /\ LossesAllowed(fault, Losable(m))
           /\ m = 0 => n = 0 /\ fault = NoFault
<1>1. m \in Nat /\ (m = 0 => n = 0 /\ fault = NoFault)
  OBVIOUS
<1>2. Losable(n) \subseteq Losable(m) /\ LossesAllowed(fault, Losable(m))
  BY DEF Losable, LossesAllowed
<1>3. Accounted(g, Losable(m))
  BY <1>2, MoreLost
<1> QED BY <1>1, <1>2, <1>3

(* An operation that keeps the mesh keeps it accounted for. *)
LEMMA SameMesh ==
    ASSUME NEW g, NEW h, NEW lost, MeshTracked(g, lost),
           Tracked(h, MeshOwned(g.engine.mesh), lost), h.engine.mesh = g.engine.mesh
    PROVE  MeshTracked(h, lost) /\ h.engine # NoEngine /\ Accounted(h, lost)
<1>1. MeshTracked(h, lost)
  BY DEF MeshTracked
<1>2. h.engine # NoEngine
  BY GpuConstants DEF Tracked, EngineShape
<1> QED BY <1>1, <1>2 DEF Accounted

(* The surface the facade renders to. *)
LEMMA Dimensions ==
    ASSUME NEW f \in Facades
    PROVE  /\ render_dimensions(f) \in Nat
           /\ f.super_sample = "gpu" => CellsOf(render_dimensions(f)) = f.output
           /\ f.output \in Nat
<1>1. f.output \in Nat /\ f.super_sample \in Modes
  BY GpuConstants DEF Facades
<1>2. f.super_sample = "none" => render_dimensions(f) = f.output * 1
  BY DEF render_dimensions, Scale
<1>3. f.super_sample # "none" => render_dimensions(f) = f.output * 2
  BY DEF render_dimensions, Scale
<1>4. render_dimensions(f) \in Nat
  BY <1>1, <1>2, <1>3
<1>5. \A n \in Nat : (n * 2 + 1) \div 2 = n
  OBVIOUS
<1>6. f.super_sample = "gpu" => CellsOf(render_dimensions(f)) = f.output
  BY <1>1, <1>3, <1>5 DEF CellsOf
<1> QED BY <1>1, <1>4, <1>6

(* An operation that changes the facade from f to k. *)
Moved(g, r, f, k, lost, fault) ==
    /\ Accounted(r.g, lost)
    /\ fault = NoFault /\ InOrder(g, f) => r.ok /\ InOrder(r.g, k)

(* init. *)
InitEngine(g, f, fault) ==
    Then(create(g, render_dimensions(f), fault),
         LAMBDA h, none :
             OrDestroy(Then(engine_set_super_sample(h, f.super_sample, fault),
                            LAMBDA k, nothing :
                                engine_set_algorithm(k, f.sample_algorithm, fault))))

(* init: an engine with the settings of the facade, or none. *)
LEMMA InitResult ==
    ASSUME NEW g, NEW lost, AllLost(g, lost), NEW f \in Facades, NEW fault, "view" \in lost,
           NEW r, r = InitEngine(g, f, fault)
    PROVE  Moved(g, r, f, f, lost, fault)
<1> DEFINE size == render_dimensions(f)
           c == create(g, size, fault)
           mode == f.super_sample
           a == f.sample_algorithm
           m == engine_set_super_sample(c.g, mode, fault)
           s == engine_set_algorithm(m.g, a, fault)
           x == IF m.ok THEN s ELSE m
<1>1. r = IF c.ok THEN IF x.ok THEN x ELSE Failed(engine_destroy(x.g)) ELSE c
  BY DEF InitEngine, Then, OrDestroy
<1>2. size \in Nat /\ mode \in Modes /\ a \in Algorithms
  BY Dimensions DEF Facades
<1> HIDE DEF size, mode, a
<1>3. NewlyMade(g, c, size, lost, fault)
  BY <1>2, CreateEngine
<1> HIDE DEF c
<1>4. CASE ~c.ok
  <2>1. r.g = g /\ fault # NoFault
    BY <1>1, <1>3, <1>4 DEF NewlyMade
  <2> QED BY <2>1 DEF Moved, Accounted, AllLost
<1>5. CASE c.ok
  <2>1. /\ Tracked(c.g, {}, lost) /\ NoMoreMaps(g, c.g) /\ c.g.engine.mesh = NoMesh
        /\ c.g.engine.size = size /\ c.g.engine.supersampler = NoSampler
    BY <1>3, <1>5 DEF NewlyMade
  <2> DEFINE e == c.g.engine
             none == {}
  <2>2. e \in Engines /\ Tracked(c.g, none, lost)
    BY <2>1 DEF Tracked, EngineShape
  <2> HIDE DEF none
  <2>3. /\ Tracked(m.g, none, lost) /\ NoMoreMaps(c.g, m.g)
        /\ OtherSampler([e EXCEPT !.super_sample = mode], m.g.engine)
        /\ fault = NoFault => m.ok
        /\ m.ok => InMode(m.g.engine, mode)
    BY <1>2, <2>1, <2>2, SetMode
  <2> HIDE DEF m
  <2>4. m.g.engine.mesh = NoMesh /\ m.g.engine.size = size /\ m.g.engine \in Engines
    <3>1. m.g.engine \in Engines
      BY <2>3 DEF Tracked, EngineShape
    <3> QED BY <2>1, <2>2, <2>3, <3>1, ZenonT(60) DEF OtherSampler, Engines
  <2>5. /\ Tracked(s.g, none, lost) /\ NoMoreMaps(m.g, s.g)
        /\ OtherSampler([m.g.engine EXCEPT !.algorithm = a], s.g.engine)
        /\ fault = NoFault => s.ok
        /\ s.ok /\ InMode(m.g.engine, mode) => InMode(s.g.engine, mode)
    BY <1>2, <2>3, SetAlgorithm
  <2> HIDE DEF s
  <2>6. s.g.engine.mesh = NoMesh /\ s.g.engine.size = size /\ s.g.engine.algorithm = a
    BY <2>4, <2>5, ZenonT(60) DEF OtherSampler, Engines
  <2>7. /\ Tracked(x.g, {}, lost) /\ x.g.engine.mesh = NoMesh /\ NoMoreMaps(g, x.g)
    BY <2>1, <2>3, <2>4, <2>5, <2>6 DEF NoMoreMaps, none
  <2>8. MeshTracked(x.g, lost) /\ x.g.engine # NoEngine
    BY <2>7, GpuConstants DEF MeshTracked, MeshOwned, Tracked, EngineShape
  <2>9. fault = NoFault => x.ok /\ InStep(x.g.engine, f)
    BY <2>3, <2>5, <2>6 DEF InStep, MeshClean, size, mode, a
  <2> HIDE DEF x
  <2>10. CASE x.ok
    <3>1. r = x
      BY <1>1, <1>5, <2>10
    <3> QED BY <2>7, <2>8, <2>9, <3>1 DEF Moved, Accounted, InOrder, NoMoreMaps
  <2>11. CASE ~x.ok
    <3> DEFINE d == engine_destroy(x.g)
    <3>1. r.g = d /\ fault # NoFault
      BY <1>1, <1>5, <2>9, <2>11 DEF Failed, Result
    <3>2. AllLost(d, lost)
      BY <2>8, DestroyResult
    <3> HIDE DEF d
    <3> QED BY <3>1, <3>2 DEF Moved, Accounted, AllLost
  <2> QED BY <2>10, <2>11
<1> QED BY <1>4, <1>5

(* Without an engine the facade moves alone. *)
LEMMA NoEngineMoved ==
    ASSUME NEW g, NEW lost, Accounted(g, lost), g.engine = NoEngine, NEW f, NEW k, NEW fault,
           NEW r, r = Done(g)
    PROVE  Moved(g, r, f, k, lost, fault)
<1>1. r.g = g /\ r.ok
  BY DEF Done, Return, Result
<1> QED BY <1>1 DEF Moved, InOrder

(* set_size. *)
LEMMA SizeResult ==
    ASSUME NEW g, NEW lost, MeshTracked(g, lost), NEW f \in Facades, NEW size \in Sizes,
           f.output # size, NEW k, k = [f EXCEPT !.output = size],
           NEW fault, LossesAllowed(fault, lost),
           NEW r, r = resize(g, render_dimensions(k), fault)
    PROVE  Moved(g, r, f, k, lost, fault)
<1> DEFINE e == g.engine
           m == e.mesh
           n == render_dimensions(k)
<1>1. /\ k \in Facades /\ k.output = size /\ k.super_sample = f.super_sample
      /\ k.sample_algorithm = f.sample_algorithm
  BY DEF Facades
<1>2. n \in Nat
  BY <1>1, Dimensions
<1>3. Tracked(g, MeshOwned(m), lost) /\ g.engine # NoEngine
  BY GpuConstants DEF MeshTracked, Tracked, EngineShape
<1>4. Tracked(r.g, MeshOwned(m), lost) /\ Resized(g, r, n, fault)
  <2> HIDE DEF m, n
  <2>1. r = resize(g, n, fault)
    BY DEF n
  <2> QED BY <1>2, <1>3, <2>1, ResizeResult
<1>5. NoMoreMaps(g, r.g) /\ SameConfig(e, r.g.engine) /\ r.g.engine.mesh = m
  BY <1>4 DEF Resized, SameConfig
<1>6. r.g.engine # NoEngine /\ Accounted(r.g, lost)
  BY <1>4, <1>5, SameMesh
<1>7. ASSUME fault = NoFault, InOrder(g, f) PROVE r.ok /\ InOrder(r.g, k)
  <2>1. r.ok /\ r.g.engine.size = n /\ InStep(e, f)
    BY <1>3, <1>4, <1>7 DEF Resized, InOrder
  <2>2. r.g.mapped = {} /\ r.g.pending = {}
    BY <1>5, <1>7 DEF InOrder, NoMoreMaps
  <2>3. /\ r.g.engine.algorithm = k.sample_algorithm /\ MeshClean(r.g.engine)
        /\ r.g.engine.super_sample = k.super_sample
    BY <1>1, <1>5, <2>1 DEF InStep, InMode, SameConfig, MeshClean
  <2>4. CASE k.super_sample # "gpu"
    <3>1. e.super_sample # "gpu" /\ e.supersampler = NoSampler
      BY <1>1, <2>1, <2>4 DEF InStep, InMode
    <3>2. r.g.engine.supersampler = NoSampler
      BY <1>4, <2>1, <3>1 DEF Resized
    <3>3. InMode(r.g.engine, k.super_sample)
      BY <2>3, <2>4, <3>2 DEF InMode
    <3> QED BY <2>1, <2>2, <2>3, <3>3 DEF InOrder, InStep
  <2>5. CASE k.super_sample = "gpu"
    <3>1. /\ e.super_sample = "gpu" /\ e.supersampler # NoSampler
          /\ e.supersampler.cells = CellsOf(e.size) /\ e.size = render_dimensions(f)
      BY <1>1, <2>1, <2>5 DEF InStep, InMode, SupersamplerFits
    <3>2. CellsOf(render_dimensions(f)) = f.output /\ CellsOf(n) = size
      BY <1>1, <2>5, Dimensions
    <3>3. e.supersampler.cells # CellsOf(n)
      BY <3>1, <3>2
    <3>4. InMode(r.g.engine, k.super_sample)
      BY <1>4, <2>1, <2>5, <3>1, <3>3 DEF Resized
    <3> QED BY <2>1, <2>2, <2>3, <3>4 DEF InOrder, InStep
  <2> QED BY <2>4, <2>5
<1> QED BY <1>6, <1>7 DEF Moved

(* toggle_super_sampling. *)
Toggle(g, k, fault) ==
    Then(resize(g, render_dimensions(k), fault),
         LAMBDA h, none : engine_set_super_sample(h, k.super_sample, fault))

(* toggle_super_sampling resizes, then changes the mode. *)
LEMMA ToggleResult ==
    ASSUME NEW g, NEW lost, MeshTracked(g, lost), NEW f \in Facades,
           NEW k, k = [f EXCEPT !.super_sample = NextMode(@)],
           NEW fault, LossesAllowed(fault, lost), NEW r, r = Toggle(g, k, fault)
    PROVE  k \in Facades /\ Moved(g, r, f, k, lost, fault)
<1> DEFINE e == g.engine
           m == e.mesh
           n == render_dimensions(k)
           z == resize(g, n, fault)
           mode == k.super_sample
           s == engine_set_super_sample(z.g, mode, fault)
<1>1. /\ k \in Facades /\ k.output = f.output /\ k.super_sample = NextMode(f.super_sample)
      /\ k.sample_algorithm = f.sample_algorithm /\ mode \in Modes
      /\ (mode = "gpu" => f.super_sample = "cpu")
  <2>1. f.super_sample \in Modes
    BY DEF Facades
  <2>2. /\ NextMode(f.super_sample) \in Modes
        /\ NextMode(f.super_sample) = "gpu" => f.super_sample = "cpu"
    BY <2>1 DEF NextMode, Modes
  <2> QED BY <2>2 DEF Facades
<1>2. n \in Nat
  BY <1>1, Dimensions
<1>3. r = IF z.ok THEN s ELSE z
  BY DEF Toggle, Then
<1>4. Tracked(g, MeshOwned(m), lost) /\ g.engine # NoEngine
  BY GpuConstants DEF MeshTracked, Tracked, EngineShape
<1>5. Tracked(z.g, MeshOwned(m), lost) /\ Resized(g, z, n, fault)
  <2>1. z = resize(g, n, fault)
    OBVIOUS
  <2> HIDE DEF m, n, z
  <2> QED BY <1>2, <1>4, <2>1, ResizeResult
<1> HIDE DEF z
<1>6. NoMoreMaps(g, z.g) /\ SameConfig(e, z.g.engine) /\ z.g.engine.mesh = m
  BY <1>5 DEF Resized, SameConfig
<1> DEFINE E == z.g.engine
<1>7. E \in Engines
  BY <1>5 DEF Tracked, EngineShape
<1>8. /\ Tracked(s.g, MeshOwned(m), lost) /\ NoMoreMaps(z.g, s.g)
      /\ OtherSampler([E EXCEPT !.super_sample = mode], s.g.engine)
      /\ fault = NoFault => s.ok
      /\ s.ok /\ E.supersampler = NoSampler => InMode(s.g.engine, mode)
      /\ mode # "gpu" => InMode(s.g.engine, mode)
  <2> HIDE DEF mode, m
  <2> QED BY <1>1, <1>5, SetMode
<1> HIDE DEF s
<1>9. /\ s.g.engine.mesh = E.mesh /\ s.g.engine.size = E.size
      /\ s.g.engine.algorithm = E.algorithm
  <2> DEFINE F == [E EXCEPT !.super_sample = mode]
  <2>1. F.mesh = E.mesh /\ F.size = E.size /\ F.algorithm = E.algorithm /\ F \in Engines
    BY <1>1, <1>7 DEF Engines
  <2>2. OtherSampler(F, s.g.engine)
    BY <1>8
  <2> HIDE DEF F
  <2> QED BY <2>1, <2>2 DEF OtherSampler, Engines
<1>10. CASE ~z.ok
  <2>1. r = z /\ fault # NoFault
    BY <1>3, <1>5, <1>10 DEF Resized
  <2>2. Accounted(z.g, lost)
    BY <1>5, <1>6, SameMesh
  <2> QED BY <1>1, <2>1, <2>2 DEF Moved
<1>11. CASE z.ok
  <2>1. r = s
    BY <1>3, <1>11
  <2>2. s.g.engine # NoEngine /\ Accounted(s.g, lost)
    BY <1>6, <1>8, <1>9, SameMesh
  <2>3. ASSUME fault = NoFault, InOrder(g, f) PROVE s.ok /\ InOrder(s.g, k)
    <3>1. InStep(e, f) /\ s.ok /\ E.size = n
      BY <1>4, <1>5, <1>8, <1>11, <2>3 DEF Resized, InOrder
    <3>2. s.g.mapped = {} /\ s.g.pending = {}
      BY <1>6, <1>8, <2>3 DEF InOrder, NoMoreMaps
    <3>3. /\ s.g.engine.algorithm = k.sample_algorithm /\ MeshClean(s.g.engine)
          /\ s.g.engine.size = n
      BY <1>1, <1>6, <1>9, <3>1 DEF InStep, SameConfig, MeshClean
    <3>4. InMode(s.g.engine, mode)
      <4>1. CASE mode # "gpu"
        BY <1>8, <4>1
      <4>2. CASE mode = "gpu"
        <5>1. e.super_sample # "gpu" /\ e.supersampler = NoSampler
          BY <1>1, <3>1, <4>2 DEF InStep, InMode
        <5>2. E.supersampler = NoSampler
          BY <1>5, <1>11, <5>1 DEF Resized
        <5> QED BY <1>8, <3>1, <5>2
      <4> QED BY <4>1, <4>2
    <3> QED BY <3>1, <3>2, <3>3, <3>4 DEF InOrder, InStep
  <2> QED BY <1>1, <2>1, <2>2, <2>3 DEF Moved
<1> QED BY <1>10, <1>11

(* set_super_sample_algorithm. *)
LEMMA AlgorithmResult ==
    ASSUME NEW g, NEW lost, MeshTracked(g, lost), NEW f \in Facades, NEW a \in Algorithms,
           NEW k, k = [f EXCEPT !.sample_algorithm = a], NEW fault,
           NEW r, r = engine_set_algorithm(g, a, fault)
    PROVE  Moved(g, r, f, k, lost, fault)
<1> DEFINE e == g.engine
           m == e.mesh
<1>1. /\ k.output = f.output /\ k.super_sample = f.super_sample /\ k.sample_algorithm = a
  BY DEF Facades
<1>2. Tracked(g, MeshOwned(m), lost) /\ g.engine # NoEngine /\ e \in Engines
  BY GpuConstants DEF MeshTracked, Tracked, EngineShape
<1>3. /\ Tracked(r.g, MeshOwned(m), lost) /\ NoMoreMaps(g, r.g)
      /\ OtherSampler([e EXCEPT !.algorithm = a], r.g.engine)
      /\ fault = NoFault => r.ok
      /\ \A mode : r.ok /\ InMode(e, mode) => InMode(r.g.engine, mode)
  <2> HIDE DEF m
  <2> QED BY <1>2, SetAlgorithm
<1>4. r.g.engine.mesh = m /\ r.g.engine.size = e.size /\ r.g.engine.algorithm = a
  BY <1>2, <1>3 DEF OtherSampler, Engines
<1>5. r.g.engine # NoEngine /\ Accounted(r.g, lost)
  BY <1>3, <1>4, SameMesh
<1>6. ASSUME fault = NoFault, InOrder(g, f) PROVE r.ok /\ InOrder(r.g, k)
  <2>1. InStep(e, f) /\ r.ok
    BY <1>2, <1>3, <1>6 DEF InOrder
  <2>2. render_dimensions(k) = render_dimensions(f)
    BY <1>1 DEF render_dimensions
  <2>3. InStep(r.g.engine, k)
    BY <1>1, <1>3, <1>4, <2>1, <2>2 DEF InStep, MeshClean
  <2> QED BY <1>3, <1>6, <2>1, <2>3 DEF InOrder, NoMoreMaps
<1> QED BY <1>5, <1>6 DEF Moved

(* An engine in step stays so while only the mesh or the mappings change. *)
LEMMA StaysInStep ==
    ASSUME NEW e, NEW f, InStep(e, f), NEW d, MeshClean(d), SameSetup(e, d)
    PROVE  InStep(d, f)
  BY DEF InStep, InMode, SupersamplerFits, SameSetup

(* An engine that looks the same is as much in step. *)
LEMMA LooksInStep ==
    ASSUME NEW e, NEW f, InStep(e, f), NEW d, SameLook(e, d)
    PROVE  InStep(d, f)
<1>1. d.size = render_dimensions(f) /\ d.algorithm = f.sample_algorithm /\ MeshClean(d)
  BY DEF InStep, SameLook, MeshClean
<1>2. InMode(d, f.super_sample)
  BY DEF InStep, InMode, SupersamplerFits, SameLook
<1> QED BY <1>1, <1>2 DEF InStep

(* draw_scene: the picture is the frame submitted. *)
StageAfter(u, fault, late) == Then(u, LAMBDA g, none : stage(g, fault, late))

(* draw_scene submits and stages: without a failure the picture is the frame. *)
LEMMA DrawResult ==
    ASSUME NEW g, NEW lost, MeshTracked(g, lost), facade \in Facades,
           NEW fault, LossesAllowed(fault, lost), NEW node \in Nodes, NEW late,
           NEW u, u = submit(g, node, fault), NEW s, s = StageAfter(u, fault, late)
    PROVE  /\ Moved(g, s, facade, facade, lost, fault)
           /\ fault = NoFault /\ InOrder(g, facade) =>
                 ConversionFits(s.g.engine) /\ PictureIsFrame(u.g, s.g.engine)
<1> DEFINE m == u.g.engine.mesh
           t == stage(u.g, fault, late)
           f == facade
<1>1. s = IF u.ok THEN t ELSE u
  BY DEF StageAfter, Then
<1>2. Submitted(g, u, lost, fault)
  BY SubmitResult
<1>3. MeshTracked(u.g, lost) /\ MeshStep(g, u.g) /\ Tracked(u.g, MeshOwned(m), lost)
  BY <1>2 DEF Submitted, MeshTracked
<1>4. Staged(u.g, MeshOwned(m), lost, t, fault)
  <2> HIDE DEF m
  <2> QED BY <1>3, StageResult
<1> HIDE DEF t
<1>5. Tracked(t.g, MeshOwned(m), lost) /\ SameLook(u.g.engine, t.g.engine)
  BY <1>4 DEF Staged
<1>6. t.g.engine.mesh = m
  BY <1>5 DEF SameLook
<1>7. Accounted(t.g, lost) /\ t.g.engine # NoEngine
  BY <1>3, <1>5, <1>6, SameMesh, SMTT(40)
<1>8. Accounted(u.g, lost) /\ g.engine # NoEngine
  BY <1>3, GpuConstants DEF Accounted, MeshTracked, Tracked, EngineShape
<1>9. ASSUME fault = NoFault, InOrder(g, f)
      PROVE  /\ s.ok /\ InOrder(s.g, f)
             /\ ConversionFits(s.g.engine) /\ PictureIsFrame(u.g, s.g.engine)
  <2>1. InStep(g.engine, f) /\ MeshClean(g.engine)
    BY <1>8, <1>9 DEF InOrder, InStep
  <2>2. u.ok /\ MeshClean(u.g.engine)
    BY <1>2, <1>9, <2>1 DEF Submitted
  <2>3. InStep(u.g.engine, f)
    BY <1>3, <2>1, <2>2, StaysInStep DEF MeshStep
  <2>4. u.g.mapped = {} /\ u.g.pending = {}
    BY <1>3, <1>9 DEF InOrder, MeshStep, NoMoreMaps
  <2>5. u.g.engine.super_sample = "gpu" => u.g.engine.supersampler # NoSampler
    BY <2>3 DEF InStep, InMode, SupersamplerFits
  <2>6. t.ok /\ t.g.mapped = {} /\ t.g.pending = {}
    BY <1>4, <1>9, <2>4, <2>5 DEF Staged
  <2>7. s = t
    BY <1>1, <2>2
  <2> DEFINE e == s.g.engine
  <2>8. InStep(e, f)
    BY <1>5, <2>3, <2>7, LooksInStep
  <2>9. InOrder(s.g, f)
    BY <2>6, <2>7, <2>8 DEF InOrder
  <2> HIDE DEF e
  <2>10. EncodedFrameRuns(u.g)
    BY <2>4 DEF EncodedFrameRuns
  <2>11. PictureIsFrame(u.g, e)
    BY <2>8, <2>10 DEF PictureIsFrame, InStep, InMode
  <2>12. ConversionFits(e)
    <3>1. CASE f.super_sample = "gpu"
      <4>1. /\ e.supersampler # NoSampler
            /\ e.supersampler.cells = CellsOf(render_dimensions(f))
        BY <2>8, <3>1 DEF InStep, InMode, SupersamplerFits
      <4>2. CellsOf(render_dimensions(f)) = f.output /\ f.output \in Nat
        BY <3>1, Dimensions
      <4> QED BY <3>1, <4>1, <4>2 DEF ConversionFits
    <3>2. CASE f.super_sample # "gpu"
      <4>1. e.size = render_dimensions(f) /\ render_dimensions(f) \in Nat
        BY <2>8, Dimensions DEF InStep
      <4> QED BY <3>2, <4>1 DEF ConversionFits
    <3> QED BY <3>1, <3>2
  <2> QED BY <2>6, <2>7, <2>9, <2>11, <2>12 DEF e
<1>10. Accounted(s.g, lost)
  BY <1>1, <1>7, <1>8
<1> QED BY <1>9, <1>10 DEF Moved

-----------------------------------------------------------------------------
(* The actions. *)

(* An action whose operation moves the native side keeps the invariant. *)
LEMMA PerformKeeps ==
    ASSUME GpuInv, NEW fault, NEW r, Perform(fault, r), facade' \in Facades,
           Accounted(gpu, Losable(faults')) =>
               Moved(gpu, r, facade, facade', Losable(faults'), fault),
           last_draw' = last_draw \/ (faults' = 0 => last_draw' = "current")
    PROVE  GpuInv'
<1>1. /\ faults' = (IF fault = NoFault THEN faults ELSE faults + 1) /\ gpu' = r.g
      /\ faults \in Nat /\ Accounted(gpu, Losable(faults))
  BY DEF Perform, GpuInv
<1>2. /\ faults' \in Nat /\ Accounted(gpu, Losable(faults'))
      /\ (faults' = 0 => faults = 0 /\ fault = NoFault)
  BY <1>1, Losses
<1>3. Moved(gpu, r, facade, facade', Losable(faults'), fault)
  BY <1>2
<1>4. Accounted(gpu', Losable(faults'))
  BY <1>1, <1>3 DEF Moved
<1>5. faults' = 0 => InOrder(gpu', facade') /\ last_draw' \in {"none", "current"}
  BY <1>1, <1>2, <1>3 DEF Moved, GpuInv
<1> QED BY <1>2, <1>4, <1>5 DEF GpuInv, Accounted, AllLost, MeshTracked, InOrder

(* What may be lost after the step, as its lemmas ask for it. *)
LEMMA LossesAfter ==
    ASSUME GpuInv, NEW fault, NEW r, Perform(fault, r)
    PROVE  LossesAllowed(fault, Losable(faults')) /\ "view" \in Losable(faults')
<1>1. /\ faults' = (IF fault = NoFault THEN faults ELSE faults + 1)
      /\ faults \in Nat /\ Accounted(gpu, Losable(faults))
  BY DEF Perform, GpuInv
<1>2. LossesAllowed(fault, Losable(faults'))
  BY <1>1, Losses
<1> QED BY <1>2 DEF LossesAllowed

(* Each action keeps the invariant. *)
LEMMA InitKeeps ==
    ASSUME GpuInv, NEW fault, init(fault)
    PROVE  GpuInv'
<1> DEFINE r == InitEngine(gpu, facade, fault)
           lost == Losable(faults')
<1>1. gpu.engine = NoEngine /\ Perform(fault, r) /\ facade' = facade /\ last_draw' = last_draw
  BY DEF init, InitEngine
<1>2. facade \in Facades
  BY DEF GpuInv
<1>3. r = InitEngine(gpu, facade, fault)
  OBVIOUS
<1> HIDE DEF r
<1>4. ASSUME Accounted(gpu, lost) PROVE Moved(gpu, r, facade, facade, lost, fault)
  <2>1. AllLost(gpu, lost) /\ "view" \in lost
    BY <1>1, <1>4, LossesAfter DEF Accounted
  <2> HIDE DEF lost
  <2> QED BY <1>2, <1>3, <2>1, InitResult
<1> QED BY <1>1, <1>2, <1>4, PerformKeeps

LEMMA DrawKeeps ==
    ASSUME GpuInv, NEW node \in Nodes, NEW fault, NEW late, draw_scene(node, fault, late)
    PROVE  GpuInv'
<1> DEFINE u == submit(gpu, node, fault)
           s == StageAfter(u, fault, late)
           lost == Losable(faults')
<1>1. /\ gpu.engine # NoEngine /\ Perform(fault, s) /\ facade' = facade
      /\ last_draw' = IF ~s.ok \/ ~ConversionFits(s.g.engine) THEN "failed"
                      ELSE IF PictureIsFrame(u.g, s.g.engine) THEN "current" ELSE "stale"
  BY DEF draw_scene, StageAndDraw, Draw, StageAfter
<1>2. facade \in Facades
  BY DEF GpuInv
<1>3. u = submit(gpu, node, fault) /\ s = StageAfter(u, fault, late)
  OBVIOUS
<1> HIDE DEF u, s
<1>4. LossesAllowed(fault, lost)
  BY <1>1, LossesAfter
<1>5. ASSUME Accounted(gpu, lost)
      PROVE  /\ Moved(gpu, s, facade, facade, lost, fault)
             /\ fault = NoFault /\ InOrder(gpu, facade) =>
                   ConversionFits(s.g.engine) /\ PictureIsFrame(u.g, s.g.engine)
  <2>1. MeshTracked(gpu, lost)
    BY <1>1, <1>5 DEF Accounted
  <2> HIDE DEF lost
  <2> QED BY <1>2, <1>3, <1>4, <2>1, DrawResult
<1>6. faults' = 0 => last_draw' = "current"
  <2>1. /\ faults' = (IF fault = NoFault THEN faults ELSE faults + 1)
        /\ faults \in Nat /\ Accounted(gpu, Losable(faults))
    BY <1>1 DEF Perform, GpuInv
  <2>2. Accounted(gpu, lost) /\ (faults' = 0 => faults = 0 /\ fault = NoFault)
    BY <2>1, Losses
  <2>3. faults' = 0 => InOrder(gpu, facade) /\ fault = NoFault
    BY <2>2 DEF GpuInv
  <2>4. faults' = 0 => s.ok /\ ConversionFits(s.g.engine) /\ PictureIsFrame(u.g, s.g.engine)
    BY <1>5, <2>2, <2>3 DEF Moved
  <2> QED BY <1>1, <2>4
<1> QED BY <1>1, <1>2, <1>5, <1>6, PerformKeeps

LEMMA SizeKeeps ==
    ASSUME GpuInv, NEW size \in Sizes, NEW fault, set_size(size, fault)
    PROVE  GpuInv'
<1> DEFINE k == [facade EXCEPT !.output = size]
           z == resize(gpu, render_dimensions(k), fault)
           r == IfCreated(z)
           lost == Losable(faults')
<1>1. /\ facade.output # size /\ Perform(fault, r) /\ facade' = k /\ last_draw' = last_draw
  BY DEF set_size
<1>2. facade \in Facades /\ k \in Facades
  BY DEF GpuInv, Facades
<1>3. z = resize(gpu, render_dimensions(k), fault) /\ k = [facade EXCEPT !.output = size]
      /\ r = IF gpu.engine = NoEngine THEN Done(gpu) ELSE z
  BY DEF IfCreated
<1> HIDE DEF k, z, r
<1>4. LossesAllowed(fault, lost)
  BY <1>1, LossesAfter
<1>5. ASSUME Accounted(gpu, lost) PROVE Moved(gpu, r, facade, k, lost, fault)
  <2> HIDE DEF lost
  <2>1. CASE gpu.engine = NoEngine
    BY <1>3, <1>5, <2>1, NoEngineMoved
  <2>2. CASE gpu.engine # NoEngine
    <3>1. MeshTracked(gpu, lost)
      BY <1>5, <2>2 DEF Accounted
    <3> QED BY <1>1, <1>2, <1>3, <1>4, <2>2, <3>1, SizeResult
  <2> QED BY <2>1, <2>2
<1> QED BY <1>1, <1>2, <1>5, PerformKeeps

LEMMA ToggleKeeps ==
    ASSUME GpuInv, NEW fault, toggle_super_sampling(fault)
    PROVE  GpuInv'
<1> DEFINE k == [facade EXCEPT !.super_sample = NextMode(@)]
           z == Toggle(gpu, k, fault)
           r == IfCreated(z)
           lost == Losable(faults')
<1>1. Perform(fault, r) /\ facade' = k /\ last_draw' = last_draw
  BY DEF toggle_super_sampling, Toggle
<1>2. facade \in Facades
  BY DEF GpuInv
<1>3. /\ z = Toggle(gpu, k, fault) /\ k = [facade EXCEPT !.super_sample = NextMode(@)]
      /\ r = IF gpu.engine = NoEngine THEN Done(gpu) ELSE z
  BY DEF IfCreated
<1>4. k \in Facades
  <2>1. facade.super_sample \in Modes
    BY <1>2 DEF Facades
  <2>2. NextMode(facade.super_sample) \in Modes
    BY <2>1 DEF NextMode, Modes
  <2> QED BY <1>2, <2>2 DEF Facades
<1> HIDE DEF k, z, r
<1>5. LossesAllowed(fault, lost)
  BY <1>1, LossesAfter
<1>6. ASSUME Accounted(gpu, lost) PROVE Moved(gpu, r, facade, k, lost, fault)
  <2> HIDE DEF lost
  <2>1. CASE gpu.engine = NoEngine
    BY <1>3, <1>6, <2>1, NoEngineMoved
  <2>2. CASE gpu.engine # NoEngine
    <3>1. MeshTracked(gpu, lost)
      BY <1>6, <2>2 DEF Accounted
    <3> QED BY <1>2, <1>3, <1>5, <2>2, <3>1, ToggleResult
  <2> QED BY <2>1, <2>2
<1> QED BY <1>1, <1>4, <1>6, PerformKeeps

LEMMA AlgorithmKeeps ==
    ASSUME GpuInv, NEW a \in Algorithms, NEW fault, set_super_sample_algorithm(a, fault)
    PROVE  GpuInv'
<1> DEFINE k == [facade EXCEPT !.sample_algorithm = a]
           z == engine_set_algorithm(gpu, a, fault)
           r == IfCreated(z)
           lost == Losable(faults')
<1>1. Perform(fault, r) /\ facade' = k /\ last_draw' = last_draw
  BY DEF set_super_sample_algorithm
<1>2. facade \in Facades /\ k \in Facades
  BY DEF GpuInv, Facades
<1>3. /\ z = engine_set_algorithm(gpu, a, fault) /\ k = [facade EXCEPT !.sample_algorithm = a]
      /\ r = IF gpu.engine = NoEngine THEN Done(gpu) ELSE z
  BY DEF IfCreated
<1> HIDE DEF k, z, r
<1>4. ASSUME Accounted(gpu, lost) PROVE Moved(gpu, r, facade, k, lost, fault)
  <2> HIDE DEF lost
  <2>1. CASE gpu.engine = NoEngine
    BY <1>3, <1>4, <2>1, NoEngineMoved
  <2>2. CASE gpu.engine # NoEngine
    <3>1. MeshTracked(gpu, lost)
      BY <1>4, <2>2 DEF Accounted
    <3> QED BY <1>2, <1>3, <2>2, <3>1, AlgorithmResult
  <2> QED BY <2>1, <2>2
<1> QED BY <1>1, <1>2, <1>4, PerformKeeps

LEMMA DestroyKeeps ==
    ASSUME GpuInv, destroy
    PROVE  GpuInv'
<1> DEFINE d == engine_destroy(gpu)
           lost == Losable(faults)
<1>1. /\ facade' = [facade EXCEPT !.destroyed = TRUE] /\ faults' = faults
      /\ last_draw' = last_draw
      /\ gpu' = IF gpu.engine = NoEngine THEN gpu ELSE d
  BY DEF destroy
<1>2. facade' \in Facades /\ faults' \in Nat /\ Accounted(gpu, lost) /\ "view" \in lost
  BY <1>1 DEF GpuInv, Facades, Losable
<1>3. facade'.output = facade.output /\ facade'.super_sample = facade.super_sample
      /\ facade'.sample_algorithm = facade.sample_algorithm
  BY <1>1 DEF GpuInv, Facades
<1>4. CASE gpu.engine = NoEngine
  <2>1. gpu' = gpu
    BY <1>1, <1>4
  <2>2. Accounted(gpu', Losable(faults'))
    BY <1>1, <1>2, <2>1
  <2>3. faults' = 0 => InOrder(gpu', facade') /\ last_draw' \in {"none", "current"}
    BY <1>1, <1>4, <2>1 DEF GpuInv, InOrder
  <2> QED BY <1>2, <2>2, <2>3 DEF GpuInv, Accounted, AllLost, MeshTracked, InOrder
<1>5. CASE gpu.engine # NoEngine
  <2>1. gpu' = d /\ MeshTracked(gpu, lost)
    BY <1>1, <1>2, <1>5 DEF Accounted
  <2>2. AllLost(d, lost) /\ NoMoreMaps(gpu, d)
    <3> HIDE DEF lost
    <3> QED BY <1>2, <2>1, DestroyResult
  <2> HIDE DEF d
  <2>3. Accounted(gpu', Losable(faults'))
    BY <1>1, <2>1, <2>2 DEF Accounted, AllLost
  <2>4. faults' = 0 => InOrder(gpu', facade') /\ last_draw' \in {"none", "current"}
    BY <1>1, <2>1, <2>2 DEF GpuInv, InOrder, AllLost, NoMoreMaps
  <2> QED BY <1>2, <2>3, <2>4 DEF GpuInv, Accounted, AllLost, MeshTracked, InOrder
<1> QED BY <1>4, <1>5

(* Every step keeps the invariant. *)
LEMMA GpuStep ==
    ASSUME GpuInv, [GpuNext]_gpuVars
    PROVE  GpuInv'
<1>1. CASE \E fault \in InitFaults \cup {NoFault} : init(fault)
  BY <1>1, InitKeeps
<1>2. CASE \E fault \in DrawFaults \cup {NoFault}, node \in Nodes,
              late \in {"pending", "mapped", "dropped"} : draw_scene(node, fault, late)
  BY <1>2, DrawKeeps
<1>3. CASE \E fault \in ResizeFaults \cup {NoFault} :
              toggle_super_sampling(fault) \/ \E size \in Sizes : set_size(size, fault)
  BY <1>3, ToggleKeeps, SizeKeeps
<1>4. CASE \E fault \in SamplerFaults \cup {NoFault}, a \in Algorithms :
              set_super_sample_algorithm(a, fault)
  BY <1>4, AlgorithmKeeps
<1>5. CASE destroy
  BY <1>5, DestroyKeeps
<1>6. CASE UNCHANGED gpuVars
  <2>1. gpu' = gpu /\ facade' = facade /\ last_draw' = last_draw /\ faults' = faults
    BY <1>6 DEF gpuVars
  <2>2. facade' \in Facades /\ faults' \in Nat /\ Accounted(gpu', Losable(faults'))
    BY <2>1 DEF GpuInv
  <2>3. faults' = 0 => InOrder(gpu', facade') /\ last_draw' \in {"none", "current"}
    BY <2>1 DEF GpuInv
  <2> QED BY <2>2, <2>3 DEF GpuInv, Accounted, AllLost, MeshTracked, InOrder
<1> QED BY <1>1, <1>2, <1>3, <1>4, <1>5, <1>6 DEF GpuNext

(* The invariant holds before the facade is used. *)
LEMMA GpuInitially ==
    GpuInit => GpuInv
<1> SUFFICES ASSUME GpuInit PROVE GpuInv
  OBVIOUS
<1>1. facade \in Facades /\ faults \in Nat /\ faults = 0 /\ last_draw = "none"
  BY DEF GpuInit, Facades, Algorithms
<1>2. /\ gpu \in NativeSides /\ gpu.live = {} /\ gpu.mapped = {} /\ gpu.pending = {}
      /\ ~gpu.misuse /\ gpu.engine = NoEngine
  BY DEF GpuInit, NativeSides
<1>3. NativeOK(gpu)
  BY <1>2, FS_EmptySet DEF NativeOK
<1>4. Accounted(gpu, Losable(faults)) /\ InOrder(gpu, facade)
  BY <1>2, <1>3 DEF Accounted, AllLost, InOrder
<1> QED BY <1>1, <1>4 DEF GpuInv

(* Along every behaviour, every live handle has its owner or is one of those *)
(* the code is known to lose, and as long as no native call failed the       *)
(* engine is set to what the facade is set to.                               *)
THEOREM GpuInvariant == GpuSpec => []GpuInv
<1>1. GpuInit => GpuInv
  BY GpuInitially
<1>2. GpuInv /\ [GpuNext]_gpuVars => GpuInv'
  BY GpuStep
<1> QED BY <1>1, <1>2, PTL DEF GpuSpec

(* Whatever failed, and after whatever calls of the facade, no native call *)
(* takes a released object, the engine holds only live ones, and what is   *)
(* live without an owner is of the kinds NothingLost names: engine.ml's    *)
(* unwinding of failed constructions is complete but for those.            *)
THEOREM GpuHandlesOwned == GpuSpec => []HandlesOwned
<1>1. GpuInv => HandlesOwned
  <2> SUFFICES ASSUME GpuInv PROVE HandlesOwned
    OBVIOUS
  <2>1. CASE gpu.engine = NoEngine
    <3>1. AllLost(gpu, Losable(faults)) /\ Owned = {}
      BY <2>1 DEF GpuInv, Accounted, Owned, OwnedBy
    <3> QED BY <3>1 DEF HandlesOwned, HandlesLive, NothingLost, AllLost, NativeOK, Losable
  <2>2. CASE gpu.engine # NoEngine
    <3> DEFINE e == gpu.engine
    <3>1. MeshTracked(gpu, Losable(faults))
      BY <2>2 DEF GpuInv, Accounted
    <3>2. Owned = Rest(e) \cup MeshOwned(e.mesh)
      BY <2>2 DEF Owned, OwnedBy, Rest
    <3>3. /\ ~gpu.misuse /\ Rest(e) \subseteq gpu.live /\ MeshOwned(e.mesh) \subseteq gpu.live
          /\ \A h \in gpu.live : \/ h \in Rest(e) \/ h \in MeshOwned(e.mesh)
                                 \/ h[1] \in Losable(faults)
      BY <3>1 DEF MeshTracked, Tracked, NativeOK
    <3>4. HandlesLive
      BY <3>2, <3>3 DEF HandlesLive
    <3>5. NothingLost
      BY <3>2, <3>3 DEF NothingLost, Losable
    <3> QED BY <3>4, <3>5 DEF HandlesOwned
  <2> QED BY <2>1, <2>2
<1> QED BY <1>1, GpuInvariant, PTL

(* What the engine's readbacks say of their mapping is what the device has: *)
(* a readback is marked mapped only while its buffer is, and without a      *)
(* failed call none stays mapped.                                           *)
THEOREM GpuMapStateAgrees == GpuSpec => []MapStateAgrees
<1>1. GpuInv => MapStateAgrees
  <2> SUFFICES ASSUME GpuInv PROVE MapStateAgrees
    OBVIOUS
  <2>1. faults = 0 => gpu.mapped = {} /\ gpu.pending = {}
    BY DEF GpuInv, InOrder
  <2>2. \A r \in ReadbacksInUse : r.mapped => r.buffer \in gpu.mapped
    <3>1. gpu.engine # NoEngine => MapsAgree(gpu.engine, gpu.mapped)
      BY DEF GpuInv, Accounted, MeshTracked, Tracked
    <3> QED BY <3>1 DEF ReadbacksInUse, MapsAgree
  <2> QED BY <2>1, <2>2 DEF MapStateAgrees
<1> QED BY <1>1, GpuInvariant, PTL

(* As long as no native call fails, a draw that reports success has drawn  *)
(* the frame it submitted in the facade's size, mode and algorithm.        *)
THEOREM GpuDrawnIsCurrent == GpuSpec => []DrawnIsCurrent
<1>1. GpuInv => DrawnIsCurrent
  BY DEF GpuInv, DrawnIsCurrent
<1> QED BY <1>1, GpuInvariant, PTL
=============================================================================
