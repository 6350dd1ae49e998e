-------------------------- MODULE InductionLemmas --------------------------
(***************************************************************************)
(* Induction and recursion over the naturals, and the concatenation of     *)
(* sequences.  The lemmas speak of sets and functions, not of operators,   *)
(* so that a proof can cite them.                                          *)
(***************************************************************************)
EXTENDS Integers, Sequences, FiniteSetTheorems, WellFoundedInduction, TLAPS

(* A non-empty set of naturals has a least element. *)
LEMMA LeastElement ==
    ASSUME NEW A, A \subseteq Nat, A # {}
    PROVE  \E k \in A : \A l \in A : k <= l
  <1> DEFINE R == StrictSubsetOrdering(Nat)
             B == {0 .. k : k \in A}
  <1>1. IsWellFoundedOn(R, FiniteSubsetsOf(Nat))
    BY FS_StrictSubsetOrderingWellFounded
  <1>2. B \subseteq FiniteSubsetsOf(Nat) /\ B # {}
    <2>1. \A k \in A : IsFiniteSet(0 .. k) /\ 0 .. k \subseteq Nat
      BY FS_Interval
    <2> QED
      BY <2>1 DEF FiniteSubsetsOf
  <1>3. \A k, l \in A : l < k => <<0 .. l, 0 .. k>> \in R
    <2> SUFFICES ASSUME NEW k \in A, NEW l \in A, l < k
                 PROVE  <<0 .. l, 0 .. k>> \in R
      OBVIOUS
    <2>1. 0 .. l \subseteq 0 .. k /\ 0 .. l \subseteq Nat /\ 0 .. k \subseteq Nat
      OBVIOUS
    <2>2. k \in 0 .. k /\ k \notin 0 .. l
      OBVIOUS
    <2> QED
      BY <2>1, <2>2, Zenon DEF StrictSubsetOrdering
  <1> HIDE DEF R
  <1>4. PICK b \in B : \A c \in B : ~(<<c, b>> \in R)
    <2> HIDE DEF B
    <2> QED
      BY <1>1, <1>2, WFMin
  <1>5. PICK k \in A : b = 0 .. k
    OBVIOUS
  <1>6. \A l \in A : ~(l < k)
    <2>1. ASSUME NEW l \in A PROVE ~(<<0 .. l, 0 .. k>> \in R)
      BY <1>4, <1>5
    <2> QED
      BY <1>3, <2>1, Zenon
  <1>7. \A x, y \in Nat : ~(x < y) => y <= x
    OBVIOUS
  <1> QED
    BY <1>6, <1>7, Zenon

(* A set that holds 0 and, with a number, the next one, holds all of them. *)
LEMMA InductionOnSet ==
    ASSUME NEW A, 0 \in A, \A n \in Nat : n \in A => n + 1 \in A
    PROVE  Nat \subseteq A
<1> SUFFICES ASSUME Nat \ A # {} PROVE FALSE
  OBVIOUS
<1>1. PICK k \in Nat \ A : \A l \in Nat \ A : k <= l
  <2> DEFINE B == Nat \ A
  <2>1. B \subseteq Nat /\ B # {}
    OBVIOUS
  <2> HIDE DEF B
  <2>2. \E k \in B : \A l \in B : k <= l
    BY <2>1, LeastElement
  <2> QED BY <2>2 DEF B
<1>2. k # 0 /\ k - 1 \in Nat /\ (k - 1) + 1 = k
  BY <1>1
<1>3. k - 1 \in A
  BY <1>1, <1>2
<1> QED BY <1>1, <1>2, <1>3

(* The first n values of a sequence of values that starts with x and goes on *)
(* with step.                                                                *)
Starts(f, n, S, x, step) ==
    /\ f \in [0 .. n -> S]
    /\ f[0] = x
    /\ \A k \in 0 .. n - 1 : f[k + 1] = step[k][f[k]]

LEMMA StartsAgree ==
    ASSUME NEW S, NEW x, NEW step, NEW m \in Nat, NEW n \in Nat, NEW f, NEW g,
           Starts(f, m, S, x, step), Starts(g, n, S, x, step), m <= n
    PROVE  \A k \in 0 .. m : f[k] = g[k]
<1> DEFINE A == {k \in Nat : k <= m => f[k] = g[k]}
<1>1. 0 \in A
  BY DEF Starts
<1>2. ASSUME NEW k \in Nat, k \in A PROVE k + 1 \in A
  <2>1. CASE k + 1 <= m
    <3>1. k \in 0 .. m - 1 /\ k \in 0 .. n - 1 /\ k <= m
      BY <2>1
    <3>2. f[k] = g[k] /\ f[k + 1] = step[k][f[k]] /\ g[k + 1] = step[k][g[k]]
      BY <1>2, <3>1 DEF Starts
    <3> QED BY <3>2
  <2>2. CASE ~(k + 1 <= m)
    BY <2>2
  <2> QED BY <2>1, <2>2
<1> HIDE DEF A
<1>3. Nat \subseteq A
  BY <1>1, <1>2, InductionOnSet
<1> QED BY <1>3 DEF A

LEMMA StartsExist ==
    ASSUME NEW S, NEW x \in S, NEW step \in [Nat -> [S -> S]]
    PROVE  \A n \in Nat : \E f : Starts(f, n, S, x, step)
<1> DEFINE A == {n \in Nat : \E f : Starts(f, n, S, x, step)}
<1>1. 0 \in A
  <2>1. Starts([k \in 0 .. 0 |-> x], 0, S, x, step)
    BY DEF Starts
  <2> QED BY <2>1
<1>2. ASSUME NEW n \in Nat, n \in A PROVE n + 1 \in A
  <2>1. PICK f : Starts(f, n, S, x, step)
    BY <1>2
  <2> DEFINE g == [k \in 0 .. n + 1 |-> IF k <= n THEN f[k] ELSE step[n][f[n]]]
  <2>2. f \in [0 .. n -> S] /\ f[0] = x /\ \A k \in 0 .. n - 1 : f[k + 1] = step[k][f[k]]
    BY <2>1 DEF Starts
  <2>3. step[n][f[n]] \in S
    BY <2>2
  <2>4. g \in [0 .. n + 1 -> S] /\ g[0] = x
    BY <2>2, <2>3
  <2>5. \A k \in 0 .. n : g[k] = f[k]
    OBVIOUS
  <2>6. g[n + 1] = step[n][f[n]]
    OBVIOUS
  <2> HIDE DEF g
  <2>7. ASSUME NEW k \in 0 .. (n + 1) - 1 PROVE g[k + 1] = step[k][g[k]]
    <3>1. CASE k = n
      BY <2>5, <2>6, <3>1
    <3>2. CASE k # n
      <4>1. k \in 0 .. n - 1 /\ k \in 0 .. n /\ k + 1 \in 0 .. n
        BY <3>2
      <4> QED BY <2>2, <2>5, <4>1
    <3> QED BY <3>1, <3>2
  <2>8. Starts(g, n + 1, S, x, step)
    BY <2>4, <2>7 DEF Starts
  <2> QED BY <2>8
<1> HIDE DEF A
<1>3. Nat \subseteq A
  BY <1>1, <1>2, InductionOnSet
<1> QED BY <1>3 DEF A

(* A function is defined by its value at 0 and the step from each value to the *)
(* next.                                                                       *)
Continues(f, S, x, step) ==
    /\ f \in [Nat -> S]
    /\ f[0] = x
    /\ \A n \in Nat : f[n + 1] = step[n][f[n]]

LEMMA Recursion ==
    ASSUME NEW S, NEW x \in S, NEW step \in [Nat -> [S -> S]]
    PROVE  \E f : Continues(f, S, x, step)
<1> DEFINE F(n) == CHOOSE f : Starts(f, n, S, x, step)
           f == [n \in Nat |-> F(n)[n]]
<1>1. ASSUME NEW n \in Nat PROVE Starts(F(n), n, S, x, step)
  BY StartsExist, Zenon
<1> HIDE DEF F
<1>2. f \in [Nat -> S]
  <2>1. ASSUME NEW n \in Nat PROVE F(n)[n] \in S
    BY <1>1 DEF Starts
  <2> QED BY <2>1
<1>3. f[0] = x
  <2>1. F(0)[0] = x
    BY <1>1 DEF Starts
  <2> QED BY <2>1
<1>4. ASSUME NEW n \in Nat PROVE f[n + 1] = step[n][f[n]]
  <2>1. n + 1 \in Nat /\ n <= n + 1 /\ n \in 0 .. n /\ n \in 0 .. (n + 1) - 1
    OBVIOUS
  <2>2. Starts(F(n), n, S, x, step) /\ Starts(F(n + 1), n + 1, S, x, step)
    BY <1>1, <2>1
  <2>3. F(n)[n] = F(n + 1)[n]
    BY <2>1, <2>2, StartsAgree
  <2>4. F(n + 1)[n + 1] = step[n][F(n + 1)[n]]
    BY <2>1, <2>2 DEF Starts
  <2> QED BY <2>1, <2>3, <2>4
<1> HIDE DEF f
<1>5. Continues(f, S, x, step)
  BY <1>2, <1>3, <1>4 DEF Continues
<1> QED BY <1>5

(* f holds the values of S before and after each step of cs. *)
Runs(S, step, cs, f) ==
    /\ f \in [0 .. Len(cs) -> S]
    /\ \A n \in 1 .. Len(cs) : f[n] = step[cs[n]][f[n - 1]]

(* A list of steps can be taken, from any value. *)
LEMMA RunExists ==
    ASSUME NEW S, NEW x \in S, NEW C, NEW step \in [C -> [S -> S]], NEW l \in Seq(C)
    PROVE  \E g : Runs(S, step, l, g) /\ g[0] = x
<1> DEFINE next == [n \in Nat |-> [s \in S |->
                        IF n + 1 <= Len(l) THEN step[l[n + 1]][s] ELSE s]]
<1>1. Len(l) \in Nat /\ \A n \in 1 .. Len(l) : l[n] \in C
  OBVIOUS
<1>2. next \in [Nat -> [S -> S]]
  <2>1. ASSUME NEW n \in Nat, NEW s \in S
        PROVE  (IF n + 1 <= Len(l) THEN step[l[n + 1]][s] ELSE s) \in S
    <3>1. n + 1 <= Len(l) => n + 1 \in 1 .. Len(l)
      BY <1>1
    <3> QED BY <1>1, <3>1
  <2> QED BY <2>1
<1>3. \A n \in Nat, s \in S : n + 1 <= Len(l) => next[n][s] = step[l[n + 1]][s]
  OBVIOUS
<1> HIDE DEF next
<1>4. PICK f : Continues(f, S, x, next)
  BY <1>2, Recursion
<1>5. f \in [Nat -> S] /\ f[0] = x /\ \A n \in Nat : f[n + 1] = next[n][f[n]]
  BY <1>4 DEF Continues
<1> DEFINE g == [n \in 0 .. Len(l) |-> f[n]]
<1>6. g \in [0 .. Len(l) -> S] /\ g[0] = x
  BY <1>1, <1>5
<1>7. ASSUME NEW n \in 1 .. Len(l) PROVE g[n] = step[l[n]][g[n - 1]]
  <2>1. n - 1 \in Nat /\ (n - 1) + 1 = n /\ n <= Len(l) /\ n - 1 \in 0 .. Len(l)
        /\ n \in 0 .. Len(l)
    BY <1>1
  <2>2. f[n] = next[n - 1][f[n - 1]] /\ f[n - 1] \in S
    BY <1>5, <2>1
  <2>3. next[n - 1][f[n - 1]] = step[l[n]][f[n - 1]]
    BY <1>3, <2>1, <2>2
  <2> QED BY <2>1, <2>2, <2>3
<1> HIDE DEF g
<1>8. Runs(S, step, l, g)
  BY <1>6, <1>7 DEF Runs
<1> QED BY <1>6, <1>8

(* A function that follows the steps as long as it is in S stays in S. *)
LEMMA RunTyped ==
    ASSUME NEW S, NEW C, NEW step \in [C -> [S -> S]], NEW l \in Seq(C), NEW g,
           g = [n \in 0 .. Len(l) |-> g[n]], g[0] \in S,
           \A n \in 1 .. Len(l) : g[n - 1] \in S => g[n] = step[l[n]][g[n - 1]]
    PROVE  Runs(S, step, l, g)
<1>1. Len(l) \in Nat /\ \A n \in 1 .. Len(l) : l[n] \in C
  OBVIOUS
<1> DEFINE A == {n \in Nat : n <= Len(l) => g[n] \in S}
<1>2. 0 \in A
  OBVIOUS
<1>3. ASSUME NEW n \in Nat, n \in A PROVE n + 1 \in A
  <2>1. CASE n + 1 <= Len(l)
    <3>1. n + 1 \in 1 .. Len(l) /\ (n + 1) - 1 = n /\ n <= Len(l)
      BY <1>1, <2>1
    <3>2. g[n] \in S
      BY <1>3, <3>1
    <3>3. g[n + 1] = step[l[n + 1]][g[n]]
      BY <3>1, <3>2
    <3>4. g[n + 1] \in S
      BY <1>1, <3>1, <3>2, <3>3
    <3> QED BY <3>4
  <2> QED BY <2>1
<1> HIDE DEF A
<1>4. Nat \subseteq A
  BY <1>2, <1>3, InductionOnSet
<1>5. \A n \in 0 .. Len(l) : g[n] \in S
  BY <1>1, <1>4 DEF A
<1>6. g \in [0 .. Len(l) -> S]
  BY <1>5
<1>7. ASSUME NEW n \in 1 .. Len(l) PROVE g[n] = step[l[n]][g[n - 1]]
  <2>1. n - 1 \in 0 .. Len(l)
    BY <1>1
  <2> QED BY <1>5, <2>1
<1> QED BY <1>6, <1>7 DEF Runs

(* Where the elements of a concatenation come from. *)
Joined(S, p, q, r) ==
    /\ r \in Seq(S) /\ Len(r) = Len(p) + Len(q)
    /\ \A k \in 1 .. Len(p) : r[k] = p[k]
    /\ \A k \in 1 .. Len(q) : r[Len(p) + k] = q[k]

(* The concatenation of two sequences, element by element. *)
LEMMA Concatenated ==
    ASSUME NEW S, NEW p \in Seq(S), NEW q \in Seq(S), NEW r, r = p \o q
    PROVE  Joined(S, p, q, r)
  BY DEF Joined

=============================================================================
