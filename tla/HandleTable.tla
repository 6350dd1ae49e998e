---------------------------- MODULE HandleTable ----------------------------
(***************************************************************************)
(* The generation-checked handle tables of the C bindings.  A table is a   *)
(* static array of slots whose entry 0 is never used; a slot keeps the     *)
(* generation it was last allocated with, and a token packs an index and   *)
(* a generation.  span_feed_stubs.c keeps three such tables (feeds, spans, *)
(* reservations) and yoga_stubs.c one (nodes).                             *)
(*                                                                         *)
(* A table is modelled by a function from 1 .. capacity - 1 to records     *)
(* with at least the fields generation and alive, a token by the pair      *)
(* <<index, generation>>.                                                  *)
(***************************************************************************)
EXTENDS Naturals

CONSTANT MaxGeneration          \* UINT16_MAX; small in the runs, so that generations wrap

ASSUME MaxGenerationAssumption == MaxGeneration \in Nat \ {0}

make_token(index, generation) == <<index, generation>>

NoToken == <<0, 0>>             \* index 0 is refused by every lookup

next_generation(g) == IF g = MaxGeneration THEN 1 ELSE g + 1

\* The generation a slot takes when it is allocated; 0 is a slot never used.
ClaimGeneration(slot) == IF slot.generation = 0 THEN 1 ELSE next_generation(slot.generation)

FreeIndexes(table) == {i \in DOMAIN table : ~table[i].alive}

\* The scan of every allocate function takes the first dead slot.
FirstFree(table) == CHOOSE i \in FreeIndexes(table) : \A j \in FreeIndexes(table) : i <= j

MutantForgetsGeneration(table, token) ==
    token[1] \in DOMAIN table /\ table[token[1]].alive

\* What every ..._from_token function asks: in range, alive, same generation.
Resolves(table, token) ==
    /\ token[1] \in DOMAIN table
    /\ table[token[1]].alive
    /\ table[token[1]].generation = token[2]

Tokens(indexes) == indexes \X (1 .. MaxGeneration)
=============================================================================
