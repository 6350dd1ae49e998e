----------------------------- MODULE YogaNodes -----------------------------
(***************************************************************************)
(* The Yoga binding: the node table of yoga_stubs.c, the native tree it    *)
(* stands for, the OCaml nodes that hold its tokens (yoga.ml), and the     *)
(* registry of OCaml measure callbacks (measure_callback.ml).              *)
(*                                                                         *)
(* The C layer keeps its own copy of the parent links, because it must     *)
(* refuse what Yoga would abort on or leave dangling: freeing an attached  *)
(* node, a cycle, a child under a measured node.  A call it refuses        *)
(* returns a status and changes nothing: no step of the model.             *)
(*                                                                         *)
(* free_recursive frees a whole native subtree through its root.  The      *)
(* OCaml nodes of the descendants are not told: their tokens stay in use   *)
(* and only the generation check stands between them and another node.     *)
(***************************************************************************)
EXTENDS HandleTable, FiniteSets, Sequences, SequencesExt

CONSTANTS NodeCapacity,    \* OPENTUI_RAW_YOGA_NODE_CAPACITY
          MaxNodes         \* bound: native nodes ever created

\* A slot is never allocated more often than there are generations: beyond
\* that, a token is taken for a newer one (README, "Bounds").
ASSUME NodeConstants ==
    /\ NodeCapacity \in Nat \ {0}
    /\ MaxNodes \in Nat /\ MaxNodes <= MaxGeneration

VARIABLES slots,           \* yoga_nodes
          children,        \* the native tree: the children of every native node
          created,         \* the number of native nodes ever created
          dirty,           \* the native nodes whose layout is out of date
          nodes,           \* the Yoga.Node.t objects with freed = false
          measured,        \* the native nodes with the OCaml measure function
          registered,      \* yoga_measure_callback_registered
          registrations    \* the nodes with a callback in measure_callback.ml

nodeVars == <<slots, children, created, dirty, nodes>>
callbackVars == <<measured, registered, registrations>>
yogaVars == <<nodeVars, callbackVars>>

NodeIndexes == 1 .. NodeCapacity - 1
NodeTokens == Tokens(NodeIndexes)
NativeNodes == 1 .. MaxNodes            \* a native node is named by the order of its creation

DeadNode == [generation |-> 0, alive |-> FALSE, renderableAttached |-> FALSE,
             measureAttached |-> FALSE, node |-> 0, parent |-> NoToken]

-----------------------------------------------------------------------------
(* The table. *)

LiveIndexes == {i \in NodeIndexes : slots[i].alive}
yoga_handle(i) == make_token(i, slots[i].generation)
yoga_node_from_handle(token) == Resolves(slots, token)
Slot(token) == slots[token[1]]
NativeOf(token) == Slot(token).node

yoga_release_node(slot) == [DeadNode EXCEPT !.generation = slot.generation]

\* What a work list visits: the least set that contains root and, with a node,
\* the nodes of S that a link leads to from there.
Reached(S, links, root) ==
    {n \in S : \A C \in SUBSET S :
        (root \in C /\ \A l \in links : l[1] \in C /\ l[2] \in S => l[2] \in C) => n \in C}

\* The tokens in use, and the parent_handle of every slot that has one.
LinkedTokens == ({yoga_handle(i) : i \in LiveIndexes} \cup {slots[i].parent : i \in LiveIndexes})
                    \ {NoToken}
ParentLinks == {<<yoga_handle(i), slots[i].parent>> :
                    i \in {k \in LiveIndexes : slots[k].parent # NoToken}}

\* The tokens of the live slots below root, root included, as the work lists of
\* yoga_release_subtree_slots and yoga_subtree_has_native_renderable find them.
Subtree(root) == Reached(LinkedTokens, {<<l[2], l[1]>> : l \in ParentLinks}, root)

yoga_subtree_has_native_renderable(root) ==
    \E t \in Subtree(root) : Slot(t).renderableAttached

\* The chain of parents from a token upwards, itself included.
Ancestors(token) == Reached(LinkedTokens, ParentLinks, token)

MutantNeverSeesCycle(parent, child) == FALSE

yoga_would_create_cycle(parent, child) ==
    \/ child \in Ancestors(parent)
    \/ \E t \in Ancestors(parent) : ~yoga_node_from_handle(t)

-----------------------------------------------------------------------------
(* The native tree (external): Yoga's own lists of children, and its mark on *)
(* every node that must be laid out again.                                  *)

yogaNodeGetChildCount(n) == Len(children[n])
yogaNodeInsertChild(lists, p, c, at) == [lists EXCEPT ![p] = InsertAt(@, at + 1, c)]
yogaNodeRemoveChild(lists, p, c) == [lists EXCEPT ![p] = RemoveFirst(@, c)]

ChildLinks == UNION {{<<m, c>> : c \in ToSet(children[m])} : m \in NativeNodes}

\* The nodes of a native subtree.
NativeSubtree(n) == Reached(NativeNodes, ChildLinks, n)

\* yogaNodeMarkDirty, and what every change of style or children does: the mark
\* goes up the tree until it meets a node that has it already.
yogaNodeMarkDirty(n) ==
    IF n \in dirty THEN dirty
    ELSE dirty \cup Reached(NativeNodes \ dirty, {<<l[2], l[1]>> : l \in ChildLinks}, n)

\* yogaNodeCalculateLayout lays out a node and everything below it.
yogaNodeCalculateLayout(n) == dirty \ NativeSubtree(n)

-----------------------------------------------------------------------------
(* Creation and release. *)

NodeObject(token, n) == [token |-> token, node |-> n]

\* yoga_node_create.  native = FALSE is a native creation that fails, which
\* costs the slot a generation; delivered = FALSE an allocation that raises
\* after the slot is filled, which leaves a node that nobody can name.
yoga_node_create(native, delivered) ==
    /\ created < MaxNodes
    /\ FreeIndexes(slots) # {}
    /\ LET i == FirstFree(slots)
           g == ClaimGeneration(slots[i])
       IN  /\ slots' = [slots EXCEPT ![i] =
                 [DeadNode EXCEPT !.generation = g, !.alive = native,
                                  !.node = IF native THEN created + 1 ELSE 0]]
           /\ nodes' = IF native /\ delivered
                       THEN nodes \cup {NodeObject(make_token(i, g), created + 1)} ELSE nodes
    /\ dirty' = IF native THEN dirty \cup {created + 1} ELSE dirty
    /\ created' = created + 1
    /\ UNCHANGED <<children, callbackVars>>

yoga_node_free(x) ==
    /\ yoga_node_from_handle(x.token)
    /\ ~Slot(x.token).renderableAttached
    /\ Slot(x.token).parent = NoToken
    /\ yogaNodeGetChildCount(NativeOf(x.token)) = 0
    /\ slots' = [slots EXCEPT ![x.token[1]] = yoga_release_node(@)]
    /\ nodes' = nodes \ {x}
    /\ measured' = measured \ {NativeOf(x.token)}
    /\ dirty' = dirty \ {NativeOf(x.token)}
    /\ UNCHANGED <<children, created, registered, registrations>>

yoga_release_subtree_slots(root) ==
    [i \in NodeIndexes |->
        IF slots[i].alive /\ yoga_handle(i) \in Subtree(root)
        THEN yoga_release_node(slots[i]) ELSE slots[i]]

yoga_node_free_recursive(x) ==
    /\ yoga_node_from_handle(x.token)
    /\ ~Slot(x.token).renderableAttached
    /\ Slot(x.token).parent = NoToken
    /\ ~yoga_subtree_has_native_renderable(x.token)
    /\ LET gone == NativeSubtree(NativeOf(x.token))
       IN  /\ children' = [n \in NativeNodes |-> IF n \in gone THEN <<>> ELSE children[n]]
           /\ measured' = measured \ gone
           /\ dirty' = dirty \ gone
    /\ slots' = yoga_release_subtree_slots(x.token)
    /\ nodes' = nodes \ {x}
    /\ UNCHANGED <<created, registered, registrations>>

-----------------------------------------------------------------------------
(* Structure. *)

yoga_node_insert_child(p, c, at) ==
    /\ yoga_node_from_handle(p.token)
    /\ yoga_node_from_handle(c.token)
    /\ ~Slot(p.token).measureAttached
    /\ p.token # c.token
    /\ Slot(c.token).parent = NoToken
    /\ ~yoga_would_create_cycle(p.token, c.token)
    /\ at <= yogaNodeGetChildCount(NativeOf(p.token))
    /\ children' = yogaNodeInsertChild(children, NativeOf(p.token), NativeOf(c.token), at)
    /\ slots' = [slots EXCEPT ![c.token[1]].parent = p.token]
    /\ dirty' = yogaNodeMarkDirty(NativeOf(p.token))
    /\ UNCHANGED <<created, nodes, callbackVars>>

yoga_node_remove_child(p, c) ==
    /\ yoga_node_from_handle(p.token)
    /\ yoga_node_from_handle(c.token)
    /\ Slot(c.token).parent = p.token
    /\ children' = yogaNodeRemoveChild(children, NativeOf(p.token), NativeOf(c.token))
    /\ slots' = [slots EXCEPT ![c.token[1]].parent = NoToken]
    /\ dirty' = yogaNodeMarkDirty(NativeOf(p.token))
    /\ UNCHANGED <<created, nodes, callbackVars>>

yoga_node_move_child(p, c, at) ==
    /\ yoga_node_from_handle(p.token)
    /\ yoga_node_from_handle(c.token)
    /\ Slot(c.token).parent = p.token
    /\ at < yogaNodeGetChildCount(NativeOf(p.token))
    /\ children' = yogaNodeInsertChild(
                       yogaNodeRemoveChild(children, NativeOf(p.token), NativeOf(c.token)),
                       NativeOf(p.token), NativeOf(c.token), at)
    /\ dirty' = yogaNodeMarkDirty(NativeOf(p.token))
    /\ UNCHANGED <<slots, created, nodes, callbackVars>>

-----------------------------------------------------------------------------
(* Styles and layout.  A value that is out of range is refused.             *)

\* style_set_value, style_set_enum, style_set_float and style_set_border.
yoga_node_style_set(x) ==
    /\ yoga_node_from_handle(x.token)
    /\ dirty' = yogaNodeMarkDirty(NativeOf(x.token))
    /\ UNCHANGED <<slots, children, created, nodes, callbackVars>>

\* Only a node with a native measure owner may be marked: Yoga aborts on others.
yoga_node_mark_dirty(x) ==
    /\ yoga_node_from_handle(x.token)
    /\ Slot(x.token).measureAttached
    /\ dirty' = yogaNodeMarkDirty(NativeOf(x.token))
    /\ UNCHANGED <<slots, children, created, nodes, callbackVars>>

yoga_node_calculate(x) ==
    /\ yoga_node_from_handle(x.token)
    /\ dirty' = yogaNodeCalculateLayout(NativeOf(x.token))
    /\ UNCHANGED <<slots, children, created, nodes, callbackVars>>

yoga_node_is_dirty(t) == NativeOf(t) \in dirty

-----------------------------------------------------------------------------
(* Measure callbacks in OCaml.  One C function serves every node and finds *)
(* the callback by the node's address; it is installed with the first      *)
(* registration and removed with the last (installed in measure_callback.ml *)
(* and registered in C change together).                                   *)

\* What a layout finds when it measures the node: a size from OCaml, or NaN.
raw_yoga_measure_callback(n) ==
    IF registered /\ n \in registrations THEN "size" ELSE "nan"

yoga_set_measure_callback == registered' = TRUE

yoga_clear_measure_callback == registered' = FALSE

\* Measure_callback.attach.
measure_attach(x) ==
    /\ yoga_node_from_handle(x.token)
    /\ IF registered THEN UNCHANGED registered ELSE yoga_set_measure_callback
    /\ registrations' = registrations \cup {NativeOf(x.token)}
    /\ measured' = measured \cup {NativeOf(x.token)}
    /\ UNCHANGED nodeVars

\* Measure_callback.detach.
measure_detach(x) ==
    /\ yoga_node_from_handle(x.token)
    /\ measured' = measured \ {NativeOf(x.token)}
    /\ registrations' = registrations \ {NativeOf(x.token)}
    /\ IF registrations' = {} THEN yoga_clear_measure_callback ELSE UNCHANGED registered
    /\ UNCHANGED nodeVars

-----------------------------------------------------------------------------
YogaInit ==
    /\ slots = [i \in NodeIndexes |-> DeadNode]
    /\ children = [n \in NativeNodes |-> <<>>]
    /\ created = 0 /\ dirty = {}
    /\ nodes = {}
    /\ measured = {} /\ registered = FALSE /\ registrations = {}

YogaNext ==
    \/ \E native, delivered \in BOOLEAN : yoga_node_create(native, delivered)
    \/ \E x \in nodes :
        \/ yoga_node_free(x)
        \/ yoga_node_free_recursive(x)
        \/ yoga_node_style_set(x)
        \/ yoga_node_mark_dirty(x)
        \/ yoga_node_calculate(x)
        \/ measure_attach(x)
        \/ measure_detach(x)
    \/ \E p, c \in nodes :
        \/ yoga_node_remove_child(p, c)
        \/ \E at \in 0 .. NodeCapacity :
            yoga_node_insert_child(p, c, at) \/ yoga_node_move_child(p, c, at)

-----------------------------------------------------------------------------
(* Properties. *)

\* Every variable has its type (the node table, the OCaml objects).
YogaTypeOK ==
    /\ slots \in [NodeIndexes ->
          [generation : 0 .. MaxGeneration, alive : BOOLEAN, renderableAttached : BOOLEAN,
           measureAttached : BOOLEAN, node : 0 .. MaxNodes, parent : NodeTokens \cup {NoToken}]]
    /\ children \in [NativeNodes -> Seq(NativeNodes)]
    /\ created \in 0 .. MaxNodes
    /\ nodes \subseteq [token : NodeTokens, node : NativeNodes]
    /\ dirty \subseteq NativeNodes /\ measured \subseteq NativeNodes
    /\ registered \in BOOLEAN
    /\ registrations \subseteq NativeNodes

\* The parent links of the C table and Yoga's lists of children describe the
\* same forest: a node is in the list of its recorded parent, once, and in no
\* other list; the recorded parent is alive; and no node is below itself.  This
\* is what lets free, remove_child and move_child trust parent_handle.  Above a
\* node that is out of date every node is, so that is_dirty of the root, which
\* decides whether a frame calculates a layout, misses no change.
TreesAgree ==
    /\ \A i \in LiveIndexes :
          LET n == slots[i].node
              up == slots[i].parent
          IN  /\ up # NoToken => yoga_node_from_handle(up)
              /\ \A m \in NativeNodes :
                    Cardinality({k \in DOMAIN children[m] : children[m][k] = n})
                        = IF up # NoToken /\ m = NativeOf(up) THEN 1 ELSE 0
              /\ up # NoToken => yoga_handle(i) \notin Ancestors(up)
              /\ up # NoToken /\ n \in dirty => yoga_node_is_dirty(up)
    /\ \A m \in NativeNodes : \A k \in DOMAIN children[m] :
          \E i \in LiveIndexes : slots[i].node = children[m][k]

\* A token that resolves names the node it was issued for: the tokens of the
\* descendants that free_recursive released under their OCaml objects stay
\* refused when their slots are allocated again.
StaleTokensRefused ==
    \A x \in nodes : yoga_node_from_handle(x.token) => NativeOf(x.token) = x.node

\* A node that Yoga measures through OCaml finds a callback, whatever other
\* nodes have attached, detached or been freed.
MeasuredHaveCallback ==
    \A n \in measured : raw_yoga_measure_callback(n) = "size"
=============================================================================
