------------------------- MODULE NativeRenderables -------------------------
(***************************************************************************)
(* Native measurement: a native renderable measures the Yoga node it is    *)
(* attached to by asking a text buffer view, inside the layout calculation *)
(* and without entering OCaml.  native_renderable.ml, text_buffer_view.ml  *)
(* and text_buffer.ml keep the claims that make this safe; the C layer     *)
(* keeps two flags per node.                                               *)
(*                                                                         *)
(* An operation of native_renderable.ml makes several native calls.  When  *)
(* one of them fails, the code undoes what it did and the operation has no *)
(* effect: no step of the model.                                           *)
(***************************************************************************)
EXTENDS YogaNodes

CONSTANTS Renderables, Views, Buffers, NoOne

ASSUME OwnerConstants ==
    /\ IsFiniteSet(Renderables) /\ IsFiniteSet(Views)
    /\ NoOne \notin Views \cup Buffers

VARIABLES renderables,   \* Native_renderable.t: its node and its measure target, OCaml side
          native,        \* the native renderable: the node and the view it would use
          views,         \* Text_buffer_view.t
          buffers        \* Text_buffer.t

ownerVars == <<renderables, native, views, buffers>>
layoutVars == <<yogaVars, ownerVars>>

NoNode == 0
Idle == [node |-> NoNode, target |-> NoOne]

OpenBuffer(b) == buffers[b].state = "open"
OpenView(v) == views[v].state = "open" /\ OpenBuffer(views[v].buffer)
OpenRenderable(r) == renderables[r].state = "open"

-----------------------------------------------------------------------------
(* Text buffers and views. *)

text_buffer_create(b) ==
    /\ buffers[b].state = "none"
    /\ buffers' = [buffers EXCEPT ![b].state = "open"]
    /\ UNCHANGED <<yogaVars, renderables, native, views>>

text_buffer_view_create(v, b) ==
    /\ views[v].state = "none"
    /\ OpenBuffer(b)
    /\ views' = [views EXCEPT ![v] = [state |-> "open", buffer |-> b, measureUsers |-> 0]]
    /\ buffers' = [buffers EXCEPT ![b].openViews = @ + 1]
    /\ UNCHANGED <<yogaVars, renderables, native>>

MutantClosesMeasuredView(v) ==
    /\ views[v].state = "open"
    /\ views' = [views EXCEPT ![v].state = "closed"]
    /\ buffers' = [buffers EXCEPT ![views[v].buffer].openViews = @ - 1]
    /\ UNCHANGED <<yogaVars, renderables, native>>

\* Text_buffer_view.close: refused while a renderable measures with the view.
text_buffer_view_close(v) ==
    /\ views[v].state = "open"
    /\ views[v].measureUsers = 0
    /\ views' = [views EXCEPT ![v].state = "closed"]
    /\ buffers' = [buffers EXCEPT ![views[v].buffer].openViews = IF @ > 0 THEN @ - 1 ELSE 0]
    /\ UNCHANGED <<yogaVars, renderables, native>>

\* Text_buffer.close: refused while a view is open.
text_buffer_close(b) ==
    /\ OpenBuffer(b)
    /\ buffers[b].openViews = 0
    /\ buffers' = [buffers EXCEPT ![b].state = "closed"]
    /\ UNCHANGED <<yogaVars, renderables, native, views>>

-----------------------------------------------------------------------------
(* The flags of yoga_stubs.c. *)

yoga_node_claim_native_renderable(table, t) == [table EXCEPT ![t[1]].renderableAttached = TRUE]

yoga_node_release_native_renderable(table, t) ==
    [table EXCEPT ![t[1]].renderableAttached = FALSE, ![t[1]].measureAttached = FALSE]

yoga_node_set_native_measure_attached(table, t, attached) ==
    [table EXCEPT ![t[1]].measureAttached = attached]

\* ensure_measure_node_is_leaf.
Leaf(t) == yogaNodeGetChildCount(NativeOf(t)) = 0

-----------------------------------------------------------------------------
(* Native renderables. *)

native_renderable_create(r) ==
    /\ renderables[r].state = "none"
    /\ renderables' = [renderables EXCEPT ![r].state = "open"]
    /\ UNCHANGED <<yogaVars, native, views, buffers>>

\* attach_yoga_node, with yoga_node_claim_native_renderable, then
\* set_native_measure_attached when there is a target already, then
\* native_renderable_attach_yoga_node.
attach_yoga_node(r, x) ==
    /\ OpenRenderable(r)
    /\ renderables[r].node = NoToken
    /\ yoga_node_from_handle(x.token)
    /\ renderables[r].target # NoOne => Leaf(x.token)
    /\ ~Slot(x.token).renderableAttached
    /\ slots' = yoga_node_set_native_measure_attached(
                    yoga_node_claim_native_renderable(slots, x.token),
                    x.token, renderables[r].target # NoOne)
    /\ native' = [native EXCEPT ![r].node = NativeOf(x.token)]
    /\ renderables' = [renderables EXCEPT ![r].node = x.token]
    /\ UNCHANGED <<children, created, dirty, nodes, callbackVars, views, buffers>>

\* set_measure_target: claims the new view, then lets the old one go.
set_measure_target(r, v) ==
    LET node == renderables[r].node
        old == renderables[r].target
        claimed == [views EXCEPT ![v].measureUsers = @ + 1]
    IN  /\ OpenRenderable(r)
        /\ OpenView(v)
        /\ node # NoToken => Leaf(node)
        /\ native' = [native EXCEPT ![r].target = v]
        /\ slots' = IF node = NoToken THEN slots
                    ELSE yoga_node_set_native_measure_attached(slots, node, TRUE)
        /\ views' = IF old = NoOne THEN claimed
                    ELSE [claimed EXCEPT ![old].measureUsers = IF @ > 0 THEN @ - 1 ELSE 0]
        /\ renderables' = [renderables EXCEPT ![r].target = v]
        /\ UNCHANGED <<children, created, dirty, nodes, callbackVars, buffers>>

\* The views after a renderable lets its target go.
WithoutTarget(r) ==
    IF renderables[r].target = NoOne THEN views
    ELSE [views EXCEPT ![renderables[r].target].measureUsers = IF @ > 0 THEN @ - 1 ELSE 0]

clear_measure_target(r) ==
    LET node == renderables[r].node
    IN  /\ OpenRenderable(r)
        /\ native' = [native EXCEPT ![r].target = NoOne]
        /\ slots' = IF node = NoToken THEN slots
                    ELSE yoga_node_set_native_measure_attached(slots, node, FALSE)
        /\ views' = WithoutTarget(r)
        /\ renderables' = [renderables EXCEPT ![r].target = NoOne]
        /\ UNCHANGED <<children, created, dirty, nodes, callbackVars, buffers>>

\* close: clear_measure_target, release the node, destroy the native renderable.
native_renderable_close(r) ==
    LET node == renderables[r].node
    IN  /\ OpenRenderable(r)
        /\ slots' = IF node = NoToken THEN slots
                    ELSE yoga_node_release_native_renderable(slots, node)
        /\ views' = WithoutTarget(r)
        /\ native' = [native EXCEPT ![r] = Idle]
        /\ renderables' = [renderables EXCEPT ![r] =
                              [state |-> "closed", node |-> NoToken, target |-> NoOne]]
        /\ UNCHANGED <<children, created, dirty, nodes, callbackVars, buffers>>

-----------------------------------------------------------------------------
LayoutInit ==
    /\ YogaInit
    /\ renderables = [r \in Renderables |-> [state |-> "none", node |-> NoToken, target |-> NoOne]]
    /\ native = [r \in Renderables |-> Idle]
    /\ views = [v \in Views |-> [state |-> "none", buffer |-> NoOne, measureUsers |-> 0]]
    /\ buffers = [b \in Buffers |-> [state |-> "none", openViews |-> 0]]

LayoutNext ==
    \/ YogaNext /\ UNCHANGED ownerVars
    \/ \E b \in Buffers : text_buffer_create(b) \/ text_buffer_close(b)
    \/ \E v \in Views : text_buffer_view_close(v) \/ \E b \in Buffers : text_buffer_view_create(v, b)
    \/ \E r \in Renderables :
        \/ native_renderable_create(r)
        \/ \E x \in nodes : attach_yoga_node(r, x)
        \/ \E v \in Views : set_measure_target(r, v)
        \/ clear_measure_target(r)
        \/ native_renderable_close(r)

LayoutSpec == LayoutInit /\ [][LayoutNext]_layoutVars

-----------------------------------------------------------------------------
(* Properties. *)

\* Every variable has its type.
LayoutTypeOK ==
    /\ YogaTypeOK
    /\ renderables \in [Renderables -> [state : {"none", "open", "closed"},
          node : NodeTokens \cup {NoToken}, target : Views \cup {NoOne}]]
    /\ native \in [Renderables -> [node : 0 .. MaxNodes, target : Views \cup {NoOne}]]
    /\ views \in [Views -> [state : {"none", "open", "closed"},
          buffer : Buffers \cup {NoOne}, measureUsers : 0 .. Cardinality(Renderables)]]
    /\ buffers \in [Buffers -> [state : {"none", "open", "closed"},
          openViews : 0 .. Cardinality(Views)]]

\* Whatever a layout calculation may reach from a native renderable exists: the
\* node it measures is a node of a live slot claimed by this renderable alone,
\* and the view it asks and the view's buffer are open.
MeasureTargetsOpen ==
    \A r \in Renderables :
        /\ native[r].node # NoNode =>
              /\ \E i \in LiveIndexes : slots[i].node = native[r].node /\ slots[i].renderableAttached
              /\ \A q \in Renderables \ {r} : native[q].node # native[r].node
        /\ native[r].target # NoOne => OpenView(native[r].target)

\* A node is marked measured in C exactly when a native renderable measures it,
\* and a measured node is a leaf: yoga_node_mark_dirty and
\* yoga_node_insert_child rely on that flag to keep Yoga's preconditions.
MeasureFlagsTrue ==
    \A i \in LiveIndexes :
        /\ slots[i].measureAttached <=>
              \E r \in Renderables : native[r].node = slots[i].node /\ native[r].target # NoOne
        /\ slots[i].measureAttached => children[slots[i].node] = <<>>

\* No order of closing renderable, view, buffer and node, and none of attaching
\* and detaching measure functions, leaves a layout with a freed target, a flag
\* that is not true of the native tree, or a node without its callback.
MeasureChainAlive ==
    LayoutTypeOK /\ MeasureTargetsOpen /\ MeasureFlagsTrue /\ MeasuredHaveCallback
=============================================================================
