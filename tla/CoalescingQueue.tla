--------------------------- MODULE CoalescingQueue --------------------------
(* What the terminal event queue promises: a bounded first-in-first-out      *)
(* queue in which an event of a coalesced class takes the place of the       *)
(* pending one of its class, and which refuses every other event when full.  *)
EXTENDS Naturals, Sequences

CONSTANTS
    Capacity,   \* events that may be pending
    Coalesced,  \* the classes, sets of events, of which one is pending
    Events

VARIABLE pending    \* the pending events, oldest first

(* The event takes the place of a pending event of its class. *)
Coalesce(event) ==
    \E class \in Coalesced, k \in DOMAIN pending :
        /\ event \in class /\ pending[k] \in class
        /\ pending' = [pending EXCEPT ![k] = event]

Accept(event) ==
    /\ \A class \in Coalesced, k \in DOMAIN pending :
         ~(event \in class /\ pending[k] \in class)
    /\ Len(pending) < Capacity
    /\ pending' = Append(pending, event)

Take == pending # <<>> /\ pending' = Tail(pending)

Drop == pending' = <<>>

CoalescingInit == pending = <<>>

CoalescingNext ==
    \/ \E event \in Events : Coalesce(event) \/ Accept(event)
    \/ Take
    \/ Drop

CoalescingSpec == CoalescingInit /\ [][CoalescingNext]_pending

=============================================================================
