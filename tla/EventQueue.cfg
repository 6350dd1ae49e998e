\* Three slots: the ring wraps with both coalesced classes pending.  A sink of
\* three slots: events are lost with the ring full, and in the middle of a drain.
\* The sink stops when MaxEvents were emitted: not a deadlock.
SPECIFICATION QueuesSpec
CHECK_DEADLOCK FALSE
CONSTANTS
    Capacity = 3
    Resizes = {r1, r2}
    Motions = {m1, m2}
    Lossless = {k1, k2}
    None = None
    SinkCapacity = 3
    MaxEvents = 7
    MaxSinks = 3
INVARIANTS
    CoalescedOnce
    EventsAccounted
PROPERTIES
    KeepsPromise
