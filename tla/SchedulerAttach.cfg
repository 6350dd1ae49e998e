\* Two schedulers attached to one renderer one after the other.
SPECIFICATION Spec
CONSTANTS
    Schedulers = {s1, s2}
    Intervals = {1, 2}
    Period = 2
    MaxLive = 1
    MaxChanges = 1
    None = None
SYMMETRY SchedulerSymmetry
INVARIANTS
    WakeupWired
    NoLostWakeup
    NoStaleWait
