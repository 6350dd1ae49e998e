\* One scheduler, two coprime frame intervals, two cadence changes.
SPECIFICATION FairSpec
CONSTANTS
    Schedulers = {s1}
    Intervals = {2, 3}
    Period = 6
    MaxLive = 2
    MaxChanges = 2
    None = None
INVARIANTS
    PacedAttempts
PROPERTIES
    RequestKept
    WorkServed
    RunReturns
