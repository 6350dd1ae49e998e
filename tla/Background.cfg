\* Three jobs compete for two workers.
SPECIFICATION BackgroundFairSpec
CONSTANTS
    Jobs = {j1, j2, j3}
    Workers = 2
CHECK_DEADLOCK FALSE
PROPERTIES
    SettledForGood
    CancelReleases
    FinishedIsDelivered
