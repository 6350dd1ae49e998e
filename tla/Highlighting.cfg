\* One generation running, one pending or nested, one that supersedes.
SPECIFICATION HighlightingFairSpec
CONSTANTS
    MaxGenerations = 3
    MaxDepth = 2
    Workers = 1
CHECK_DEADLOCK FALSE
INVARIANTS
    OneAdmittedJob
    ShownTextMatches
PROPERTIES
    ObsoleteIsInert
    HighlightingDone
