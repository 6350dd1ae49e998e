CONSTANTS
    MaxGeneration = 2
    FeedCapacity = 3
    SpanCapacity = 3
    ReservationCapacity = 2
    MaxStreams = 3
    MaxSpans = 2
SPECIFICATION FeedSpec
CHECK_DEADLOCK FALSE
INVARIANTS
    FeedOwnership
    RenderersWriteToOpenStreams
