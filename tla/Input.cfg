\* A chunk decodes to more events than the queue holds: every drain may meet a
\* full queue.
SPECIFICATION FairSpec
CONSTANTS
    InputLength = 3
    BufferSize = 3
    ChunkSize = 2
    QueueCapacity = 1
    Timeout = 1
    MaxResizes = 1
    None = None
INVARIANTS
    EventsKept
    NoMissedEvent
PROPERTIES
    NoSplitSequence
    EventuallyHandled
