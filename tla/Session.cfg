\* The owner of the session and one fiber that presents frames and sets modes.
SPECIFICATION SessionFairSpec
CONSTANTS
    Fibers = {owner, writer}
    Owner = owner
    Queries = {capabilities}
    WriterRequests <- WriterRequestsMC
    None = None
INVARIANTS
    ModesAgree
    RestoredIsCooked
PROPERTIES
    PoisonIsFinal
    CallsReturn
