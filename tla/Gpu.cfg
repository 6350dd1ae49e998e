CONSTANTS
    Sizes = {1, 2}
    MaxFaults = 1
    MaxViews = 5
    NoEngine = NoEngine
    NoMesh = NoMesh
    NoSampler = NoSampler
SPECIFICATION GpuSpec
CHECK_DEADLOCK FALSE
INVARIANTS
    HandlesOwned
    MapStateAgrees
    
