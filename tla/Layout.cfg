CONSTANTS
    MaxGeneration = 3
    NodeCapacity = 4
    MaxNodes = 3
    Renderables = {r1, r2}
    Views = {v1}
    Buffers = {b1}
    NoOne = NoOne
SPECIFICATION LayoutSpec
SYMMETRY RenderableSymmetry
CHECK_DEADLOCK FALSE
INVARIANTS
    TreesAgree
    StaleTokensRefused
    MeasureChainAlive
