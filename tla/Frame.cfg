SPECIFICATION RenderSpec
CONSTANTS
    Top <- MCTop
    Inner <- MCInner
    Updating = {"label"}
    LayoutPasses = 2
    MaxEdits = 3
    NoItem = "none"
CHECK_DEADLOCK FALSE
INVARIANTS
    ClipsMatch
    GridIsThisFrame
    
PROPERTIES
    FrameReturns
