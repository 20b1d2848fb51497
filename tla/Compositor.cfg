SPECIFICATION FairSpec
CONSTANTS
    None = None
    N = 2
    NModes = 2
    Width = 2
    Attr <- MCAttr
    AppPlaces = {"sky"}
    Overflow = {1}
    MAX_Z = 2
    AUTO_TILE_MIN_WINDOWS = 2
    MaxFlushes <- MCMaxFlushes
    MaxInputs = 3
    Inputs <- MCInputs
 
 
INVARIANT StackedOnce
CHECK_DEADLOCK FALSE
PROPERTY PictureSettles
