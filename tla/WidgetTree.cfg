SPECIFICATION Spec
CONSTANTS
    None = None
    Scenes <- MCScenes
    Points <- MCPoints
    MaxInputs = 1
INVARIANT CopyKeepsWhatItWasTold
INVARIANT LaidOutApart
 
INVARIANT TilesFillArea
PROPERTY LayoutSettles
