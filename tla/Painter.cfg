SPECIFICATION Spec
CONSTANTS
    None = None
    Width = 7
    Height = 7
    RESIZE_MARGIN = 1
    RESIZE_CORNER_SIZE = 1
    TITLE_BAR_HEIGHT = 1
    SCROLLBAR_WIDTH = 1
    SCROLLBAR_GAP = 0
    SCROLLBAR_MIN_THUMB = 1
    SHADOW = 1
    MIN_WINDOW_SIZE = 2
    Sprite = 2
    Desks <- MCDesks
    Spots <- MCSpots
    Parallax = 1
    FrameMod = 2
    MaxInputs = 5
INVARIANT ThumbFollowsScroll
INVARIANT ScreenIsCurrent
