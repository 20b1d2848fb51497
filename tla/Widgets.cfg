SPECIFICATION Spec
CONSTANTS
    None = None
    Scenes <- MCScenes
    Notes = {20}
    Ys = {10, 60}
    Heights = {40}
    Keys <- MCKeys
    MaxInputs = 3
INVARIANT PressesCountOnce
INVARIANT FocusFollowsUser
INVARIANT SizesKept
PROPERTY NotificationsHandled
