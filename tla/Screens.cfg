SPECIFICATION ScreensSpec
CONSTANTS
    Parts = {"deltas", "shape", "stream", "single"}
    Desktops <- EveryDesktop
    Clients = {"c", "d"}
    MaxVersion = 3
    MaxHistory = 2
    Client = "c"
    Screens <- SomeScreens
    KeptFrames = 2
    KeptDeltas = 2
    KFrames = 3
    KeptAlone = 3
    KeptDeltasAlone = 1
    KFramesAlone = 5
    KTime = 1
INVARIANTS
    GraphDeltasAddUp
    FrameDeltasAddUp
PROPERTIES
    NodesAreKept
CHECK_DEADLOCK FALSE
