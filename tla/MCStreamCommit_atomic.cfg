SPECIFICATION Parts
CONSTANTS
    N = 2
    G = 2
    Present <- First
    Strict <- OnlySecond
    KeepBackups = 1
    EditsDuringSwap = FALSE
    MaxEdits = 1
    MaxFaults = 1
    MaxCrashes = 1
    MaxTicks = 1
    MaxAborts = 1
    Absent = Absent
    None = None
    AtStart <- Shapes
    LateEdits = FALSE
    MaxOps = 2
    MaxStrokes = 1
    MaxErrors = 2
    NoTree = NoTree
    Urls = {"u1", "u2"}
    Projects = {"p1", "p2"}
    Spans <- LinkSpans
    NoLink = NoLink
INVARIANTS TypeOK NoUserTreeLost BaselineIsPublished TreeIsKept EditsArrive LinkHolds
PROPERTY GenerationSpec
CHECK_DEADLOCK FALSE
