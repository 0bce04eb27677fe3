SPECIFICATION FairSpec
CONSTANTS
    N = 2
    LenCells = 2
    BodyCells = 1
    Kinds = {"heartbeat", "handled", "unhandled", "badlen", "badsum"}
INVARIANTS InOrder PartWatched
PROPERTIES SendsInOrder Answered
CHECK_DEADLOCK FALSE
