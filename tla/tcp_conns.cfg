SPECIFICATION TCPSpec
CONSTANTS
    NoRecord = NoRecord
    FDs = {5, 6}
    SeqMin = 1
    SeqMax = 3
    MaxConns = 3
    MaxTime = 2
    Life = 1
    ConnLimit = 2
    NumLogics = 1
    ClosesInCallback = TRUE
    ClosesInClosed = FALSE
    MaxForeign = 1
INVARIANTS TablesMatch NoUseAfterFree ClosedIsTold
CHECK_DEADLOCK FALSE
