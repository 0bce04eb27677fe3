SPECIFICATION DispatchSpec
CONSTANTS
    Counts <- MCCounts
    StartConfs <- MCStartConfs
    Busy <- MCBusy
    Starters = {"global"}
    ConnIDs = {1}
    Seeds = {0, 1}
    MaxSends = 2
    MaxReplies = 2
    Careful = TRUE
INVARIANTS StartIsSound Routed
CHECK_DEADLOCK FALSE
