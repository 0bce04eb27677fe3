SPECIFICATION Spec
CONSTANTS
    Peers = {p, q}
    SeqMin = 1
    Keys <- Ids
    Values <- Ids
    Timeouts <- TransTimeouts
    SeqMax = 3
    TransTimeouts = {1, 2}
    MaxTime = 2
    CancelsSelf = TRUE
    NoRecord = NoRecord
    NoTrans = NoTrans
    NoCall = NoCall
INVARIANTS TransSound IndexMatches
PROPERTIES EndsOnce
CHECK_DEADLOCK FALSE
