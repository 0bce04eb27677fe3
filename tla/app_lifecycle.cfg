SPECIFICATION FairAppSpec
CONSTANTS
    g = g
    w = w
    NoThread = NoThread
    Threads <- MCThreads
    Groups <- MCGroups
    GroupSeq <- MCGroupSeq
    Related <- MCRelated
    StopRelated <- MCStopRelated
    Globals = {g, NoThread}
    ThreadsCount = 2
    PipeCapacity = 4
    MaxTasks = 2
    MaxNotices <- MCNotices
    MaxReloads = 1
INVARIANTS LifeInOrder
PROPERTIES CallsEnd TaskHandledOrExit Spec
CHECK_DEADLOCK FALSE
