SPECIFICATION Spec
CONSTANTS
    t1 = t1
    t2 = t2
    NoThread = NoThread
    Threads <- MCThreads
    Groups <- MCGroups
    Related <- OneProducer
    StopRelated <- MCStopRelated
    PipeCapacity = 1
    MaxTasks = 3
    MaxNotices <- AllNotices
CHECK_DEADLOCK FALSE
INVARIANTS NoLostWakeup NoticesConserved TasksConserved DrainedAtOnStop
