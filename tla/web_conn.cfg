SPECIFICATION FairSpec
CONSTANTS
    c1 = c1
    c2 = c2
    Conns = {c1, c2}
    Threads = {t1, t2}
    Idle = Idle
    Scripts <- MCScripts
INVARIANTS BytesInOrder WatchedWhilePart CtxUse
PROPERTIES PartEnds
CHECK_DEADLOCK FALSE
