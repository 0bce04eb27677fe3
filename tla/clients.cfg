SPECIFICATION FairSpec
CONSTANTS
    MaxId = 2
    LenCells = 1
    BodyCells = 1
    Bufs = {b1, b2}
    ReconnectInterval = 1
    ReconnectLimit = 2
    Nfys = {n1}
    MaxPeerMsgs = 2
    NoBuf = NoBuf
INVARIANTS ClientsCoherent LossIsTold RspIsAnswer
PROPERTIES Reconnects HTTPReleased
CHECK_DEADLOCK FALSE
