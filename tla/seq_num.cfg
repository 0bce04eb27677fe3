SPECIFICATION ReuseSpec
CONSTANTS
    SeqMin = 2
    SeqMax = 6
INVARIANTS AllocFindsFree
PROPERTIES FullCircle
