SPECIFICATION TimerSpec
CONSTANTS
    Keys = {a, b}
    NoKey = NoKey
    Totals = {1, 2}
    MaxCalls = 4
    MaxTimes = 3
INVARIANTS TimersAsAsked
CHECK_DEADLOCK FALSE
