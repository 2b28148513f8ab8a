SPECIFICATION FairSpec
CONSTANTS
    t1 = t1
    t2 = t2
    t3 = t3
    None = None
    Other = Other
    Threads <- ThreeThreads
    Debounce = 1
    Cooldown = 2
    Faults = {"run", "command", "restart", "lock"}
    MaxChanges = 3
INVARIANTS
    TimerInv
    NothingForgotten
    TransfersExclude
PROPERTIES
    Debounced
    DealtWith
