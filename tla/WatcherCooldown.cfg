SPECIFICATION FairSpec
CONSTANTS
    t1 = t1
    t2 = t2
    t3 = t3
    None = None
    Other = Other
    Threads <- TwoThreads
    Debounce = 1
    Cooldown = 3
    Faults = {}
    MaxChanges = 2
PROPERTIES
    SavesReach
