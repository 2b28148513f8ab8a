SPECIFICATION Spec
CONSTANTS
    p1 = p1
    p2 = p2
    s1 = s1
    s2 = s2
    c1 = c1
    c2 = c2
    c3 = c3
    None = None
    Torn = Torn
    Procs <- TwoProcs
    Saves <- OneSave
    Content <- ThreeContents
    Kinds = {"game-start", "game-end", "timer", "manual", "resync"}
    ConflictStrategy = "ask"
    Direction = "push_pull"
    Optimistic = FALSE
    LinkRefreshes = TRUE
    Faults = {"net", "crash", "disk", "orphan"}
    MaxEvents = 4
SYMMETRY Symmetry
INVARIANTS
    TypeOK
    NoTornSave
    BackupCovers
    LandsWhatItFetched
    RecordedOnlyIfHeld
    HooksOneWay
PROPERTIES
    KeepsVault
