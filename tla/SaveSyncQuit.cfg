SPECIFICATION Spec
CONSTANTS
    p1 = p1
    p2 = p2
    s1 = s1
    s2 = s2
    c1 = c1
    c2 = c2
    c3 = c3
    None = None
    Torn = Torn
    Procs <- OneProc
    Saves <- OneSave
    Content <- TwoContents
    Kinds = {"quit"}
    ConflictStrategy = "ask"
    Direction = "push_pull"
    Optimistic = TRUE
    LinkRefreshes = TRUE
    Faults = {}
    MaxEvents = 2
PROPERTY
    QuitPulls
