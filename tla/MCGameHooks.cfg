SPECIFICATION FairSpec
CONSTANTS
    g1 = g1
    g2 = g2
    d1 = d1
    d2 = d2
    Games = {g1, g2}
    Sessions <- ThreeSessions
    NoMarker = NoMarker
    Torn = Torn
    Dirs = {d1, d2}
    NoDir = NoDir
    Partial = Partial
    Mixed = Mixed
    Far = Far
    NoGame = NoGame
    Starter = Starter
    Timer = Timer
    Free = Free
    Scenes <- AllScenes
INVARIANTS
    TypeOK
    ReportedOnce
    SessionsKept
    EntriesOfOneGame
    NeverNowhere
    DirsWhole
    AttributedRight
PROPERTIES
    KeepsDirVault
    PendingDrains
