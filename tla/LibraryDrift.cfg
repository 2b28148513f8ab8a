SPECIFICATION FairSpec
CONSTANTS
    timer = timer
    other = other
    mods = mods
    discs = discs
    game = game
    disc2 = disc2
    Roms <- TwoRoms
    Names = {game, mods, discs}
    Files = {game, disc2}
    Inner <- GameFiles
    Gone = Gone
    NoFile = NoFile
    NoIds = NoIds
    Nothing = Nothing
    UserFile = UserFile
    Foreign = Foreign
    Missing = Missing
    Plain = Plain
    Marked = Marked
    Procs <- TwoProcs
    Timer = timer
    Scenes <- Drift
CHECK_DEADLOCK FALSE
PROPERTY FullSyncCorrects
