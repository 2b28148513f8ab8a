SPECIFICATION FairSpec
CONSTANTS
    timer = timer
    other = other
    mods = mods
    discs = discs
    game = game
    disc2 = disc2
    Roms <- TwoRoms
    Names = {game, mods, discs}
    Files = {game, disc2}
    Inner <- GameFiles
    Gone = Gone
    NoFile = NoFile
    NoIds = NoIds
    Nothing = Nothing
    UserFile = UserFile
    Foreign = Foreign
    Missing = Missing
    Plain = Plain
    Marked = Marked
    Procs <- TwoProcs
    Timer = timer
    Scenes <- AllScenes
CHECK_DEADLOCK FALSE
INVARIANTS
    TypeOK
    FavouritesKept
    OneGameFilePerName
    SettledIsLeftAlone
PROPERTIES
    UsersFilesStay
    UsersFoldersStay
    LinksFollowCache
    GamelistFollowsCache
