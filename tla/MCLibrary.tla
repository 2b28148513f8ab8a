----------------------------- MODULE MCLibrary -----------------------------
(* LibrarySync on a small instance, for TLC: two ROMs of one platform, among
   a file, two folders with a game file of the same name, and a folder with
   two discs. *)
EXTENDS LibrarySync, TLC

CONSTANTS timer, other, mods, discs, game, disc2

TwoRoms == {1, 2}
TwoProcs == {timer, other}
GameFiles == [n \in Names |->
    CASE n = game -> {}
      [] n = discs -> {game, disc2}
      [] OTHER -> {game}]

Play(l, mine, others, changing, kinds, n) ==
    [lib |-> l, tasks |-> (timer :> mine) @@ (other :> others), prune |-> "prune" \in kinds,
     changing |-> changing, kinds |-> kinds \ {"prune"}, left |-> n]

Drift == {Play(<<mods, Gone>>, {"full"}, {"incremental"}, {1}, {}, 2)}

AllScenes == {
    \* two folders that want one name, and every fault and event alone
    Play(<<mods, discs>>, {"full", "gamelist"}, {}, TwoRoms, {"nas", "user", "mark", "crash", "disk"}, 1),
    \* the timer's sync against the commands of the startup hook
    Play(<<mods, Gone>>, {"full"}, {"incremental", "stale"}, {1}, {}, 2),
    Play(<<mods, discs>>, {"full"}, {"incremental"}, {2}, {}, 2),
    \* ... and against a save sync that refreshes the cache
    Play(<<mods, Gone>>, {"full"}, {"saves"}, {1}, {}, 2),
    \* the NAS and the local disk fail while the library changes
    Play(<<mods, Gone>>, {"full", "gamelist"}, {}, {1}, {"nas", "disk"}, 2),
    \* two full syncs prune what the user works on
    Play(<<game, Gone>>, {"full"}, {"full"}, {}, {"user", "prune"}, 2),
    \* two writers of gamelist.xml, and incremental ones after the user's marks
    Play(<<game, Gone>>, {"full", "gamelist"}, {"gamelist"}, {}, {"mark", "crash"}, 3),
    Play(<<mods, Gone>>, {}, {"gamelist", "incremental"}, {1}, {"mark", "crash"}, 5)}
=============================================================================
