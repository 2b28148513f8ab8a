------------------------------ MODULE Gamelist ------------------------------
(***************************************************************************)
(* gamelist.xml of one platform (gamelist.py): Bifrost owns the entries    *)
(* and their metadata, ES-DE and the user own tags like <favorite> in      *)
(* them.  An entry has a path; whose metadata it carries is left out.      *)
(***************************************************************************)
EXTENDS LinkSync

CONSTANTS
    Missing,  \* no entry
    Plain,    \* an entry as Bifrost makes it
    Marked    \* an entry with a tag of the user

ASSUME GamelistAssumption == Missing \notin {Plain, Marked} /\ Plain # Marked

VARIABLE glist  \* the entry of every path; all Missing while the file is
                \* absent, truncated or cannot be parsed

(* Paths are names of links and of playlists. *)
M3u(n) == <<"m3u", n>>
Paths == Dests \cup {M3u(n) : n \in Names}
Gamelists == [Paths -> {Missing, Plain, Marked}]
EmptyList == [q \in Paths |-> Missing]

(* The path of an entry: the game file of a folder that holds one and can be
   read; the playlist of a multi-disc folder, but only in the full list. *)
GamePath(n, full) ==
    CASE Cardinality(Inner[n]) = 1 /\ Readable(n) -> CHOOSE f \in Inner[n] : TRUE
      [] Cardinality(Inner[n]) > 1 /\ full -> M3u(n)
      [] OTHER -> n

(* Mutant: the entry is built anew. *)
MergeGameReset(entry) == Plain

(* Bifrost's tags are replaced, the user's stay. *)
MergeGame(entry) == IF entry = Missing THEN Plain ELSE entry

(* apply_gamelist_plan: the entries of the listing and no others. *)
FullPaths(l) == {GamePath(l[r], TRUE) : r \in Listed(l)}

(* Mutant: entries that left the listing stay. *)
MergeFullKeeps(l) == [q \in Paths |-> IF q \in FullPaths(l) THEN MergeGame(glist[q]) ELSE glist[q]]
MergeFull(l) == [q \in Paths |-> IF q \in FullPaths(l) THEN MergeGame(glist[q]) ELSE Missing]

(* apply_gamelist_delta: entries are added or updated. *)
DeltaPaths(l, rs) == {GamePath(l[r], FALSE) : r \in rs}
MergeDelta(l, rs) ==
    [q \in Paths |-> IF q \in DeltaPaths(l, rs) THEN MergeGame(glist[q]) ELSE glist[q]]
=============================================================================
