------------------------------ MODULE LinkSync ------------------------------
(***************************************************************************)
(* The ROM directory of one platform: which links a listing calls for      *)
(* (launch_targets.py), how they are planned and applied                   *)
(* (symlink_manager.py), the playlists beside them (multidisc.py), and the *)
(* folder of a platform that RomM does not know any more.                  *)
(*                                                                         *)
(* A target is <<n, n, "itself">>, the file or folder n, or                *)
(* <<n, f, "inside">>, the game file f in the folder n; its second part is *)
(* the name of its link.  An operation is its target.                      *)
(***************************************************************************)
EXTENDS LibraryCache

CONSTANTS
    Nothing,   \* no directory entry
    UserFile,  \* a file of the user
    Foreign    \* a link of the user, to a place that is not on the NAS

VARIABLES
    links,      \* the directory entry under every name
    playlists,  \* the folders whose .m3u is written
    folder      \* the platform folder without a platform

linkVars == <<links, playlists, folder>>

Targets ==
    {<<n, n, "itself">> : n \in Names}
        \cup UNION {{<<n, f, "inside">> : f \in Inner[n]} : n \in Names}
Dests == Names \cup Files
Folders == {"clean",   \* holds nothing but what Bifrost and EmuDeck put there
            "mixed",   \* ... and a file of the user
            "gone"}

IsSymlink(v) == v \in Targets \cup {Foreign}
IsBifrostSymlink(v) == v \in Targets

ASSUME LinksAssumption ==
    /\ UserFile \notin Targets \cup {Nothing, Foreign}
    /\ Nothing \notin Targets \cup {Foreign}
    /\ Foreign \notin Targets

(* Path.exists follows the link. *)
Exists(v) == v \in {UserFile, Foreign} \/ (v \in Targets /\ Readable(v[1]))

-----------------------------------------------------------------------------
(* The entries of a ROM: the folder or file itself, or its game files. *)
LaunchEntries(n) ==
    IF Inner[n] = {} THEN {<<n, n, "itself">>} ELSE {<<n, f, "inside">> : f \in Inner[n]}

(* A folder that cannot be read is skipped this round. *)
CanLaunch(l, r) == l[r] # Gone /\ (Inner[l[r]] = {} \/ Readable(l[r]))

(* Mutant: a name is given to whoever asks. *)
UnclaimedAnyway(n, ops) == LaunchEntries(n)

(* The entries of a ROM after the operations ops.  Two folders may hold a game
   file of the same name: the later one keeps its folder link.  Nobody asks
   who claimed that one's name. *)
Unclaimed(n, ops) ==
    IF \E e \in LaunchEntries(n), op \in ops : e[2] = op[2] THEN {<<n, n, "itself">>}
    ELSE LaunchEntries(n)

(* The operations for the ROMs rs of a listing. *)
LinkPlan(l, rs) ==
    LET upto[r \in Roms \cup {0}] ==
            IF r = 0 THEN {}
            ELSE upto[r - 1] \cup (IF r \in rs /\ CanLaunch(l, r) THEN Unclaimed(l[r], upto[r - 1]) ELSE {})
    IN upto[Cardinality(Roms)]

(* The multi-disc folders of a listing: their .m3u names the discs. *)
PlaylistPlan(l) == {l[r] : r \in {q \in Listed(l) : Cardinality(Inner[l[q]]) > 1}}

(* Mutant: what is planned is never stale. *)
StaleRemovalsUnplanned(ops, reachable) ==
    {d \in Dests : ops # {} /\ IsSymlink(links[d]) /\ \A op \in ops : op[2] # d}

(* The links a full sync removes: planned and broken, or unplanned and either
   broken or Bifrost's.  A platform without operations is not scanned. *)
StaleRemovals(ops, reachable) ==
    {d \in Dests :
        /\ ops # {}
        /\ IsSymlink(links[d])
        /\ IF \E op \in ops : op[2] = d
           THEN reachable /\ ~Exists(links[d])
           ELSE ~Exists(links[d]) \/ IsBifrostSymlink(links[d])}

(* The links an incremental sync removes: unplanned, broken and Bifrost's. *)
BrokenLinkCleanup(ops, reachable) ==
    {d \in Dests :
        /\ ops # {}
        /\ reachable
        /\ \A op \in ops : op[2] # d
        /\ IsBifrostSymlink(links[d])
        /\ ~Exists(links[d])}

(* The links of deleted ROMs, by where a cached listing says they point. *)
DeletedRemovals(l, deleted) ==
    {d \in Dests : links[d] \in Targets /\ \E r \in deleted : links[d][1] = l[r]}

-----------------------------------------------------------------------------
(* evaluate_operation, and the missing-target guard of apply_operation: what
   is left to do for an operation. *)
Action(op) ==
    IF links[op[2]] \in {op, UserFile} \/ (up /\ op[1] \notin nas) THEN "none"
    ELSE IF links[op[2]] = Nothing THEN "create" ELSE "replace"

(* Mutant: what the evaluation saw is unlinked. *)
AfterCheckUnlink(d) == "unlink"

(* A replacement looks again whether a symlink is in the way; the unlinking
   comes after that. *)
AfterCheck(d) == IF IsSymlink(links[d]) THEN "unlink" ELSE "create"

(* unlink removes what is there by now, symlink or not. *)
Unlink(d) == links' = [links EXCEPT ![d] = Nothing]

(* symlink_to makes a link only where there is nothing. *)
SymlinkTo(op) ==
    links' = IF links[op[2]] = Nothing THEN [links EXCEPT ![op[2]] = op] ELSE links
=============================================================================
