------------------------------ MODULE DirSaves ------------------------------
(***************************************************************************)
(* Saves that are directories named after a game's serial: which game a    *)
(* directory belongs to (dir_map.py), and the archives they are packed     *)
(* into and unpacked from (folder_pack.py).                                *)
(***************************************************************************)
EXTENDS PlaySessions

CONSTANTS
    Dirs,     \* directories of the card
    NoDir,    \* no such directory
    Partial,  \* an archive is being extracted into it
    Mixed,    \* it holds files of two archives
    Far,      \* the save another device stored
    NoGame

ASSUME DirsAssumption ==
    /\ NoDir \notin Dirs \cup Sessions \cup {0, Partial, Mixed, Far}
    /\ {Partial, Mixed} \cap (Sessions \cup {0, Far}) = {}
    /\ NoGame \notin Games

VARIABLES
    card,     \* the directories
    bak,      \* their .bak
    staging,  \* .bifrost-unpack.part
    changed,  \* the sessions during which they were last written, 0: before
    dirMap,   \* dir_saves.json
    bundles,  \* RomM: the archive of every game, as a function of the
              \* directories; all NoDir when there is none
    had,      \* history: directories that were on the card at some time
    blurred   \* history: directories whose game a hook may mistake; see Blurs

dirVars == <<card, bak, staging, changed, dirMap, bundles, had, blurred>>

Contents == {NoDir, Partial, Mixed, Far} \cup Sessions \cup {0}
Archives == [Dirs -> Contents]
NoArchive == [d \in Dirs |-> NoDir]
Maps == [Dirs -> Games \cup {NoGame}]

(* The directories of an archive, or of the card. *)
In(archive) == {d \in Dirs : archive[d] # NoDir}

(* pack_dirs *)
Pack(dirs) == [d \in Dirs |-> IF d \in dirs THEN card[d] ELSE NoDir]

-----------------------------------------------------------------------------
(* Mutant: what an interrupted extraction left there stays. *)
StagingStays == UNCHANGED staging

(* unpack_to_dirs.  The staging directory is emptied ... *)
ClearStaging == staging' = NoArchive

(* ... the archive is extracted into it ... *)
Extracting(archive) ==
    staging' = [d \in Dirs |-> IF d \in In(archive)
                               THEN (IF staging[d] = NoDir THEN Partial ELSE Mixed) ELSE staging[d]]
Extracted(archive) ==
    staging' = [d \in Dirs |-> CASE staging[d] = Partial /\ d \in In(archive) -> archive[d]
                                 [] OTHER -> staging[d]]

(* ... and for each directory the old one becomes its .bak, once an older .bak
   is removed, ... *)
RemoveBak(d) == bak' = [bak EXCEPT ![d] = NoDir]

(* Mutant: the old directory is removed. *)
RemoveOld(d) ==
    /\ card' = [card EXCEPT ![d] = NoDir]
    /\ UNCHANGED bak

MoveToBak(d) ==
    /\ bak' = [bak EXCEPT ![d] = card[d]]
    /\ card' = [card EXCEPT ![d] = NoDir]

(* ... and the new one takes its place. *)
MoveIn(d) ==
    /\ card' = [card EXCEPT ![d] = staging[d]]
    /\ staging' = [staging EXCEPT ![d] = NoDir]
=============================================================================
