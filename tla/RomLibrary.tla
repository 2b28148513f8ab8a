----------------------------- MODULE RomLibrary -----------------------------
(***************************************************************************)
(* What Bifrost finds outside: the library of one platform as RomM lists   *)
(* it, and the NAS mount that holds the files.  Both are modelled from how *)
(* client.py and symlink_manager.py read them.                             *)
(***************************************************************************)
EXTENDS Naturals, FiniteSets

CONSTANTS
    Roms,      \* ROM ids, numbered in the order of a listing
    Names,     \* names (fs_name) a ROM's file or folder may have
    Files,     \* names of the game files inside folders
    Inner,     \* Inner[n]: the game files of a folder launched through them;
               \* {} for a plain file and for a folder that is linked as it is
    Gone       \* the name of a ROM that is not there

ASSUME LibraryAssumption ==
    /\ IsFiniteSet(Roms) /\ Roms = 1..Cardinality(Roms)
    /\ Gone \notin Names
    /\ Inner \in [Names -> SUBSET Files]

VARIABLES
    lib,    \* RomM's library: the name of every ROM
    nas,    \* the names present on the NAS
    up,     \* the NAS is mounted
    left    \* bound: how many events the users, RomM, the NAS and failures
            \* have left

libVars == <<lib, nas, up>>

Listings == [Roms -> Names \cup {Gone}]

(* The ROMs of a listing. *)
Listed(l) == {r \in Roms : l[r] # Gone}

NameFree(n) == \A r \in Roms : lib[r] # n

Event == left > 0 /\ left' = left - 1

(* A file or folder of the NAS can be read. *)
Readable(n) == up /\ n \in nas

-----------------------------------------------------------------------------
(* A ROM appears, or is renamed: RomM turns a file into a folder when extras
   are added, and keeps the id (README.md:475). *)
Upsert(r, n) ==
    /\ NameFree(n)
    /\ lib' = [lib EXCEPT ![r] = n]
    /\ nas' = (nas \ {lib[r]}) \cup {n}
    /\ UNCHANGED up

(* The metadata of a ROM changes. *)
Edit(r) == lib[r] # Gone /\ UNCHANGED libVars

(* A ROM is deleted from RomM, with its file or without. *)
Delete(r, file) ==
    /\ lib[r] # Gone
    /\ lib' = [lib EXCEPT ![r] = Gone]
    /\ nas' = IF file THEN nas \ {lib[r]} ELSE nas
    /\ UNCHANGED up

Unmount == up /\ up' = FALSE /\ UNCHANGED <<lib, nas>>
Mount == ~up /\ up' = TRUE /\ UNCHANGED <<lib, nas>>
=============================================================================
