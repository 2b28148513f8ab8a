---------------------------- MODULE LibraryCache ----------------------------
(***************************************************************************)
(* BifrostCache (cache.py) and the listing calls of client.py: roms.json   *)
(* and cache_meta.json, shared by every process without a lock.            *)
(*                                                                         *)
(* The program asks RomM for what changed since a time stamp.  A stamp is  *)
(* represented by that answer: the set of ROMs changed since.  Stamping    *)
(* "now" empties the set, every change in RomM adds to it.                 *)
(***************************************************************************)
EXTENDS RomLibrary

CONSTANTS
    NoFile,  \* no readable roms.json
    NoIds    \* no id_set in cache_meta.json

VARIABLES
    roms,      \* roms.json: a listing, or NoFile
    meta,      \* cache_meta.json
    behind,    \* ROMs changed since meta's fetched_at
    unapplied  \* ROMs changed since meta's last_applied

cacheVars == <<roms, meta, behind, unapplied>>

Metas == [fetched : BOOLEAN,   \* there is an entry for the roms collection
          fresh : BOOLEAN,     \* ... younger than its TTL
          ids : (SUBSET Roms) \cup {NoIds},
          applied : BOOLEAN]   \* last_applied is set

CacheInit ==
    /\ roms = NoFile
    /\ meta = [fetched |-> FALSE, fresh |-> FALSE, ids |-> NoIds, applied |-> FALSE]
    /\ behind = {}
    /\ unapplied = {}

(* RomM's answer to updated_after: the changed ROMs that still exist. *)
Delta(since) == {r \in since : lib[r] # Gone}

(* Mutant: the delta takes the place of the listing. *)
MergeReplaces(old, names, rs) == [r \in rs |-> names[r]]

(* The old listing with the ROMs rs under the names they have now. *)
MergeById(old, names, rs) ==
    [r \in Roms |-> IF r \in rs THEN names[r] ELSE old[r]]

-----------------------------------------------------------------------------
(* get: the file, within the TTL. *)
CacheHit == meta.fetched /\ meta.fresh /\ roms # NoFile

(* A stale file and the stamp it was fetched at. *)
CanUpdate == meta.fetched /\ ~meta.fresh /\ roms # NoFile

(* set, first half: roms.json is replaced. *)
SetData(l) ==
    /\ roms' = l
    /\ UNCHANGED <<meta, behind, unapplied>>

(* set, second half: the meta file is read, changed and replaced.  The ids are
   kept only with a full fetch; last_applied is set by every write. *)
SetMeta(l, full) ==
    /\ meta' = [fetched |-> TRUE, fresh |-> TRUE,
                ids |-> IF full THEN Listed(l) ELSE NoIds, applied |-> TRUE]
    /\ behind' = {}
    /\ unapplied' = {}
    /\ UNCHANGED roms

(* set for platforms or firmware, and set_last_applied. *)
SetLastApplied ==
    /\ meta' = [meta EXCEPT !.applied = TRUE]
    /\ unapplied' = {}
    /\ UNCHANGED <<roms, behind>>

(* update_rom_id_set *)
UpdateIds(ids) ==
    /\ meta' = IF meta.fetched THEN [meta EXCEPT !.ids = ids] ELSE meta
    /\ UNCHANGED <<roms, behind, unapplied>>

(* `bifrost cache invalidate`: last_applied stays. *)
CacheInvalidate ==
    /\ meta.fetched \/ roms # NoFile
    /\ roms' = NoFile
    /\ meta' = [fetched |-> FALSE, fresh |-> FALSE, ids |-> NoIds,
                applied |-> meta.applied]
    /\ behind' = {}
    /\ UNCHANGED unapplied

(* The TTL of roms.json passes. *)
Expire ==
    /\ meta.fresh
    /\ meta' = [meta EXCEPT !.fresh = FALSE]
    /\ UNCHANGED <<roms, behind, unapplied>>

(* RomM stamps the ROM r: it is in every delta from here on. *)
Stamped(r) ==
    /\ behind' = IF meta.fetched THEN behind \cup {r} ELSE {}
    /\ unapplied' = IF meta.applied THEN unapplied \cup {r} ELSE {}
    /\ UNCHANGED <<roms, meta>>
=============================================================================
