----------------------------- MODULE RommServer -----------------------------
(***************************************************************************)
(* What Bifrost relies on of the RomM server's save API.                   *)
(*                                                                         *)
(* RomM is not part of this repository.  Everything here is read off the   *)
(* way bifrost/api/client.py calls the server and off what                 *)
(* bifrost/save_sync.py says and assumes about the answers.  The module    *)
(* has no state: it defines what one (rom, slot) of the server, a "slot"   *)
(* for short, becomes when a request reaches it.                           *)
(*                                                                         *)
(* RomM never keeps two rows of one slot with the same content: POST       *)
(* deduplicates on (user, rom, content hash, slot).  A row is therefore    *)
(* named by its content.                                                   *)
(***************************************************************************)
CONSTANTS
    Content,        \* the contents a save file can have, told apart by hash
    None,           \* no file, no row
    LinkRefreshes   \* BOOLEAN: a PUT without a file makes its row the newest

(* What the server knows of this device's copy of a row (DeviceSyncSchema):
   nothing, that it is current, that the row changed since, or that the user
   untracked it. *)
SyncState == {"none", "current", "stale", "untracked"}

Slot == [rows : SUBSET Content,
         head : Content \cup {None},            \* the newest row
         sync : [Content -> SyncState],
         mine : SUBSET Content]                 \* origin_device_id = this device

EmptySlot == [rows |-> {}, head |-> None,
              sync |-> [c \in Content |-> "none"], mine |-> {}]

(* POST /api/saves.  Content the slot already has is discarded and nothing
   is linked.  `links` is FALSE when the server stores the row and fails to
   create the device's sync record: the orphan rows Bifrost repairs. *)
PostSave(slot, c, links) ==
    IF c \in slot.rows
    THEN slot
    ELSE [rows |-> slot.rows \cup {c},
          head |-> c,
          sync |-> [slot.sync EXCEPT ![c] = IF links THEN "current" ELSE "none"],
          mine |-> slot.mine \cup {c}]

(* PUT /api/saves/{id} without a file: upserts this device's sync record. *)
LinkSave(slot, c) ==
    [slot EXCEPT !.sync = [@ EXCEPT ![c] = "current"],
                 !.head = IF LinkRefreshes THEN c ELSE @]

(* GET .../content?optimistic=true and POST .../downloaded. *)
MarkDownloaded(slot, c) == [slot EXCEPT !.sync = [@ EXCEPT ![c] = "current"]]

(* POST .../track on each row in `rows`, POST .../untrack on row c. *)
TrackSaves(slot, rows) ==
    [slot EXCEPT !.sync =
        [c \in Content |-> IF c \in rows THEN "current" ELSE slot.sync[c]]]

UntrackSave(slot, c) == [slot EXCEPT !.sync = [@ EXCEPT ![c] = "untracked"]]

(* Another device stores c, or makes the row that already holds it newest. *)
OtherDevicePosts(slot, c) ==
    [slot EXCEPT !.rows = @ \cup {c},
                 !.head = c,
                 !.sync = [@ EXCEPT ![c] = IF slot.sync[c] = "current" THEN "stale"
                                            ELSE slot.sync[c]]]

(* GET /api/saves?device_id=X lists only rows that have a sync record of the
   device; the untracked ones among them say so. *)
Listed(slot)    == {c \in slot.rows : slot.sync[c] # "none"}
Untracked(slot) == {c \in slot.rows : slot.sync[c] = "untracked"}

(* Rows this device uploaded that carry no sync record of it. *)
Orphans(slot) == {c \in slot.rows \cap slot.mine : slot.sync[c] = "none"}

(* POST /api/sync/negotiate for one slot, given the content hash the client
   sent or None: the operations the server may answer with.  A conflict means
   both sides changed since the last sync.  The server compares times: a file
   rewritten with content the device synced before may count as changed. *)
Verdicts(slot, local) ==
    LET current(c) == slot.sync[c] = "current"
        known(c)   == c \in slot.rows /\ slot.sync[c] \in {"current", "stale"}
        acts == IF local = slot.head THEN {"no_op"}
                ELSE IF slot.head = None THEN {"upload"}
                ELSE IF local = None
                     THEN {IF current(slot.head) THEN "no_op" ELSE "download"}
                ELSE IF current(slot.head) THEN {"upload"}
                ELSE IF known(local) THEN {"download", "conflict"}
                ELSE {"conflict"}
    IN [act : acts, row : {slot.head}]
=============================================================================
