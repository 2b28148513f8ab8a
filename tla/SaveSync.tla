------------------------------ MODULE SaveSync ------------------------------
(***************************************************************************)
(* `bifrost save sync --apply`: any number of Bifrost processes on one     *)
(* device reconcile its save files with RomM, while an emulator writes the *)
(* same files and other devices talk to the same server.                   *)
(*                                                                         *)
(* A process surveys the saves and the server's listing and negotiates     *)
(* WITHOUT the lock (build_save_sync_preview), then takes the save-sync    *)
(* lock or gives up, and carries its operations out one request and one    *)
(* file operation at a time (execute_save_sync_preview).  A "save" is one  *)
(* (rom, slot) pairing: one local file, one slot of the server.            *)
(***************************************************************************)
EXTENDS Naturals, RommServer

CONSTANTS
    Procs,                \* process ids, reused once a process is over
    Saves,                \* the (rom, slot) pairs
    Torn,                 \* content of a file whose writing was cut short
    Kinds,                \* the kinds of command that are started
    ConflictStrategy,     \* [sync].conflict_strategy
    Direction,            \* [sync].direction
    Optimistic,           \* [sync].optimistic_downloads
    Faults,               \* what may go wrong in this instance
    MaxEvents             \* bound on edits, hooks, manual syncs and faults

(* How the command is started.  "timer" stands for every headless full sync:
   the 2 h timer, the watcher, the startup hook.  "quit" stands for poweroff
   and reboot, and for suspend, which differs in having no --timeout.
   "manual" runs on a terminal, "resync" is --resync there. *)
AllKinds == {"game-start", "game-end", "quit", "timer", "manual", "resync"}
DownloadOnly == {"game-start"}
UploadOnly == {"game-end", "quit"}
OneRom == {"game-start", "game-end"}            \* called with --rom-path
TimedKinds == {"game-start", "quit"}            \* called with --timeout

AllFaults == {"net", "crash", "alarm", "backup", "disk", "orphan"}

ASSUME ConstantsAssumption ==
    /\ None \notin Content /\ Torn \notin Content /\ Torn # None
    /\ None \notin Procs
    /\ Kinds \subseteq AllKinds
    /\ ConflictStrategy \in {"ask", "local_wins", "server_wins"}
    /\ Direction \in {"push_pull", "push_only", "pull_only"}
    /\ {Optimistic, LinkRefreshes} \subseteq BOOLEAN
    /\ Faults \subseteq AllFaults
    /\ MaxEvents \in Nat

File == Content \cup {None}

Act == {"upload", "download", "conflict", "no_op"}

(* A sync operation: `row` is its save_id and, with it, the content hash. *)
Op == [save : Saves, act : Act, row : File]

(* What a listing says of one save: the row the file name leads to
   (_build_remote_save_index), whether the device is current on it, and the
   rows the device untracked. *)
ListingView == [row : File, current : BOOLEAN, untracked : SUBSET Content]

Labels == {"idle", "survey", "negotiate", "lock", "next",
           "lookup", "link", "post",
           "get", "backup", "part", "replace", "confirm"}
Sending == {"lookup", "link", "post"}
Fetching == {"get", "backup", "part", "replace", "confirm"}
Executing == {"next"} \cup Sending \cup Fetching

VARIABLES
    server,  \* the server's slot of each save
    local,   \* the save file
    bak,     \* <file>.bak
    part,    \* <file>.part
    lock,    \* the holder of the save-sync flock, or None
    proc,    \* the processes
    events,  \* edits, hooks and faults so far
    held,    \* history: every content the save file ever had here
    fresh    \* history: saves the emulator wrote since their last backup

vars == <<server, local, bak, part, lock, proc, events, held, fresh>>
diskVars == <<local, bak, part, held, fresh>>

NoOp == [save |-> None, act |-> "no_op", row |-> None]
NoSurvey == [s \in Saves |-> None]
NoView == [s \in Saves |-> [row |-> None, current |-> FALSE, untracked |-> {}]]

IdleProc == [pc |-> "idle", kind |-> None, scope |-> {}, snap |-> NoSurvey,
             view |-> NoView, todo |-> {}, cur |-> NoOp, buf |-> None,
             timed_out |-> FALSE]

Init ==
    /\ server = [s \in Saves |-> EmptySlot]
    /\ local = [s \in Saves |-> None]
    /\ bak = [s \in Saves |-> None]
    /\ part = [s \in Saves |-> None]
    /\ lock = None
    /\ proc = [p \in Procs |-> IdleProc]
    /\ events = 0
    /\ held = [s \in Saves |-> {}]
    /\ fresh = {}

-----------------------------------------------------------------------------
(* Helpers. *)

At(p, label) == proc[p].pc = label
InWindow(p) == proc[p].pc \in {"part", "replace"}

(* An edit, a hook or a fault uses up one of the MaxEvents. *)
Spend == events < MaxEvents /\ events' = events + 1

Goto(p, label) == proc' = [proc EXCEPT ![p].pc = label]

(* On to the next operation, whether this one succeeded or was caught by the
   loop's `except Exception`: the outcome only reaches the counters. *)
Advance(p) ==
    proc' = [proc EXCEPT ![p].pc = "next", ![p].cur = NoOp, ![p].buf = None]

(* The process is over; the kernel or the `finally` releases its flock. *)
Exit(p) ==
    /\ proc' = [proc EXCEPT ![p] = IdleProc]
    /\ lock' = IF lock = p THEN None ELSE lock

(* Mutant: a download is marked at the server before it is on disk, whatever
   optimistic_downloads says. *)
ServerAfterEager(p) ==
    LET s == proc[p].cur.save
        slot == server[s]
    IN CASE At(p, "link") -> {LinkSave(slot, proc[p].buf)}
         [] At(p, "post") ->
              {PostSave(slot, local[s], links) :
                 links \in {TRUE} \cup (IF "orphan" \in Faults THEN {FALSE} ELSE {})}
         [] OTHER -> {MarkDownloaded(slot, proc[p].cur.row)}

(* The outcomes of the request a process has pending: what it makes of its
   slot of the server.  POST reads the file as it is now, not as hashed. *)
ServerAfter(p) ==
    LET s == proc[p].cur.save
        slot == server[s]
    IN CASE At(p, "link") -> {LinkSave(slot, proc[p].buf)}
         [] At(p, "post") ->
              {PostSave(slot, local[s], links) :
                 links \in {TRUE} \cup (IF "orphan" \in Faults THEN {FALSE} ELSE {})}
         [] At(p, "get") ->
              {IF Optimistic THEN MarkDownloaded(slot, proc[p].cur.row) ELSE slot}
         [] At(p, "confirm") -> {MarkDownloaded(slot, proc[p].cur.row)}

(* A request is answered, or lost, or it acts and its answer is lost.  The
   attempts of _request are one request here: repeating any of these changes
   nothing (POST deduplicates).  A failed one fails the operation. *)
Request(p, onAnswer) ==
    \E slot \in ServerAfter(p) :
      LET done == [server EXCEPT ![proc[p].cur.save] = slot]
      IN \/ server' = done /\ onAnswer /\ UNCHANGED events
         \/ "net" \in Faults /\ Spend /\ server' \in {server, done} /\ Advance(p)

-----------------------------------------------------------------------------
(* The preview, outside the lock. *)

(* The command starts; --rom-path scopes it to one ROM. *)
Start(p, kind, scope) ==
    /\ At(p, "idle")
    /\ kind \in Kinds
    /\ IF kind \in OneRom THEN \E s \in Saves : scope = {s} ELSE scope = Saves
    /\ proc' = [proc EXCEPT ![p].pc = "survey", ![p].kind = kind, ![p].scope = scope]
    /\ IF kind \in {"timer", "quit"} THEN UNCHANGED events ELSE Spend
    /\ UNCHANGED <<server, lock, diskVars>>

(* Listings come newest first; the first row of a name is the one indexed. *)
IndexedRow(slot) ==
    LET rows == Listed(slot) \ Untracked(slot)
    IN IF slot.head \in rows THEN {slot.head} ELSE IF rows = {} THEN {None} ELSE rows

(* List the saves, give orphan rows back their sync record (a repair that
   fails is only logged), list again, and hash the local files in scope. *)
Survey(p) ==
    /\ At(p, "survey")
    /\ \E failed \in SUBSET Saves :
         /\ IF failed = {} THEN UNCHANGED events ELSE "net" \in Faults /\ Spend
         /\ server' = [s \in Saves |-> IF s \in failed THEN server[s]
                                       ELSE TrackSaves(server[s], Orphans(server[s]))]
    /\ \E rows \in [Saves -> File] :
         /\ \A s \in Saves : rows[s] \in IndexedRow(server'[s])
         /\ proc' = [proc EXCEPT
              ![p].pc = "negotiate",
              ![p].snap = [s \in Saves |->
                             IF s \in proc[p].scope THEN local[s] ELSE None],
              ![p].view = [s \in Saves |->
                 [row |-> rows[s],
                  current |-> rows[s] # None /\ server'[s].sync[rows[s]] = "current",
                  untracked |-> Untracked(server'[s])]]]
    /\ UNCHANGED <<lock, diskVars>>

(* _legacy_negotiate, for --resync: compares files and listing itself. *)
LegacyVerdicts(file, listed) ==
    LET download == file = None /\ listed.row # None /\ Direction = "push_pull"
        upload == file # None /\ ~listed.current /\ file # listed.row
    IN {[act |-> IF download THEN "download" ELSE IF upload THEN "upload" ELSE "no_op",
         row |-> listed.row]}

(* Mutant: a hook keeps operations of both directions. *)
KeptBothWays(p, s, op) ==
    LET seen == proc[p].view[s]
    IN /\ op.act # "no_op"
       /\ op.row \notin seen.untracked
       /\ ~(op.act = "upload" /\ proc[p].snap[s] = seen.row)

(* What is left of the answer: nothing of an untracked row, no upload of what
   the listing shows, and of a hook's only its direction. *)
Kept(p, s, op) ==
    LET seen == proc[p].view[s]
    IN /\ op.act # "no_op"
       /\ op.row \notin seen.untracked
       /\ ~(op.act = "upload" /\ proc[p].snap[s] = seen.row)
       /\ proc[p].kind \in DownloadOnly => op.act \in {"download", "conflict"}
       /\ proc[p].kind \in UploadOnly => op.act \in {"upload", "conflict"}

Negotiate(p) ==
    /\ At(p, "negotiate")
    /\ \E answer \in [proc[p].scope -> [act : Act, row : File]] :
         /\ \A s \in proc[p].scope :
              answer[s] \in IF proc[p].kind = "resync"
                            THEN LegacyVerdicts(proc[p].snap[s], proc[p].view[s])
                            ELSE Verdicts(server[s], proc[p].snap[s])
         /\ proc' = [proc EXCEPT
              ![p].pc = "lock",
              ![p].view = NoView,
              ![p].todo = {[save |-> s, act |-> answer[s].act, row |-> answer[s].row] :
                             s \in {t \in proc[p].scope : Kept(p, t, answer[t])}}]
    /\ UNCHANGED <<server, lock, events, diskVars>>

-----------------------------------------------------------------------------
(* The execution, under the lock. *)

(* Mutant: the flock is taken whoever holds it. *)
TryLockShared(p) ==
    /\ At(p, "lock")
    /\ lock' = p
    /\ proc' = [proc EXCEPT ![p].pc = "next", ![p].snap = local]
    /\ UNCHANGED <<server, events, diskVars>>

(* Take the flock without waiting, or give up; with it, scan the files anew. *)
TryLock(p) ==
    /\ At(p, "lock")
    /\ IF lock = None
       THEN /\ lock' = p
            /\ proc' = [proc EXCEPT ![p].pc = "next", ![p].snap = local]
       ELSE Exit(p)
    /\ UNCHANGED <<server, events, diskVars>>

(* Mutant: hooks leave conflicts to conflict_strategy. *)
ResolveByStrategy(p, op) ==
    IF op.act # "conflict" THEN {op.act}
    ELSE IF ConflictStrategy = "server_wins" THEN {"download"}
    ELSE IF ConflictStrategy = "ask" /\ proc[p].kind \in {"manual", "resync"}
         THEN {"upload", "download", "skip"}
    ELSE {"upload"}

(* What becomes of an operation: hooks resolve a conflict in their direction,
   a terminal asks, the rest follows conflict_strategy. *)
Resolve(p, op) ==
    IF op.act # "conflict" THEN {op.act}
    ELSE IF proc[p].kind \in DownloadOnly THEN {"download"}
    ELSE IF proc[p].kind \in UploadOnly THEN {"upload"}
    ELSE IF ConflictStrategy = "server_wins" THEN {"download"}
    ELSE IF ConflictStrategy = "ask" /\ proc[p].kind \in {"manual", "resync"}
         THEN {"upload", "download", "skip"}
    ELSE {"upload"}

(* Take up an operation at `label`, or drop it (skipped or failed outright). *)
TakeUp(p, op, label, buf) ==
    proc' = [proc EXCEPT ![p].pc = label, ![p].cur = op, ![p].buf = buf,
                         ![p].todo = @ \ {op}]
Drop(p, op) == proc' = [proc EXCEPT ![p].todo = @ \ {op}]

(* Mutant: the file is taken to be there still. *)
BeginUploadUnchecked(p) ==
    /\ At(p, "next")
    /\ \E op \in proc[p].todo :
         /\ "upload" \in Resolve(p, op)
         /\ TakeUp(p, op, IF proc[p].kind = "resync" THEN "post" ELSE "lookup",
                   proc[p].snap[op.save])
    /\ UNCHANGED <<server, lock, events, diskVars>>

(* An upload needs the file the new scan found.  --resync operations carry no
   slot, and without one nothing is looked up by hash. *)
BeginUpload(p) ==
    /\ At(p, "next")
    /\ \E op \in proc[p].todo :
         /\ "upload" \in Resolve(p, op)
         /\ LET hash == proc[p].snap[op.save]
            IN IF hash = None THEN Drop(p, op)
               ELSE TakeUp(p, op, IF proc[p].kind = "resync" THEN "post" ELSE "lookup",
                           hash)
    /\ UNCHANGED <<server, lock, events, diskVars>>

(* A download is redundant when the file already has the row's hash, which
   --resync operations do not carry. *)
BeginDownload(p) ==
    /\ At(p, "next")
    /\ \E op \in proc[p].todo :
         /\ "download" \in Resolve(p, op)
         /\ IF op.row = None \/ (op.row = local[op.save] /\ proc[p].kind # "resync")
            THEN Drop(p, op)
            ELSE TakeUp(p, op, "get", None)
    /\ UNCHANGED <<server, lock, events, diskVars>>

SkipConflict(p) ==
    /\ At(p, "next")
    /\ \E op \in proc[p].todo : "skip" \in Resolve(p, op) /\ Drop(p, op)
    /\ UNCHANGED <<server, lock, events, diskVars>>

(* Mutant: content is posted without being looked up. *)
LookUpNothing(p) ==
    /\ At(p, "lookup")
    /\ Goto(p, "post")
    /\ UNCHANGED <<events, server, lock, diskVars>>

(* Is the content on the server already, in this slot? *)
LookUp(p) ==
    /\ At(p, "lookup")
    /\ \/ /\ Goto(p, IF proc[p].buf \in server[proc[p].cur.save].rows
                     THEN "link" ELSE "post")
          /\ UNCHANGED events
       \/ "net" \in Faults /\ Spend /\ Advance(p)
    /\ UNCHANGED <<server, lock, diskVars>>

Link(p) ==
    /\ At(p, "link")
    /\ Request(p, Advance(p))
    /\ UNCHANGED <<lock, diskVars>>

(* Mutant: nothing is checked of the file that is posted. *)
PostUnchecked(p) ==
    /\ At(p, "post")
    /\ Request(p, Advance(p))
    /\ UNCHANGED <<lock, diskVars>>

(* Opening a file that is gone fails the operation. *)
Post(p) ==
    /\ At(p, "post")
    /\ IF local[proc[p].cur.save] = None
       THEN Advance(p) /\ UNCHANGED <<server, events>>
       ELSE Request(p, Advance(p))
    /\ UNCHANGED <<lock, diskVars>>

Get(p) ==
    /\ At(p, "get")
    /\ Request(p, proc' = [proc EXCEPT ![p].pc = "backup", ![p].buf = proc[p].cur.row])
    /\ UNCHANGED <<lock, diskVars>>

(* Mutant: a .bak that is there already is kept. *)
BackupOnce(p) ==
    LET s == proc[p].cur.save
    IN /\ At(p, "backup")
       /\ bak' = IF local[s] = None \/ bak[s] # None THEN bak
                 ELSE [bak EXCEPT ![s] = local[s]]
       /\ fresh' = fresh \ {s}
       /\ Goto(p, "part")
       /\ UNCHANGED <<events, server, local, part, lock, held>>

(* Copy the file to .bak; an OSError on the way is swallowed. *)
Backup(p) ==
    LET s == proc[p].cur.save
    IN /\ At(p, "backup")
       /\ \/ /\ bak' = IF local[s] = None THEN bak ELSE [bak EXCEPT ![s] = local[s]]
             /\ UNCHANGED events
          \/ "backup" \in Faults /\ Spend /\ UNCHANGED bak
       /\ fresh' = fresh \ {s}
       /\ Goto(p, "part")
       /\ UNCHANGED <<server, local, part, lock, held>>

(* Mutant: a .part that is there already is taken for this download. *)
WritePartResumed(p) ==
    LET s == proc[p].cur.save
    IN /\ At(p, "part")
       /\ part' = IF part[s] = None THEN [part EXCEPT ![s] = proc[p].buf] ELSE part
       /\ Goto(p, "replace")
       /\ UNCHANGED <<events, server, local, bak, lock, held, fresh>>

(* Write the bytes to .part; when that fails the .part is removed. *)
WritePart(p) ==
    LET s == proc[p].cur.save
    IN /\ At(p, "part")
       /\ \/ /\ part' = [part EXCEPT ![s] = proc[p].buf]
             /\ Goto(p, "replace")
             /\ UNCHANGED events
          \/ /\ "disk" \in Faults /\ Spend
             /\ part' = [part EXCEPT ![s] = None]
             /\ Advance(p)
       /\ UNCHANGED <<server, local, bak, lock, held, fresh>>

(* os.replace(.part, file); it fails when the .part is gone.  Only a download
   that was not marked at the server yet is confirmed. *)
Replace(p) ==
    LET s == proc[p].cur.save
    IN /\ At(p, "replace")
       /\ IF part[s] = None
          THEN Advance(p) /\ UNCHANGED <<local, part, held>>
          ELSE /\ local' = [local EXCEPT ![s] = part[s]]
               /\ held' = [held EXCEPT ![s] = @ \cup ({part[s]} \cap Content)]
               /\ part' = [part EXCEPT ![s] = None]
               /\ IF Optimistic THEN Advance(p) ELSE Goto(p, "confirm")
       /\ UNCHANGED <<server, bak, lock, events, fresh>>

Confirm(p) ==
    /\ At(p, "confirm")
    /\ Request(p, Advance(p))
    /\ UNCHANGED <<lock, diskVars>>

(* Nothing left: the session is completed and the lock released. *)
Finish(p) ==
    /\ At(p, "next")
    /\ proc[p].todo = {}
    /\ Exit(p)
    /\ UNCHANGED <<server, events, diskVars>>

-----------------------------------------------------------------------------
(* What goes wrong. *)

(* A failing request of the preview ends the command. *)
Abort(p) ==
    /\ "net" \in Faults /\ Spend
    /\ proc[p].pc \in {"survey", "negotiate"}
    /\ Exit(p)
    /\ UNCHANGED <<server, diskVars>>

(* The process is killed: a .part it was writing may be left cut short.  (The
   code syncs nothing to disk; what a power failure loses of data the kernel
   holds is not modelled.) *)
Crash(p) ==
    /\ "crash" \in Faults /\ Spend
    /\ ~At(p, "idle")
    /\ Exit(p)
    /\ \/ UNCHANGED part
       \/ At(p, "part") /\ part' = [part EXCEPT ![proc[p].cur.save] = Torn]
    /\ UNCHANGED <<server, local, bak, held, fresh>>

(* The --timeout alarm rings, once.  Where TimeoutError ends up depends on
   what runs: outside the loop's try it ends the command; inside a request or
   a file operation `except Exception` counts the operation as failed and the
   loop goes on; the backup and the scans swallow it as the OSError it is; and
   where the transport turns it into its own error, _request tries again. *)
Timeout(p) ==
    "alarm" \in Faults /\ proc[p].kind \in TimedKinds /\ ~proc[p].timed_out /\ Spend

TimeoutEndsCommand(p) ==
    /\ Timeout(p)
    /\ proc[p].pc \in {"survey", "negotiate", "lock", "next"}
    /\ Exit(p)
    /\ UNCHANGED <<server, diskVars>>

TimeoutFailsOperation(p) ==
    LET s == proc[p].cur.save
    IN /\ Timeout(p)
       /\ proc[p].pc \in Sending \cup Fetching
       /\ proc' = [proc EXCEPT ![p].pc = "next", ![p].cur = NoOp, ![p].buf = None,
                               ![p].timed_out = TRUE]
       /\ \/ UNCHANGED server
          \/ /\ proc[p].pc \in {"link", "post", "get", "confirm"}
             /\ At(p, "post") => local[s] # None
             /\ \E slot \in ServerAfter(p) : server' = [server EXCEPT ![s] = slot]
       /\ part' = IF InWindow(p) THEN [part EXCEPT ![s] = None] ELSE part
       /\ UNCHANGED <<lock, local, bak, held, fresh>>

TimeoutInBackup(p) ==
    /\ Timeout(p)
    /\ At(p, "backup")
    /\ proc' = [proc EXCEPT ![p].pc = "part", ![p].timed_out = TRUE]
    /\ fresh' = fresh \ {proc[p].cur.save}
    /\ UNCHANGED <<server, lock, local, bak, part, held>>

TimeoutRetried(p) ==
    /\ Timeout(p)
    /\ proc[p].pc \in {"survey", "negotiate", "lookup", "link", "post", "get", "confirm"}
    /\ proc' = [proc EXCEPT ![p].timed_out = TRUE]
    /\ UNCHANGED <<server, lock, diskVars>>

(* A scan, the preview's or the one that follows the locking, passes over the
   files it was reading. *)
TimeoutInScan(p) ==
    /\ Timeout(p)
    /\ \E missed \in (SUBSET Saves) \ {{}} :
         LET seen(files) == [s \in Saves |-> IF s \in missed THEN None ELSE files[s]]
         IN \/ /\ At(p, "negotiate")
               /\ UNCHANGED lock
               /\ proc' = [proc EXCEPT ![p].timed_out = TRUE,
                                       ![p].snap = seen(proc[p].snap)]
            \/ /\ At(p, "lock") /\ lock = None
               /\ lock' = p
               /\ proc' = [proc EXCEPT ![p].pc = "next", ![p].timed_out = TRUE,
                                       ![p].snap = seen(local)]
    /\ UNCHANGED <<server, diskVars>>

-----------------------------------------------------------------------------
(* The emulator and the user on this device, and the other devices. *)

Play(s) ==
    /\ Spend
    /\ \E c \in Content \ {local[s]} :
         /\ local' = [local EXCEPT ![s] = c]
         /\ held' = [held EXCEPT ![s] = @ \cup {c}]
    /\ fresh' = fresh \cup {s}
    /\ UNCHANGED <<server, bak, part, lock, proc>>

DeleteFile(s) ==
    /\ Spend
    /\ local[s] # None
    /\ local' = [local EXCEPT ![s] = None]
    /\ UNCHANGED <<server, bak, part, lock, proc, held, fresh>>

(* `bifrost save untrack` of any row. *)
Untrack(s) ==
    /\ Spend
    /\ \E c \in server[s].rows : server' = [server EXCEPT ![s] = UntrackSave(@, c)]
    /\ UNCHANGED <<lock, proc, diskVars>>

OtherDevice(s) ==
    /\ Spend
    /\ \E c \in Content \ {server[s].head} :
         server' = [server EXCEPT ![s] = OtherDevicePosts(@, c)]
    /\ UNCHANGED <<lock, proc, diskVars>>

-----------------------------------------------------------------------------

(* What a process does of itself, once started. *)
Step(p) ==
    \/ Survey(p) \/ Negotiate(p) \/ TryLock(p)
    \/ BeginUpload(p) \/ BeginDownload(p) \/ SkipConflict(p)
    \/ LookUp(p) \/ Link(p) \/ Post(p)
    \/ Get(p) \/ Backup(p) \/ WritePart(p) \/ Replace(p) \/ Confirm(p)
    \/ Finish(p)

Failure(p) ==
    \/ Abort(p) \/ Crash(p)
    \/ TimeoutEndsCommand(p) \/ TimeoutFailsOperation(p)
    \/ TimeoutInBackup(p) \/ TimeoutRetried(p) \/ TimeoutInScan(p)

Environment(s) == Play(s) \/ DeleteFile(s) \/ Untrack(s) \/ OtherDevice(s)

Next ==
    \/ \E p \in Procs :
         \/ \E kind \in AllKinds, scope \in SUBSET Saves : Start(p, kind, scope)
         \/ Step(p)
         \/ Failure(p)
    \/ \E s \in Saves : Environment(s)

Spec == Init /\ [][Next]_vars

(* A process that is not killed runs on, and the timer starts a full sync
   again and again. *)
Fairness ==
    /\ \A p \in Procs : WF_vars(Step(p))
    /\ WF_vars(\E p \in Procs : Start(p, "timer", Saves))

FairSpec == Spec /\ Fairness

-----------------------------------------------------------------------------
(* Properties. *)

Bytes == File \cup {Torn}

ProcState ==
    [pc : Labels, kind : AllKinds \cup {None}, scope : SUBSET Saves,
     snap : [Saves -> File], view : [Saves -> ListingView],
     todo : SUBSET Op, cur : Op \cup {NoOp}, buf : File, timed_out : BOOLEAN]

(* Types. *)
TypeOK ==
    /\ server \in [Saves -> Slot]
    /\ local \in [Saves -> Bytes]
    /\ bak \in [Saves -> Bytes]
    /\ part \in [Saves -> Bytes]
    /\ lock \in Procs \cup {None}
    /\ proc \in [Procs -> ProcState]
    /\ events \in 0..MaxEvents
    /\ held \in [Saves -> SUBSET Content]
    /\ fresh \subseteq Saves

(* Whatever a crash cuts short, a save file and its backup are whole: the .part is written
   beside it and renamed onto it (save_sync.py:1337-1343). *)
NoTornSave == \A s \in Saves : local[s] # Torn /\ bak[s] # Torn

(* A download about to land finds in .bak the file it overwrites, unless the
   emulator wrote the file after the backup was taken
   (save_sync.py:1336-1340). Processes share file, .bak and .part: this takes
   the lock. *)
BackupCovers ==
    \A p \in Procs :
      LET s == proc[p].cur.save
      IN InWindow(p) => local[s] \in {None, bak[s]} \/ s \in fresh

(* The bytes a download renames into place are those of the row it fetched,
   though every process writes the same .part (save_sync.py:1337-1340). *)
LandsWhatItFetched ==
    \A p \in Procs :
      At(p, "replace") => part[proc[p].cur.save] = proc[p].cur.row

(* Without optimistic downloads the server takes this device to be current on
   a row only if the save file did hold its content here: what is recorded
   never runs ahead of the disk, whatever crashes or gets lost
   (save_sync.py:1312-1347). *)
RecordedOnlyIfHeld ==
    ~Optimistic =>
      \A s \in Saves : \A c \in server[s].rows :
        server[s].sync[c] \in {"current", "stale"} => c \in held[s]

(* A game-start sync stores nothing on the server; a game-end, quit or suspend
   sync leaves the save files alone; conflicts included (cli.py:1689-1713). *)
HooksOneWay ==
    \A p \in Procs :
      /\ proc[p].kind \in DownloadOnly => proc[p].pc \notin Sending
      /\ proc[p].kind \in UploadOnly => proc[p].pc \notin Fetching

(* "Hard timeout in seconds; exits 0 on expiry" (cli.py:1587): once the alarm
   rang no further transfer begins. *)
NoTransferAfterTimeout ==
    [][\A p \in Procs : proc[p].timed_out /\ At(p, "next")
                          => proc'[p].pc \in {"next", "idle"}]_vars

(* With [sync].direction = "pull_only" (config.py:175, README.md:498) a full
   sync stores nothing on the server. *)
PullOnlyStoresNothing ==
    Direction = "pull_only" => \A p \in Procs : proc[p].pc \notin {"link", "post"}

(* "ES-DE quit/poweroff/reboot hooks: full push/pull" (README.md:223): a quit
   sync plans to fetch what another device stored and this one lacks. *)
QuitPulls ==
    [][\A p \in Procs, s \in Saves :
         /\ At(p, "negotiate") /\ At(p, "lock")'
         /\ proc[p].kind = "quit"
         /\ proc[p].snap[s] = None /\ server[s].head # None
         /\ server[s].sync[server[s].head] = "none"
         => \E op \in proc'[p].todo : op.save = s /\ op.act = "download"]_vars

(* What makes the above inductive. A process between the locking and the end
   holds the lock, and only it; *)
LockHeld == \A p \in Procs : lock = p <=> proc[p].pc \in Executing

(* what it saw and means to fetch are rows of the server, which loses none;
   and an operation under way has what its next step needs. *)
PlanExists(p) ==
    /\ \A s \in Saves : proc[p].view[s].row \in server[s].rows \cup {None}
    /\ \A op \in proc[p].todo : op.row \in server[op.save].rows \cup {None}

TransferReady(p) ==
    LET me == proc[p]
        s == me.cur.save
    IN /\ me.pc \in Sending \cup Fetching => me.cur \in Op
       /\ me.pc \in Sending => me.buf \in Content
       /\ me.pc = "link" => me.buf \in server[s].rows
       /\ me.pc \in Fetching => me.cur.row \in server[s].rows
       /\ me.pc \in {"backup", "part", "replace"} => me.buf = me.cur.row
       /\ me.pc = "replace" => part[s] = me.cur.row

HeadExists == \A s \in Saves : server[s].head \in server[s].rows \cup {None}

SafeInv ==
    /\ TypeOK
    /\ NoTornSave
    /\ LockHeld
    /\ HeadExists
    /\ \A p \in Procs : PlanExists(p) /\ TransferReady(p)

(* Once edits, hooks and faults stop, the timer's syncs bring file and server
   together for good: same content, or a file deleted here that the device is
   current on, or a row the user untracked. *)
Settled(s) ==
    LET head == server[s].head
    IN \/ local[s] = head
       \/ local[s] = None /\ server[s].sync[head] = "current"
       \/ head # None /\ server[s].sync[head] = "untracked"

Converges == \A s \in Saves : <>[]Settled(s)

(* SaveSync implements SaveVault: the contents of files, backups and server
   rows change only in the ways a vault allows, at the single steps of
   processes that share them.  It takes a backup that does not fail. *)
Vault == INSTANCE SaveVault
    WITH disk <- local, spare <- bak, touched <- fresh,
         shelf <- [s \in Saves |-> server[s].rows]

KeepsVault == Vault!VaultSpec
=============================================================================
