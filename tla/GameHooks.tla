----------------------------- MODULE GameHooks -----------------------------
(***************************************************************************)
(* Games are started and ended one after the other; ES-DE runs the         *)
(* game-start hook and waits for it, and starts the game-end hook in the   *)
(* background.  Both record the play session and then run a save sync of   *)
(* the game, and so does bifrost-save-sync.timer at any time.  Here the    *)
(* syncs are about directory saves: one operation each, for one game.      *)
(***************************************************************************)
EXTENDS DirSaves

CONSTANTS
    Starter,  \* the process of the game-start hook
    Timer,    \* the process of the timer's sync
    Free,     \* the lock is not held
    Scenes    \* what the behaviours are about; see Scene

(* The game-end hook of a session is the process of its number. *)
Procs == Sessions \cup {Starter, Timer}

VARIABLES
    scene,   \* never changes: the scene of this behaviour
    played,  \* the last session started, 0 before the first
    phase,   \* what ES-DE does
    lock,    \* who holds save-sync.lock
    proc,    \* what every process holds
    left     \* bound: how many failures and events are left

vars == <<scene, played, phase, lock, proc, left, sessionVars, dirVars>>

(* A scene: the games of the sessions, how many of them are over at the start
   and the markers they left; the game each directory is of; the directories on
   the card and the map at the start; whether RomM offers sync sessions; how
   many events of which kinds happen. *)
Scene ==
    [plays : UNION {[1..n -> Games] : n \in Sessions}, over : Sessions \cup {0},
     marks : [Games -> Sessions \cup {NoMarker}], owner : [Dirs -> Games], card : [Dirs -> {NoDir, 0}],
     map : Maps, negotiates : BOOLEAN, kinds : SUBSET {"far", "fail", "crash"}, left : Nat]

ASSUME HooksAssumption ==
    /\ Scenes \subseteq Scene
    /\ \A s \in Scenes, d \in Dirs : s.map[d] \in {NoGame, s.owner[d]}
    /\ \A s \in Scenes, g \in Games : s.marks[g] \in Sessions =>
            s.marks[g] \in DOMAIN s.plays /\ s.marks[g] <= s.over /\ s.plays[s.marks[g]] = g
    /\ {Starter, Timer} \cap Sessions = {} /\ Starter # Timer /\ Free \notin Procs

Labels == {"idle", "truncating", "marking", "ended", "reading", "logging", "unmarking",
           "surveying", "learning", "mapping", "planning", "locking", "uploading", "comparing",
           "clearing", "extracting", "filling", "swapping", "backing", "moving",
           "consuming", "removing", "completing"}

(* s, g: the session of the hook and the game; start: the session's start
   time, 0 when unknown, or the time of an extraction; mine: the directories
   surveyed as the game's; learn, dir, mem: directories to remember, the one in
   work and the map as read; op: the operation; blob: the archive fetched;
   todo: directories still to swap in; got: entries read from the log. *)
Processes ==
    [pc : Labels, s : Sessions \cup {0}, g : Games \cup {NoGame}, start : Sessions \cup {0},
     mine : SUBSET Dirs, learn : SUBSET Dirs, dir : Dirs \cup {NoDir}, mem : Maps,
     op : {"none", "up", "down"}, blob : Archives, todo : SUBSET Dirs, got : SUBSET Entries]

Process(label, session, game) ==
    [pc |-> label, s |-> session, g |-> game, start |-> 0,
     mine |-> {}, learn |-> {}, dir |-> NoDir, mem |-> [d \in Dirs |-> NoGame],
     op |-> "none", blob |-> NoArchive, todo |-> {}, got |-> {}]
Idle == Process("idle", 0, NoGame)

Init ==
    /\ scene \in Scenes
    /\ played = scene.over /\ phase = "between" /\ lock = Free
    /\ proc = [p \in Procs |-> Idle]
    /\ left = scene.left
    /\ SessionsInit(scene.marks)
    /\ card = scene.card
    /\ bak = NoArchive /\ staging = NoArchive
    /\ changed = [d \in Dirs |-> 0]
    /\ dirMap = scene.map
    /\ bundles = [g \in Games |-> NoArchive]
    /\ had = In(card)
    /\ blurred = {}

-----------------------------------------------------------------------------
At(p, label) == proc[p].pc = label
Event(kind) == kind \in scene.kinds /\ left > 0 /\ left' = left - 1

(* The process goes on at label; and with other fields changed. *)
Goto(p, label) == proc' = [proc EXCEPT ![p].pc = label]
Become(p, me) == proc' = [proc EXCEPT ![p] = me]
OnlyProc == UNCHANGED <<scene, played, phase, lock, left, sessionVars, dirVars>>
OnlySessions == UNCHANGED <<scene, played, phase, lock, left, dirVars>>
OnlyDirs == UNCHANGED <<scene, played, phase, lock, left, sessionVars>>

(* Its operation is over, or there is none. *)
Operated == Process("consuming", 0, NoGame)

(* Mutant: the lock outlives its holder. *)
EndsHolding(p) == Become(p, Idle) /\ UNCHANGED lock

(* The end of a process frees its lock. *)
Ends(p) ==
    /\ Become(p, Idle)
    /\ lock' = IF lock = p THEN Free ELSE lock

-----------------------------------------------------------------------------
(* ES-DE starts a game: the hook first. *)
StartGame ==
    /\ phase = "between"
    /\ played + 1 \in DOMAIN scene.plays
    /\ played' = played + 1
    /\ phase' = "starting"
    /\ Become(Starter, Process("truncating", played', scene.plays[played']))
    /\ UNCHANGED <<scene, lock, left, sessionVars, dirVars>>

Launch ==
    /\ phase = "starting" /\ At(Starter, "idle")
    /\ phase' = "playing"
    /\ UNCHANGED <<scene, played, lock, proc, left, sessionVars, dirVars>>

(* A game-end hook that has not looked at the card yet. *)
Blurs(p, g) ==
    /\ p \in Sessions /\ proc[p].g # g
    /\ proc[p].pc \in {"ended", "reading", "logging", "unmarking", "surveying"}

(* The game saves into one of its directories, or makes it. *)
Play ==
    /\ phase = "playing"
    /\ \E d \in Dirs :
        /\ scene.owner[d] = scene.plays[played] /\ card[d] # played
        /\ card' = [card EXCEPT ![d] = played]
        /\ changed' = [changed EXCEPT ![d] = played]
        /\ had' = had \cup {d}
        /\ blurred' = IF dirMap[d] = NoGame /\ \E p \in Procs : Blurs(p, scene.owner[d])
                      THEN blurred \cup {d} ELSE blurred
    /\ UNCHANGED <<scene, played, phase, lock, proc, left, sessionVars,
                   bak, staging, dirMap, bundles>>

Quit ==
    /\ phase = "playing"
    /\ phase' = "between"
    /\ Become(played, Process("ended", played, scene.plays[played]))
    /\ UNCHANGED <<scene, played, lock, left, sessionVars, dirVars>>

RunTimer ==
    /\ At(Timer, "idle")
    /\ \E d \in Dirs : Become(Timer, Process("surveying", 0, scene.owner[d]))
    /\ OnlyProc

-----------------------------------------------------------------------------
(* record_game_start *)
Truncate(p) ==
    /\ At(p, "truncating")
    /\ SetMarker(proc[p].g, Torn)
    /\ Goto(p, "marking")
    /\ OnlySessions

(* The marker is written; one that was removed in between stays removed. *)
Mark(p) ==
    /\ At(p, "marking")
    /\ IF marker[proc[p].g] = NoMarker THEN UNCHANGED sessionVars ELSE SetMarker(proc[p].g, proc[p].s)
    /\ Goto(p, "surveying")
    /\ OnlySessions

(* The marker is one of another session of the game: what other games saved
   since then and no hook has entered in the map. *)
Misdated(p, start) ==
    {d \in Dirs : /\ start \notin {0, p} /\ changed[d] >= start
                  /\ dirMap[d] = NoGame /\ scene.owner[d] # proc[p].g}

(* session_start_time *)
ReadStart(p) ==
    LET start == SessionStart(proc[p].g) IN
    /\ At(p, "ended")
    /\ Become(p, [proc[p] EXCEPT !.pc = "reading", !.start = start])
    /\ blurred' = blurred \cup Misdated(p, start)
    /\ OnlyDirs
    /\ UNCHANGED <<card, bak, staging, changed, dirMap, bundles, had>>

(* Mutant: a marker that cannot be parsed is logged. *)
ReadMarkerTorn(p) ==
    LET seen == marker[proc[p].g] IN
    /\ At(p, "reading")
    /\ IF seen # NoMarker
       THEN Become(p, [proc[p] EXCEPT !.pc = "logging", !.got = {<<seen, proc[p].s>>}])
       ELSE Goto(p, "surveying")
    /\ OnlyProc

(* record_game_end: without a marker there is nothing to record, and one that
   cannot be parsed is removed next. *)
ReadMarker(p) ==
    LET seen == marker[proc[p].g] IN
    /\ At(p, "reading")
    /\ IF seen \in Sessions
       THEN Become(p, [proc[p] EXCEPT !.pc = "logging", !.got = {<<seen, proc[p].s>>}])
       ELSE Goto(p, IF seen = Torn THEN "unmarking" ELSE "surveying")
    /\ OnlyProc

Log(p) ==
    /\ At(p, "logging")
    /\ \E entry \in proc[p].got : LogSession(entry)
    /\ Become(p, [proc[p] EXCEPT !.pc = "unmarking", !.got = {}])
    /\ OnlySessions

Unmark(p) ==
    /\ At(p, "unmarking")
    /\ SetMarker(proc[p].g, NoMarker)
    /\ Goto(p, "surveying")
    /\ OnlySessions

(* An error of any of these is swallowed, and the sync goes on. *)
RecordFails(p) ==
    /\ Event("fail")
    /\ proc[p].pc \in {"truncating", "marking", "reading", "logging", "unmarking"}
    /\ Become(p, [proc[p] EXCEPT !.pc = "surveying", !.got = {}])
    /\ UNCHANGED <<scene, played, phase, lock, sessionVars, dirVars>>

-----------------------------------------------------------------------------
(* Mutant: any unknown directory is taken for the game's. *)
ChangedSinceAny(start) == {d \in In(card) : start # 0 /\ dirMap[d] = NoGame}

(* Unknown directories that changed since the session began. *)
ChangedSince(start) == {d \in In(card) : start # 0 /\ dirMap[d] = NoGame /\ changed[d] >= start}

(* build_save_sync_preview scans the card and reads the map. *)
Survey(p) ==
    LET me == proc[p]
        new == ChangedSince(me.start)
    IN  /\ At(p, "surveying")
        /\ Become(p, [me EXCEPT !.pc = IF new = {} THEN "planning" ELSE "learning",
                                !.learn = new,
                                !.mine = new \cup {d \in In(card) : dirMap[d] = me.g}])
        /\ OnlyProc

(* The directory d is dealt with; the last one ends the survey or the download. *)
Learnt(me, d) ==
    IF me.learn = {d} /\ me.op = "down" THEN Operated
    ELSE [me EXCEPT !.learn = @ \ {d}, !.dir = NoDir, !.mem = Idle.mem,
                    !.pc = IF me.learn = {d} THEN "planning" ELSE "learning"]

(* remember_dir, by a survey or after a download: the map is read ... *)
Learn(p) ==
    LET me == proc[p]
    IN  /\ At(p, "learning")
        /\ \E d \in me.learn :
            IF dirMap[d] = me.g
            THEN Become(p, Learnt(me, d))
            ELSE Become(p, [me EXCEPT !.dir = d, !.mem = dirMap, !.pc = "mapping"])
        /\ OnlyProc

(* ... and replaced, with whatever others have entered since. *)
Remember(p) ==
    LET me == proc[p]
    IN  /\ At(p, "mapping")
        /\ dirMap' = [me.mem EXCEPT ![me.dir] = me.g]
        /\ blurred' = blurred \cup {d \in Dirs \ {me.dir} : dirMap'[d] # dirMap[d]}
        /\ Become(p, Learnt(me, me.dir))
        /\ OnlyDirs
        /\ UNCHANGED <<card, bak, staging, changed, bundles, had>>

(* The operation RomM's negotiation and the filters leave.  A hook runs one
   way, an upload that is no conflict needs a session, and a conflict may be
   resolved either way by the timer's sync. *)
Plan(p) ==
    LET me == proc[p]
        stored == In(bundles[me.g]) # {}
    IN  /\ At(p, "planning")
        /\ \E op \in {"none", "up", "down"} :
            /\ op = "up" => p # Starter /\ me.mine # {} /\ (me.start # 0 \/ stored)
            /\ op = "down" => p \in {Starter, Timer} /\ stored
            /\ Become(p, [Process("locking", me.s, me.g) EXCEPT
                    !.op = op, !.mine = IF op = "up" THEN me.mine ELSE {}])
        /\ OnlyProc

Locked(me) ==
    CASE me.op = "up" -> [me EXCEPT !.pc = "uploading"]
      [] me.op = "down" -> [me EXCEPT !.pc = "comparing"]
      [] OTHER -> Operated

(* Mutant: the lock is taken by whoever asks. *)
TryLockShared(p) ==
    /\ At(p, "locking")
    /\ lock' = p
    /\ Become(p, Locked(proc[p]))
    /\ UNCHANGED <<scene, played, phase, left, sessionVars, dirVars>>

(* Whoever finds the lock held ends. *)
TryLock(p) ==
    /\ At(p, "locking")
    /\ IF lock = Free
       THEN lock' = p /\ Become(p, Locked(proc[p]))
       ELSE Ends(p)
    /\ UNCHANGED <<scene, played, phase, left, sessionVars, dirVars>>

(* The directories are packed, if they are all there, and stored. *)
Upload(p) ==
    LET me == proc[p] IN
    /\ At(p, "uploading")
    /\ bundles' = IF me.mine \subseteq In(card)
                  THEN [bundles EXCEPT ![me.g] = Pack(me.mine)] ELSE bundles
    /\ Become(p, Operated)
    /\ OnlyDirs
    /\ UNCHANGED <<card, bak, staging, changed, dirMap, had, blurred>>

(* A download of what is on the card already is skipped. *)
Compare(p) ==
    LET me == proc[p]
        held == {d \in In(card) : dirMap[d] = me.g}
    IN  /\ At(p, "comparing")
        /\ IF held # {} /\ Pack(held) = bundles[me.g]
           THEN Become(p, Operated)
           ELSE Become(p, [me EXCEPT !.pc = "clearing", !.blob = bundles[me.g]])
        /\ OnlyProc

Clear(p) ==
    /\ At(p, "clearing")
    /\ ClearStaging
    /\ Goto(p, "extracting")
    /\ OnlyDirs
    /\ UNCHANGED <<card, bak, changed, dirMap, bundles, had, blurred>>

Extract(p) ==
    LET me == proc[p] IN
    /\ At(p, "extracting")
    /\ Extracting(me.blob)
    /\ Become(p, [me EXCEPT !.pc = "filling", !.start = played])
    /\ OnlyDirs
    /\ UNCHANGED <<card, bak, changed, dirMap, bundles, had, blurred>>

Fill(p) ==
    LET me == proc[p] IN
    /\ At(p, "filling")
    /\ Extracted(me.blob)
    /\ Become(p, [me EXCEPT !.pc = "swapping", !.todo = In(me.blob), !.learn = In(me.blob),
                            !.blob = NoArchive])
    /\ OnlyDirs
    /\ UNCHANGED <<card, bak, changed, dirMap, bundles, had, blurred>>

(* One directory after the other: its old .bak is removed when it exists ... *)
Swap(p) ==
    LET me == proc[p] IN
    /\ At(p, "swapping")
    /\ \E d \in me.todo :
        /\ IF card[d] = NoDir THEN UNCHANGED bak ELSE RemoveBak(d)
        /\ Become(p, [me EXCEPT !.dir = d, !.todo = @ \ {d},
                                !.pc = IF card[d] = NoDir THEN "moving" ELSE "backing"])
    /\ OnlyDirs
    /\ UNCHANGED <<card, staging, changed, dirMap, bundles, had, blurred>>

(* ... it becomes the .bak ... *)
BackUp(p) ==
    /\ At(p, "backing")
    /\ MoveToBak(proc[p].dir)
    /\ Goto(p, "moving")
    /\ OnlyDirs
    /\ UNCHANGED <<staging, changed, dirMap, bundles, had, blurred>>

(* Mutant: what is in the place of d is replaced. *)
MovableOver(d) == staging[d] # NoDir

(* Nothing is in the place of d, and the staging directory has it. *)
Movable(d) == card[d] = NoDir /\ staging[d] # NoDir

(* ... and the new one takes its place, unless the game has made one there or
   another run has emptied the staging directory: then the operation fails. *)
Move(p) ==
    LET me == proc[p]
        d == me.dir
    IN  /\ At(p, "moving")
        /\ IF Movable(d)
           THEN /\ MoveIn(d)
                /\ changed' = [changed EXCEPT ![d] = me.start]
                /\ had' = had \cup {d}
                /\ blurred' = IF dirMap[d] = NoGame THEN blurred \cup {d} ELSE blurred
                /\ Become(p, [me EXCEPT !.dir = NoDir,
                                        !.pc = IF me.todo = {} THEN "learning" ELSE "swapping"])
           ELSE /\ ClearStaging
                /\ Become(p, Operated)
                /\ UNCHANGED <<card, changed, had, blurred>>
        /\ OnlyDirs
        /\ UNCHANGED <<bak, dirMap, bundles>>

Transferring(p) ==
    \/ proc[p].pc \in {"uploading", "comparing", "clearing", "extracting", "filling",
                       "swapping", "backing", "moving"}
    \/ proc[p].op = "down" /\ proc[p].pc \in {"learning", "mapping"}

(* The disk, the network or the --timeout alarm ends the operation, and the
   staging directory is removed. *)
TransferFails(p) ==
    /\ Event("fail")
    /\ Transferring(p)
    /\ Become(p, Operated)
    /\ IF proc[p].pc \in {"extracting", "filling", "swapping", "backing", "moving"}
       THEN ClearStaging ELSE UNCHANGED staging
    /\ UNCHANGED <<scene, played, phase, lock, sessionVars,
                   card, bak, changed, dirMap, bundles, had, blurred>>

-----------------------------------------------------------------------------
(* consume_pending_sessions, when there is a sync session to complete. *)
Consume(p) ==
    /\ At(p, "consuming")
    /\ IF scene.negotiates /\ pending # {}
       THEN /\ Become(p, [Process("removing", 0, NoGame) EXCEPT !.got = pending])
            /\ UNCHANGED lock
       ELSE Ends(p)
    /\ UNCHANGED <<scene, played, phase, left, sessionVars, dirVars>>

RemoveLog(p) ==
    /\ At(p, "removing")
    /\ LogRemoved(proc[p].got)
    /\ Goto(p, "completing")
    /\ OnlySessions

(* An OSError of the unlink, the alarm's TimeoutError among them, is swallowed. *)
RemoveLogFails(p) ==
    /\ Event("fail")
    /\ At(p, "removing")
    /\ LogStays(proc[p].got)
    /\ Goto(p, "completing")
    /\ UNCHANGED <<scene, played, phase, lock, dirVars>>

Complete(p) ==
    /\ At(p, "completing")
    /\ Completed(proc[p].got, TRUE)
    /\ Ends(p)
    /\ UNCHANGED <<scene, played, phase, left, dirVars>>

(* RomM does not take the completion, or never sees it. *)
CompleteFails(p) ==
    /\ Event("fail")
    /\ At(p, "completing")
    /\ Completed(proc[p].got, FALSE)
    /\ Ends(p)
    /\ UNCHANGED <<scene, played, phase, dirVars>>

Crash(p) ==
    /\ Event("crash")
    /\ ~At(p, "idle")
    /\ IF At(p, "completing") THEN GiveUp(proc[p].got) ELSE UNCHANGED sessionVars
    /\ Ends(p)
    /\ UNCHANGED <<scene, played, phase, dirVars>>

(* Another device stores a save of a game. *)
StoredElsewhere ==
    /\ Event("far")
    /\ \E g \in Games :
        /\ \E d \in Dirs : scene.owner[d] = g
        /\ bundles' = [bundles EXCEPT ![g] =
                [d \in Dirs |-> IF scene.owner[d] = g THEN Far ELSE NoDir]]
    /\ UNCHANGED <<scene, played, phase, lock, proc, sessionVars,
                   card, bak, staging, changed, dirMap, had, blurred>>

Step(p) ==
    \/ Truncate(p) \/ Mark(p) \/ ReadStart(p) \/ ReadMarker(p) \/ Log(p) \/ Unmark(p)
    \/ Survey(p) \/ Learn(p) \/ Remember(p) \/ Plan(p) \/ TryLock(p)
    \/ Upload(p) \/ Compare(p) \/ Clear(p) \/ Extract(p) \/ Fill(p)
    \/ Swap(p) \/ BackUp(p) \/ Move(p)
    \/ Consume(p) \/ RemoveLog(p) \/ Complete(p)

Fault(p) == RecordFails(p) \/ TransferFails(p) \/ RemoveLogFails(p) \/ CompleteFails(p) \/ Crash(p)

Next ==
    \/ StartGame \/ Launch \/ Play \/ Quit \/ RunTimer \/ StoredElsewhere
    \/ \E p \in Procs : Step(p) \/ Fault(p)

Spec == Init /\ [][Next]_vars

(* Processes that run go on, and the timer keeps coming. *)
Fairness == (\A p \in Procs : WF_vars(Step(p))) /\ WF_vars(RunTimer)

FairSpec == Spec /\ Fairness

-----------------------------------------------------------------------------
(* Types. *)
TypeOK ==
    /\ scene \in Scenes /\ played \in Sessions \cup {0}
    /\ phase \in {"between", "starting", "playing"}
    /\ lock \in Procs \cup {Free} /\ proc \in [Procs -> Processes] /\ left \in Nat
    /\ marker \in [Games -> Sessions \cup {NoMarker, Torn}]
    /\ pending \subseteq Entries /\ received \subseteq Entries
    /\ ended \subseteq Entries /\ twice \subseteq Entries
    /\ kept \subseteq Entries /\ lost \subseteq Entries
    /\ card \in Archives /\ bak \in Archives /\ staging \in Archives
    /\ changed \in [Dirs -> Sessions \cup {0}] /\ dirMap \in Maps
    /\ bundles \in [Games -> Archives]
    /\ had \subseteq Dirs /\ blurred \subseteq Dirs

(* Safety.  RomM records a play session more than once only if the log could
   not be removed after it was read: two syncs never report the same entry,
   because they read and remove the log under the lock. *)
ReportedOnce == twice \subseteq kept

(* Safety.  Every session ever logged is still in the log, in the hands of a
   sync that has taken the log away, recorded by RomM, or lost in one of the
   known ways: logged between the reading of the log and its removal, or
   reported in a completion that RomM did not take. *)
SessionsKept ==
    ended \subseteq pending \cup received \cup lost
                    \cup UNION {proc[p].got : p \in {q \in Procs : At(q, "completing")}}

(* Safety.  Whatever hooks overlap, and whoever's marker one of them reads or
   removes, an entry of the log begins and ends with sessions of one game, and
   the end of a session is logged once (play_sessions.py:38-63). *)
EntriesOfOneGame ==
    \A x \in ended :
        /\ scene.plays[x[1]] = scene.plays[x[2]]
        /\ \A y \in ended : x[2] = y[2] => x = y

(* Safety.  A directory that was ever on the card is there or in its .bak,
   whatever failed between the renames of unpack_to_dirs. *)
NeverNowhere == \A d \in had : card[d] # NoDir \/ bak[d] # NoDir

(* Safety.  No directory on the card, no .bak and no archive in RomM is a half
   extraction, or a mixture of two. *)
DirsWhole ==
    \A d \in Dirs : {Partial, Mixed} \cap
        ({card[d], bak[d]} \cup {bundles[g][d] : g \in Games}) = {}

(* Safety.  A directory is taken for another game's only in the known windows:
   its game saved into it while the hook of an earlier session had not looked
   at the card, or before a hook that found an older marker looked; it was
   downloaded and not entered in the map yet; or its entry was overwritten by a
   process that had read the map before.  (From then on the mistake may last:
   it is uploaded as the other game's and comes back.) *)
AttributedRight == \A d \in Dirs \ blurred : dirMap[d] \in {NoGame, scene.owner[d]}

(* Safety, of every step.  GameHooks implements DirVault: whatever processes
   share the card, the renames of unpack_to_dirs (folder_pack.py:111-119) never
   write over a directory that is in place, not even over one the game made in
   between, and never remove the .bak of one that is not. *)
DirsVault == INSTANCE DirVault
    WITH dirs <- card, spares <- bak, session <- IF phase = "playing" THEN played ELSE 0,
         Versions <- Sessions \cup {0, Far}

KeepsDirVault == DirsVault!VaultSpec

(* Liveness.  A session that is logged does not stay in the log, where RomM
   offers sync sessions: some sync takes it. *)
PendingDrains == scene.negotiates => []<>(pending = {})
=============================================================================
