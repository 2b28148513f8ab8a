---------------------------- MODULE LibrarySync ----------------------------
(***************************************************************************)
(* The commands that mirror RomM's library: `bifrost sync --apply`, with   *)
(* --incremental or --check-stale, `bifrost gamelist --apply`, and the     *)
(* listing that a save sync begins with.  Each is a process of its own and *)
(* none takes a lock: they share the cache, the ROM directory and          *)
(* gamelist.xml with each other, with ES-DE and with the user.             *)
(***************************************************************************)
EXTENDS Gamelist

CONSTANTS
    Procs,
    Timer,   \* the process of bifrost-sync.timer: sync, then gamelist
    Scenes   \* what the behaviours are about; see Scene

ASSUME SyncAssumption ==
    /\ Timer \in Procs

VARIABLES
    scene, \* never changes: the scene of this behaviour
    proc,  \* what every process holds
    owed,  \* history: paths whose mark no race and no crash has put at risk
    late,  \* history: the user kept a file in an orphan folder after its re-check
    risked \* history: the names where he put a file between a look and an unlink

vars == <<scene, libVars, left, cacheVars, linkVars, glist, proc, owed, late, risked>>

Commands == {"full", "incremental", "stale", "gamelist", "saves"}

(* A scene: the library at the start, the commands each process runs, whether
   orphan folders are pruned, the ROMs that change in RomM, which other kinds
   of events happen, and how many events, the users' commands included. *)
Scene ==
    [lib : Listings, tasks : [Procs -> SUBSET Commands], prune : BOOLEAN, left : Nat,
     changing : SUBSET Roms, kinds : SUBSET {"nas", "user", "mark", "crash", "disk"}]

ASSUME ScenesAssumption ==
    /\ Scenes \subseteq Scene
    /\ \A s \in Scenes : s.tasks[Timer] \subseteq {"full", "gamelist"}

Labels == {"idle", "caching", "stamping", "listed", "planning", "applying", "merging",
           "finishing", "checking", "entries", "truncating", "writing"}

Stages == {"replace", "unlink", "create"}

(* got: a listing; rs: the ROMs of a delta, or deleted ones; todo, acts: link
   operations to evaluate and to carry out, with what comes next of them;
   failed: one of them could not be; m3u, rm: playlists and removals; cut: the
   removal that is about to unlink; orphan: the orphan folder's operation; xml:
   the merged gamelist. *)
Processes ==
    [pc : Labels, task : {"none", "full", "incremental", "stale", "gamelist", "saves"},
     got : Listings, rs : SUBSET Roms, full : BOOLEAN,
     failed : BOOLEAN, todo : SUBSET Targets, acts : SUBSET (Targets \X Stages),
     m3u : SUBSET Names, rm : SUBSET Dests, cut : SUBSET Dests,
     orphan : {"no", "todo", "checked", "forced"}, xml : Gamelists]

Idle(task) ==
    [pc |-> "idle", task |-> task, got |-> [r \in Roms |-> Gone], rs |-> {}, full |-> FALSE,
     failed |-> FALSE, todo |-> {}, acts |-> {}, m3u |-> {}, rm |-> {}, cut |-> {},
     orphan |-> "no", xml |-> EmptyList]

Init ==
    /\ scene \in Scenes
    /\ lib = scene.lib
    /\ nas = {lib[r] : r \in Listed(lib)}
    /\ up = TRUE
    /\ left = scene.left
    /\ CacheInit
    /\ links = [d \in Dests |-> Nothing]
    /\ playlists = {}
    /\ folder = IF scene.prune THEN "clean" ELSE "gone"
    /\ glist = EmptyList
    /\ proc = [p \in Procs |-> Idle("none")]
    /\ owed = {}
    /\ late = FALSE
    /\ risked = {}

-----------------------------------------------------------------------------
At(p, label) == proc[p].pc = label

(* The timer's service goes on to its second command only when the first one
   has ended without an error; nobody else remembers what he ran. *)
Ended(p) == proc' = [proc EXCEPT ![p] = Idle(IF p = Timer /\ ~@.failed THEN @.task ELSE "none")]
Goto(p, label) == proc' = [proc EXCEPT ![p].pc = label]

(* An incremental sync without a stamp to start from is a full one. *)
MayBegin(p, task) ==
    /\ At(p, "idle")
    /\ \/ task \in scene.tasks[p]
       \/ task = "full" /\ "incremental" \in scene.tasks[p] /\ ~meta.applied
    /\ p = Timer => (task = "gamelist" <=> proc[p].task = "full" /\ "gamelist" \in scene.tasks[p])

OnlyProc == UNCHANGED <<scene, libVars, left, cacheVars, linkVars, glist, owed, late, risked>>
OnlyLinks ==
    UNCHANGED <<scene, libVars, left, cacheVars, playlists, folder, glist, owed, late, risked>>
OnlyCache == UNCHANGED <<scene, libVars, left, linkVars, glist, owed, late, risked>>

(* The platform and firmware listings may have passed their TTLs as well:
   writing them back stamps last_applied. *)
MaybeStamp(renewed) == IF renewed THEN SetLastApplied ELSE UNCHANGED cacheVars

(* A command lists the ROMs: from the cache, by a delta since the cache was
   fetched, or in full, when there is no cache or the delta fails.  Syncs and
   gamelists look at the NAS first. *)
ListRoms(p, task) ==
    /\ MayBegin(p, task)
    /\ task # "saves" => up
    /\ \E renewed \in BOOLEAN : MaybeStamp(renewed)
    /\ \/ /\ CacheHit
          /\ proc' = [proc EXCEPT ![p] = [Idle(task) EXCEPT
                !.pc = IF task = "saves" THEN "idle" ELSE "listed",
                !.task = IF task = "saves" THEN "none" ELSE task,
                !.got = IF task = "saves" THEN @ ELSE roms]]
       \/ /\ CanUpdate
          /\ proc' = [proc EXCEPT ![p] = [Idle(task) EXCEPT
                !.pc = "caching", !.got = MergeById(roms, lib, Delta(behind))]]
       \/ /\ ~CacheHit
          /\ proc' = [proc EXCEPT ![p] = [Idle(task) EXCEPT
                !.pc = "caching", !.got = lib, !.full = TRUE]]
    /\ UNCHANGED <<scene, libVars, linkVars, glist, owed, late, risked>>

(* Where a command goes on once the listing is cached. *)
AfterCaching(p) ==
    CASE proc[p].task = "saves" -> Ended(p)
      [] proc[p].task = "incremental" -> Goto(p, "finishing")
      [] OTHER -> Goto(p, "listed")

WriteData(p) ==
    /\ At(p, "caching")
    /\ SetData(proc[p].got)
    /\ Goto(p, "stamping")
    /\ OnlyCache

(* An OSError of the cache is swallowed. *)
WriteFails(p) ==
    /\ "disk" \in scene.kinds /\ Event
    /\ At(p, "caching") \/ At(p, "stamping")
    /\ AfterCaching(p)
    /\ UNCHANGED <<scene, libVars, cacheVars, linkVars, glist, owed, late, risked>>

WriteMeta(p) ==
    /\ At(p, "stamping")
    /\ SetMeta(proc[p].got, proc[p].full)
    /\ AfterCaching(p)
    /\ OnlyCache

-----------------------------------------------------------------------------
(* --incremental asks for what changed since last_applied. *)
ListDelta(p) ==
    /\ MayBegin(p, "incremental")
    /\ meta.applied /\ up
    /\ LET rs == Delta(unapplied) IN
       proc' = [proc EXCEPT ![p] = [Idle("incremental") EXCEPT
            !.pc = IF rs = {} THEN "finishing" ELSE "listed",
            !.rs = rs,
            !.got = [r \in Roms |-> IF r \in rs THEN lib[r] ELSE Gone]]]
    /\ UNCHANGED <<scene, libVars, cacheVars, linkVars, glist, owed, late, risked>>

(* The operations and the playlists of a sync, from the NAS as it is now. *)
PlanLinks(p) ==
    LET me == proc[p]
        all == me.task = "full"
    IN  /\ At(p, "listed") /\ me.task \in {"full", "incremental"}
        /\ IF all THEN UNCHANGED cacheVars ELSE \E renewed \in BOOLEAN : MaybeStamp(renewed)
        /\ proc' = [proc EXCEPT ![p] = [me EXCEPT
                !.pc = "planning",
                !.todo = LinkPlan(me.got, IF all THEN Roms ELSE me.rs),
                !.m3u = IF all THEN PlaylistPlan(me.got) ELSE {}]]
        /\ UNCHANGED <<scene, libVars, left, linkVars, glist, owed, late, risked>>

(* Removals and orphans, from the directory as it is now.  The mount point of
   an unmounted NAS may still be a directory. *)
PlanRemovals(p) ==
    LET me == proc[p]
        all == me.task = "full"
    IN  /\ At(p, "planning")
        /\ \E reachable \in {up, TRUE}, orphan \in {"no", "todo", "forced"} :
            /\ orphan # "no" => scene.prune /\ all
            /\ orphan = "todo" => folder = "clean"
            /\ orphan = "forced" => folder = "mixed"
            /\ proc' = [proc EXCEPT ![p] = [me EXCEPT
                    !.pc = "applying",
                    !.got = IF all THEN Idle("none").got ELSE @,
                    !.rm = IF all THEN StaleRemovals(me.todo, reachable)
                           ELSE BrokenLinkCleanup(me.todo, reachable),
                    !.orphan = orphan]]
        /\ OnlyProc

(* The thread pool evaluates the operations, in any order ... *)
Evaluate(p) ==
    LET me == proc[p]
        acts(op) == IF Action(op) = "none" THEN me.acts ELSE me.acts \cup {<<op, Action(op)>>}
    IN  /\ At(p, "applying")
        /\ \E op \in me.todo :
            proc' = [proc EXCEPT ![p] = [me EXCEPT !.todo = me.todo \ {op}, !.acts = acts(op)]]
        /\ OnlyProc

(* ... and carries them out, while the main thread goes through the others.
   What is in the way of a replacement is looked at, ... *)
CheckLink(p) ==
    LET me == proc[p] IN
    /\ At(p, "applying")
    /\ \E act \in me.acts :
        /\ act[2] = "replace"
        /\ proc' = [proc EXCEPT ![p] = [me EXCEPT
                !.acts = (me.acts \ {act}) \cup {<<act[1], AfterCheck(act[1][2])>>}]]
    /\ OnlyProc

(* ... unlinked, which fails when it is gone by now, ... *)
UnlinkOld(p) ==
    LET me == proc[p] IN
    /\ At(p, "applying")
    /\ \E act \in me.acts :
        /\ act[2] = "unlink"
        /\ LET gone == links[act[1][2]] = Nothing IN
           /\ Unlink(act[1][2])
           /\ proc' = [proc EXCEPT ![p] = [me EXCEPT
                   !.acts = (me.acts \ {act}) \cup (IF gone THEN {} ELSE {<<act[1], "create">>}),
                   !.failed = me.failed \/ gone]]
    /\ OnlyLinks

(* ... and the link is made, which fails when somebody was there first. *)
MakeLink(p) ==
    LET me == proc[p] IN
    /\ At(p, "applying")
    /\ \E act \in me.acts :
        /\ act[2] = "create"
        /\ SymlinkTo(act[1])
        /\ proc' = [proc EXCEPT ![p] = [me EXCEPT
                !.acts = me.acts \ {act},
                !.failed = me.failed \/ links[act[1][2]] # Nothing]]
    /\ OnlyLinks

(* A step of an operation, or of a removal, fails for another reason. *)
ApplyFails(p) ==
    LET me == proc[p] IN
    /\ "disk" \in scene.kinds /\ Event
    /\ At(p, "applying")
    /\ \/ \E act \in me.acts :
            proc' = [proc EXCEPT ![p] = [me EXCEPT !.acts = me.acts \ {act}, !.failed = TRUE]]
       \/ /\ me.cut # {}
          /\ proc' = [proc EXCEPT ![p] = [me EXCEPT !.cut = {}, !.failed = TRUE]]
    /\ UNCHANGED <<scene, libVars, cacheVars, linkVars, glist, owed, late, risked>>

WritePlaylist(p) ==
    /\ At(p, "applying")
    /\ \E n \in proc[p].m3u :
        /\ playlists' = playlists \cup {n}
        /\ proc' = [proc EXCEPT ![p].m3u = @ \ {n}]
    /\ UNCHANGED <<scene, libVars, left, cacheVars, links, folder, glist, owed, late, risked>>

(* A removal looks whether the entry is a symlink, and unlinks it. *)
CheckRemoval(p) ==
    LET me == proc[p] IN
    /\ At(p, "applying") /\ me.m3u = {} /\ me.cut = {}
    /\ \E d \in me.rm :
        proc' = [proc EXCEPT ![p] = [me EXCEPT
            !.rm = me.rm \ {d}, !.cut = {e \in {d} : IsSymlink(links[e])}]]
    /\ OnlyProc

Remove(p) ==
    LET me == proc[p] IN
    /\ At(p, "applying")
    /\ \E d \in me.cut :
        /\ Unlink(d)
        /\ proc' = [proc EXCEPT ![p] = [me EXCEPT
                !.cut = {}, !.failed = me.failed \/ links[d] = Nothing]]
    /\ OnlyLinks

RemovalsDone(p) ==
    At(p, "applying") /\ proc[p].m3u = {} /\ proc[p].rm = {} /\ proc[p].cut = {}

(* Mutant: the folder is removed on what the plan saw. *)
RecheckNothing(p) ==
    /\ RemovalsDone(p)
    /\ proc[p].orphan = "todo"
    /\ proc' = [proc EXCEPT ![p].orphan = "checked"]
    /\ OnlyProc

(* apply_orphan_removal scans the folder again ... *)
Recheck(p) ==
    /\ RemovalsDone(p)
    /\ proc[p].orphan = "todo"
    /\ proc' = [proc EXCEPT ![p].orphan = IF folder = "clean" THEN "checked" ELSE "no"]
    /\ OnlyProc

(* ... and removes it, unless it is gone. *)
RemoveTree(p) ==
    /\ RemovalsDone(p)
    /\ proc[p].orphan \in {"checked", "forced"}
    /\ folder' = "gone"
    /\ proc' = [proc EXCEPT ![p].orphan = "no"]
    /\ UNCHANGED <<scene, libVars, left, cacheVars, links, playlists, glist, owed, late, risked>>

(* The pool is done and so is the main thread: a stale check notes the ids
   that RomM had, the others go on. *)
Applied(p) ==
    LET me == proc[p] IN
    /\ RemovalsDone(p)
    /\ me.todo = {} /\ me.acts = {} /\ me.orphan = "no"
    /\ CASE me.task = "stale" -> UpdateIds(Listed(me.got)) /\ Ended(p)
         [] me.task = "full" -> Goto(p, "finishing") /\ UNCHANGED cacheVars
         [] OTHER -> Goto(p, "merging") /\ UNCHANGED cacheVars
    /\ OnlyCache

(* An incremental sync adds its delta to the cached listing, if there is one. *)
MergeDeltaIntoCache(p) ==
    LET me == proc[p] IN
    /\ At(p, "merging")
    /\ proc' = [proc EXCEPT ![p] = IF roms = NoFile THEN [me EXCEPT !.pc = "finishing"]
            ELSE [me EXCEPT !.pc = "caching", !.got = MergeById(roms, me.got, me.rs)]]
    /\ OnlyProc

(* An OSError of set_last_applied ends the command. *)
FinishFails(p) ==
    /\ "disk" \in scene.kinds /\ Event
    /\ At(p, "finishing")
    /\ proc' = [proc EXCEPT ![p] = Idle("none")]
    /\ UNCHANGED <<scene, libVars, cacheVars, linkVars, glist, owed, late, risked>>

(* set_last_applied; an incremental sync with a delta goes on to gamelist.xml,
   unless RomM does not answer by now. *)
FinishSync(p) ==
    /\ At(p, "finishing")
    /\ SetLastApplied
    /\ Ended(p) \/ (proc[p].rs # {} /\ Goto(p, "entries"))
    /\ OnlyCache

-----------------------------------------------------------------------------
(* --check-stale: the ids of the last full fetch against those of RomM. *)
ListIdentifiers(p) ==
    /\ MayBegin(p, "stale")
    /\ meta.ids # NoIds
    /\ proc' = [proc EXCEPT ![p] = [Idle("stale") EXCEPT
            !.pc = "checking", !.got = lib, !.rs = meta.ids \ Listed(lib)]]
    /\ UNCHANGED <<scene, libVars, cacheVars, linkVars, glist, owed, late, risked>>

(* Without a cached listing the check ends and leaves the ids as they are. *)
PlanDeleted(p) ==
    LET me == proc[p] IN
    /\ At(p, "checking")
    /\ IF me.rs # {} /\ roms \in {NoFile, Idle("none").got} THEN Ended(p)
       ELSE proc' = [proc EXCEPT ![p] = [me EXCEPT
                !.pc = "applying",
                !.rm = IF me.rs = {} THEN {} ELSE DeletedRemovals(roms, me.rs)]]
    /\ OnlyProc

-----------------------------------------------------------------------------
(* gamelist.xml is read and merged in memory. *)
ReadGamelist(p) ==
    LET me == proc[p]
        full == me.task = "gamelist"
        xml == IF full THEN MergeFull(me.got) ELSE MergeDelta(me.got, me.rs)
    IN  /\ (At(p, "listed") /\ full) \/ At(p, "entries")
        /\ \/ /\ full => FullPaths(me.got) # {}
              /\ proc' = [proc EXCEPT ![p] = [Idle(me.task) EXCEPT
                      !.pc = "truncating", !.xml = xml]]
           \/ \* nothing to list, or no entry changed
              /\ IF full THEN FullPaths(me.got) = {} ELSE xml = glist
              /\ Ended(p)
        /\ owed' = IF \E q \in Procs : At(q, "truncating") \/ At(q, "writing") THEN {}
                   ELSE IF full /\ FullPaths(me.got) # {} THEN owed \cap FullPaths(me.got)
                   ELSE owed
        /\ IF full THEN UNCHANGED cacheVars ELSE \E renewed \in BOOLEAN : MaybeStamp(renewed)
        /\ UNCHANGED <<scene, libVars, left, linkVars, glist, late, risked>>

(* write_text empties the file first. *)
TruncateGamelist(p) ==
    /\ At(p, "truncating")
    /\ glist' = EmptyList
    /\ Goto(p, "writing")
    /\ UNCHANGED <<scene, libVars, left, cacheVars, linkVars, owed, late, risked>>

WriteGamelist(p) ==
    /\ At(p, "writing")
    /\ glist' = proc[p].xml
    /\ Ended(p)
    /\ UNCHANGED <<scene, libVars, left, cacheVars, linkVars, owed, late, risked>>

(* A command starts; those the timer does not start count as events. *)
Begin(p) ==
    /\ \/ \E task \in {"full", "gamelist", "saves"} : ListRoms(p, task)
       \/ ListDelta(p)
       \/ ListIdentifiers(p)
    /\ IF p = Timer THEN UNCHANGED left ELSE Event

Step(p) ==
    \/ WriteData(p) \/ WriteMeta(p) \/ PlanLinks(p) \/ PlanRemovals(p)
    \/ Evaluate(p) \/ CheckLink(p) \/ UnlinkOld(p) \/ MakeLink(p)
    \/ WritePlaylist(p) \/ CheckRemoval(p) \/ Remove(p)
    \/ Recheck(p) \/ RemoveTree(p) \/ Applied(p) \/ MergeDeltaIntoCache(p)
    \/ FinishSync(p) \/ PlanDeleted(p)
    \/ ReadGamelist(p) \/ TruncateGamelist(p) \/ WriteGamelist(p)

Fail(p) == WriteFails(p) \/ ApplyFails(p) \/ FinishFails(p)

-----------------------------------------------------------------------------
RomChanges ==
    /\ Event
    /\ \E r \in scene.changing :
        /\ Edit(r) \/ (\E n \in Names : Upsert(r, n)) \/ \E file \in BOOLEAN : Delete(r, file)
        /\ Stamped(r)
    /\ UNCHANGED <<scene, linkVars, glist, proc, owed, late, risked>>

NasFails ==
    /\ "nas" \in scene.kinds /\ Event
    /\ Unmount
    /\ UNCHANGED <<scene, cacheVars, linkVars, glist, proc, owed, late, risked>>

NasReturns ==
    /\ Mount
    /\ UNCHANGED <<scene, left, cacheVars, linkVars, glist, proc, owed, late, risked>>

TtlPasses == Expire /\ UNCHANGED <<scene, libVars, left, linkVars, glist, proc, owed, late, risked>>

(* The names where p is between a look at the entry and its unlink. *)
Unlinking(p) == proc[p].cut \cup {act[1][2] : act \in {a \in proc[p].acts : a[2] = "unlink"}}

(* The user puts a file or a link of his own in the ROM directory, or removes
   what is there. *)
UserLinks ==
    /\ "user" \in scene.kinds /\ Event
    /\ \E d \in Dests, v \in {Nothing, UserFile, Foreign} :
        /\ links[d] # v
        /\ links' = [links EXCEPT ![d] = v]
        /\ risked' = IF v # UserFile THEN risked
                     ELSE IF \E p \in Procs : d \in Unlinking(p) THEN risked \cup {d}
                     ELSE risked \ {d}
    /\ UNCHANGED <<scene, libVars, cacheVars, playlists, folder, glist, proc, owed, late>>

UserKeeps ==
    /\ "user" \in scene.kinds /\ Event
    /\ folder = "clean"
    /\ folder' = "mixed"
    /\ late' = (late \/ \E p \in Procs : proc[p].orphan = "checked")
    /\ UNCHANGED <<scene, libVars, cacheVars, links, playlists, glist, proc, owed, risked>>

(* ES-DE writes a tag of the user into an entry. *)
UserMarks ==
    /\ "mark" \in scene.kinds /\ Event
    /\ \E q \in Paths :
        /\ glist[q] = Plain
        /\ glist' = [glist EXCEPT ![q] = Marked]
        /\ owed' = IF \E p \in Procs : At(p, "truncating") \/ At(p, "writing") THEN owed
                   ELSE owed \cup {q}
    /\ UNCHANGED <<scene, libVars, cacheVars, linkVars, proc, late, risked>>

UserInvalidates ==
    /\ "user" \in scene.kinds /\ Event
    /\ CacheInvalidate
    /\ UNCHANGED <<scene, libVars, linkVars, glist, proc, owed, late, risked>>

(* A process is killed: by the hook's `timeout 15`, or with the machine. *)
Crash(p) ==
    /\ "crash" \in scene.kinds /\ Event
    /\ ~At(p, "idle")
    /\ proc' = [proc EXCEPT ![p] = Idle("none")]
    /\ owed' = IF At(p, "writing") THEN {} ELSE owed
    /\ UNCHANGED <<scene, libVars, cacheVars, linkVars, glist, late, risked>>

User == UserLinks \/ UserKeeps \/ UserMarks \/ UserInvalidates
Outside == RomChanges \/ NasFails \/ NasReturns \/ TtlPasses \/ User

Next == Outside \/ \E p \in Procs : Begin(p) \/ Step(p) \/ Fail(p) \/ Crash(p)

Spec == Init /\ [][Next]_vars

(* Processes that run go on, the timer keeps its two commands coming, TTLs
   pass and the NAS comes back. *)
Fairness ==
    /\ \A p \in Procs : WF_vars(Step(p))
    /\ WF_vars(Begin(Timer))
    /\ WF_vars(NasReturns)
    /\ WF_vars(TtlPasses)

FairSpec == Spec /\ Fairness

-----------------------------------------------------------------------------
(* Types. *)
TypeOK ==
    /\ scene \in Scenes /\ lib \in Listings /\ nas \subseteq Names /\ up \in BOOLEAN /\ left \in Nat
    /\ roms \in Listings \cup {NoFile} /\ meta \in Metas
    /\ behind \subseteq Roms /\ unapplied \subseteq Roms
    /\ links \in [Dests -> {Nothing, UserFile, Foreign} \cup Targets]
    /\ playlists \subseteq Names /\ folder \in Folders
    /\ glist \in Gamelists
    /\ proc \in [Procs -> Processes]
    /\ owed \subseteq Paths /\ late \in BOOLEAN /\ risked \subseteq Dests

(* Safety.  A file the user has put where a link belongs is not replaced or
   removed by any command, though the work was planned from an older directory,
   unless he put it there between a command's look at the entry and its unlink
   (apply_operation, apply_remove_operation). *)
UsersFilesStay ==
    [][(\E p \in Procs : Begin(p) \/ Step(p) \/ Fail(p)) =>
        \A d \in Dests : links[d] = UserFile => links'[d] = UserFile \/ d \in risked]_vars

(* Safety.  An orphan platform folder that holds a file of the user is removed
   only when he confirmed it for that folder, or put the file there after the
   last look at it (apply_orphan_removal). *)
UsersFoldersStay ==
    [][folder = "mixed" /\ folder' = "gone" =>
        late \/ \E p \in Procs : proc[p].orphan = "forced"]_vars

(* Safety.  Between writes of gamelist.xml every entry with a tag of the user
   still has it, unless it has left the list, or the mark was made while a
   list was being written, or the writer was killed, or two wrote at once
   (_merge_game, apply_gamelist_plan, apply_gamelist_delta). *)
FavouritesKept ==
    (\A p \in Procs : ~At(p, "writing")) => \A q \in owed : glist[q] = Marked

-----------------------------------------------------------------------------
(* Safety.  The thread pool carries out what a process has in hand in any order,
   so that of two operations for one name the last would stay.  Game files in
   folders are kept apart (claimed in _rom_launch); only a ROM's own link may be
   in the way of one, where a game file has the name of a ROM listed after its
   folder. *)
OneGameFilePerName ==
    \A p \in Procs :
        \A a, b \in proc[p].todo \cup {act[1] : act \in proc[p].acts} :
            a[2] = b[2] => a = b \/ a[3] # b[3]

(* The plan of a listing has two operations for one name. *)
Disputed(l) == \E a, b \in LinkPlan(l, Listed(l)) : a[2] = b[2] /\ a # b

(* What a full sync of the cached listing leaves: every link it plans whose
   file is there, no other link of Bifrost's and none that is broken, and the
   playlists.  Where the file of a planned link is not there, the name keeps
   whatever link it has. *)
LinksMatch ==
    LET ops == LinkPlan(roms, Listed(roms)) IN
    /\ \A op \in ops : op[1] \in nas => links[op[2]] \in {op, UserFile}
    /\ ops # {} => \A d \in Dests : links[d] \in Targets =>
            /\ Exists(links[d])
            /\ links[d] \in ops \/ \E op \in ops : op[2] = d /\ op[1] \notin nas
    /\ PlaylistPlan(roms) \subseteq playlists

(* Safety.  Where the directory matches the cached listing a full sync of it has
   nothing to remove and nothing to make: the removals (plan_stale_removals) and
   the evaluation (evaluate_operation), which judge links separately, agree. *)
SettledIsLeftAlone ==
    roms # NoFile /\ up /\ LinksMatch =>
        LET ops == LinkPlan(roms, Roms) IN
        StaleRemovals(ops, TRUE) = {} /\ \A op \in ops : Action(op) = "none"

(* Liveness.  Whatever the other commands, RomM, the NAS, crashes and failures
   did, once they stop the timer's syncs bring the ROM directory to the cached
   listing and leave it there: what one sync does the next does not undo.  Two
   operations for one name, though, undo each other. *)
LinksFollowCache ==
    "full" \in scene.tasks[Timer] => <>[](roms # NoFile /\ up /\ (LinksMatch \/ Disputed(roms)))

(* Liveness.  The timer's gamelists bring gamelist.xml to the entries of the
   cached listing, even after one was truncated by a crash.  Where two operations
   want one name, though, a sync may fail each time, and the gamelist after it
   does not run. *)
GamelistFollowsCache ==
    {"full", "gamelist"} \subseteq scene.tasks[Timer] =>
        <>[](/\ roms # NoFile
             /\ ~Disputed(roms) /\ (\A p \in Procs : ~At(p, "writing")) /\ Listed(roms) # {} =>
                    {q \in Paths : glist[q] # Missing} = FullPaths(roms))

(* What README.md:244 says of the 6 h timer: its full sync corrects what the
   incremental ones missed, so every ROM of RomM gets its links. *)
FullSyncCorrects ==
    "full" \in scene.tasks[Timer] =>
        <>[](\A r \in Listed(lib) : lib[r] \in nas =>
                \E d \in Dests : links[d] \in Targets /\ links[d][1] = lib[r])
=============================================================================
