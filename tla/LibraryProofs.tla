--------------------------- MODULE LibraryProofs ---------------------------
(***************************************************************************)
(* Proofs about LibrarySync: the user's folders and tags stay.  His files  *)
(* in the ROM directory are in LinkProofs.                                 *)
(***************************************************************************)
EXTENDS LibrarySync, TLAPS

-----------------------------------------------------------------------------
(* What the steps make of a process.  Only three of its fields matter here. *)

Fields == {"pc", "orphan", "xml"}
Shape == proc = [p \in Procs |-> proc[p]] /\ \A p \in Procs : Fields \subseteq DOMAIN proc[p]

Writes(me) == me.pc \in {"truncating", "writing"}

(* p becomes me, and nobody else anything. *)
Becomes(p, me) ==
    /\ Shape'
    /\ proc'[p] = me
    /\ \A q \in Procs \ {p} : proc'[q] = proc[q]

LEMMA PutLemma ==
    ASSUME Shape, NEW p \in Procs, NEW me, Fields \subseteq DOMAIN me,
           proc' = [proc EXCEPT ![p] = me]
    PROVE  Becomes(p, me)
BY DEF Shape, Becomes

LEMMA IdleLemma ==
    ASSUME NEW task
    PROVE  /\ Fields \subseteq DOMAIN Idle(task)
           /\ Idle(task).pc = "idle" /\ Idle(task).orphan = "no"
BY DEF Fields, Idle

(* A step of p that decides about the orphan folder as it should ... *)
Orderly(p) ==
    /\ \E me : Becomes(p, me) /\ (me.orphan = "checked" => proc[p].orphan = "checked" \/ folder # "mixed")
    /\ UNCHANGED late
    /\ folder' = folder \/ (folder' = "gone" /\ proc[p].orphan \in {"checked", "forced"})

(* ... and one that has nothing to do with gamelist.xml. *)
Elsewhere(p) ==
    /\ UNCHANGED <<glist, owed>>
    /\ ~Writes(proc[p]) /\ ~Writes(proc'[p])

LEMMA GotoLemma ==
    ASSUME Shape, NEW p \in Procs, NEW label, Goto(p, label)
    PROVE  \E me : /\ Becomes(p, me) /\ me.pc = label
                   /\ me.orphan = proc[p].orphan /\ me.xml = proc[p].xml
<1> DEFINE me == [proc[p] EXCEPT !.pc = label]
<1>1. proc' = [proc EXCEPT ![p] = me]
  BY DEF Goto, Shape
<1>2. Fields \subseteq DOMAIN me /\ me.pc = label /\ me.orphan = proc[p].orphan /\ me.xml = proc[p].xml
  BY DEF Shape, Fields
<1> QED BY <1>1, <1>2, PutLemma

LEMMA EndedLemma ==
    ASSUME Shape, NEW p \in Procs, Ended(p)
    PROVE  \E me : Becomes(p, me) /\ me.pc = "idle" /\ me.orphan = "no"
<1>1. PICK task : proc' = [proc EXCEPT ![p] = Idle(task)]
  BY DEF Ended, Shape
<1> QED BY <1>1, IdleLemma, PutLemma

LEMMA EndedOrderly ==
    ASSUME Shape, NEW p \in Procs, Ended(p), UNCHANGED <<folder, late>>
    PROVE  Orderly(p) /\ ~Writes(proc'[p])
BY EndedLemma DEF Orderly, Writes, Becomes

LEMMA GotoOrderly ==
    ASSUME Shape, NEW p \in Procs, NEW label, Goto(p, label), UNCHANGED <<folder, late>>
    PROVE  Orderly(p) /\ proc'[p].pc = label
BY GotoLemma DEF Orderly, Becomes

LEMMA ListRomsMoves ==
    ASSUME Shape, NEW p \in Procs, NEW task, ListRoms(p, task)
    PROVE  Orderly(p) /\ Elsewhere(p)
<1>1. SUFFICES ASSUME NEW me, proc' = [proc EXCEPT ![p] = me],
                     Fields \subseteq DOMAIN me, me.orphan = "no",
                     me.pc \in {"idle", "listed", "caching"}
              PROVE  Orderly(p) /\ Elsewhere(p)
  <2>1. CASE proc' = [proc EXCEPT ![p] = [Idle(task) EXCEPT
                !.pc = IF task = "saves" THEN "idle" ELSE "listed",
                !.task = IF task = "saves" THEN "none" ELSE task,
                !.got = IF task = "saves" THEN @ ELSE roms]]
    <3> DEFINE me == [Idle(task) EXCEPT
                !.pc = IF task = "saves" THEN "idle" ELSE "listed",
                !.task = IF task = "saves" THEN "none" ELSE task,
                !.got = IF task = "saves" THEN @ ELSE roms]
    <3>1. proc' = [proc EXCEPT ![p] = me]
      BY <2>1
    <3>2. Fields \subseteq DOMAIN me /\ me.orphan = "no" /\ me.pc \in {"idle", "listed", "caching"}
      BY IdleLemma DEF Fields
    <3> HIDE DEF me
    <3> QED BY <3>1, <3>2, <1>1
  <2>2. CASE proc' = [proc EXCEPT ![p] = [Idle(task) EXCEPT
                !.pc = "caching", !.got = MergeById(roms, lib, Delta(behind))]]
    <3> DEFINE me == [Idle(task) EXCEPT
                !.pc = "caching", !.got = MergeById(roms, lib, Delta(behind))]
    <3>1. proc' = [proc EXCEPT ![p] = me]
      BY <2>2
    <3>2. Fields \subseteq DOMAIN me /\ me.orphan = "no" /\ me.pc \in {"idle", "listed", "caching"}
      BY IdleLemma DEF Fields
    <3> HIDE DEF me
    <3> QED BY <3>1, <3>2, <1>1
  <2>3. CASE proc' = [proc EXCEPT ![p] = [Idle(task) EXCEPT
                !.pc = "caching", !.got = lib, !.full = TRUE]]
    <3> DEFINE me == [Idle(task) EXCEPT !.pc = "caching", !.got = lib, !.full = TRUE]
    <3>1. proc' = [proc EXCEPT ![p] = me]
      BY <2>3
    <3>2. Fields \subseteq DOMAIN me /\ me.orphan = "no" /\ me.pc \in {"idle", "listed", "caching"}
      BY IdleLemma DEF Fields
    <3> HIDE DEF me
    <3> QED BY <3>1, <3>2, <1>1
  <2> QED BY <2>1, <2>2, <2>3 DEF ListRoms
<1>2. Becomes(p, me)
  BY <1>1, PutLemma
<1> QED BY <1>1, <1>2 DEF ListRoms, MayBegin, At, Orderly, Elsewhere, Becomes, Writes, linkVars

LEMMA WriteDataMoves ==
    ASSUME Shape, NEW p \in Procs, WriteData(p)
    PROVE  Orderly(p) /\ Elsewhere(p)
BY GotoOrderly DEF WriteData, At, OnlyCache, linkVars, Elsewhere, Writes

LEMMA AfterCachingMoves ==
    ASSUME Shape, NEW p \in Procs, AfterCaching(p), UNCHANGED <<folder, late>>
    PROVE  Orderly(p) /\ ~Writes(proc'[p])
<1>1. CASE proc[p].task = "saves"
  BY <1>1, EndedOrderly DEF AfterCaching
<1>2. CASE proc[p].task = "incremental"
  BY <1>2, GotoOrderly DEF AfterCaching, Writes
<1>3. CASE proc[p].task \notin {"saves", "incremental"}
  BY <1>3, GotoOrderly DEF AfterCaching, Writes
<1> QED BY <1>1, <1>2, <1>3

LEMMA WriteFailsMoves ==
    ASSUME Shape, NEW p \in Procs, WriteFails(p)
    PROVE  Orderly(p) /\ Elsewhere(p)
BY AfterCachingMoves DEF WriteFails, At, linkVars, Elsewhere, Writes

LEMMA WriteMetaMoves ==
    ASSUME Shape, NEW p \in Procs, WriteMeta(p)
    PROVE  Orderly(p) /\ Elsewhere(p)
BY AfterCachingMoves DEF WriteMeta, At, OnlyCache, linkVars, Elsewhere, Writes

LEMMA ListDeltaMoves ==
    ASSUME Shape, NEW p \in Procs, ListDelta(p)
    PROVE  Orderly(p) /\ Elsewhere(p)
<1> DEFINE rs == Delta(unapplied)
           me == [Idle("incremental") EXCEPT
                    !.pc = IF rs = {} THEN "finishing" ELSE "listed",
                    !.rs = rs,
                    !.got = [r \in Roms |-> IF r \in rs THEN lib[r] ELSE Gone]]
<1>1. proc' = [proc EXCEPT ![p] = me]
  BY DEF ListDelta
<1>2. Fields \subseteq DOMAIN me /\ me.orphan = "no" /\ me.pc \in {"finishing", "listed"}
  <2> HIDE DEF rs
  <2> QED BY IdleLemma DEF Fields
<1> HIDE DEF me
<1>3. Becomes(p, me)
  BY <1>1, <1>2, PutLemma
<1> QED BY <1>2, <1>3 DEF ListDelta, MayBegin, At, Orderly, Elsewhere, Becomes, Writes, linkVars

LEMMA ListIdentifiersMoves ==
    ASSUME Shape, NEW p \in Procs, ListIdentifiers(p)
    PROVE  Orderly(p) /\ Elsewhere(p)
<1> DEFINE me == [Idle("stale") EXCEPT
                    !.pc = "checking", !.got = lib, !.rs = meta.ids \ Listed(lib)]
<1>1. proc' = [proc EXCEPT ![p] = me]
  BY DEF ListIdentifiers
<1>2. Fields \subseteq DOMAIN me /\ me.orphan = "no" /\ me.pc = "checking"
  BY IdleLemma DEF Fields
<1> HIDE DEF me
<1>3. Becomes(p, me)
  BY <1>1, <1>2, PutLemma
<1> QED BY <1>2, <1>3 DEF ListIdentifiers, MayBegin, At, Orderly, Elsewhere, Becomes, Writes, linkVars

(* A step within one command: p becomes me. *)
LEMMA PutMoves ==
    ASSUME Shape, NEW p \in Procs, NEW me, proc' = [proc EXCEPT ![p] = me],
           Fields \subseteq DOMAIN me, ~Writes(me), ~Writes(proc[p]),
           me.orphan = "checked" => proc[p].orphan = "checked" \/ folder # "mixed",
           UNCHANGED <<folder, late, glist, owed>>
    PROVE  Orderly(p) /\ Elsewhere(p)
BY PutLemma DEF Orderly, Elsewhere, Becomes

LEMMA PlanLinksMoves ==
    ASSUME Shape, NEW p \in Procs, PlanLinks(p)
    PROVE  Orderly(p) /\ Elsewhere(p)
<1> DEFINE all == proc[p].task = "full"
           todo == LinkPlan(proc[p].got, IF all THEN Roms ELSE proc[p].rs)
           m3u == IF all THEN PlaylistPlan(proc[p].got) ELSE {}
           me == [proc[p] EXCEPT !.pc = "planning", !.todo = todo, !.m3u = m3u]
<1>1. proc' = [proc EXCEPT ![p] = me]
  BY DEF PlanLinks
<1> HIDE DEF todo, m3u
<1>2. Fields \subseteq DOMAIN me /\ me.orphan = proc[p].orphan /\ me.pc = "planning"
  BY DEF Shape, Fields
<1>3. UNCHANGED <<folder, late, glist, owed>> /\ At(p, "listed")
  BY DEF PlanLinks, linkVars
<1> HIDE DEF me
<1> QED BY <1>1, <1>2, <1>3, PutMoves DEF Writes, At

LEMMA PlanRemovalsMoves ==
    ASSUME Shape, NEW p \in Procs, PlanRemovals(p)
    PROVE  Orderly(p) /\ Elsewhere(p)
<1> DEFINE all == proc[p].task = "full"
           New(got, rm, o) == [proc[p] EXCEPT !.pc = "applying", !.got = got, !.rm = rm, !.orphan = o]
<1>1. PICK o \in {"no", "todo", "forced"} : \E got, rm : proc' = [proc EXCEPT ![p] = New(got, rm, o)]
  <2>1. PICK reachable \in {up, TRUE}, orphan \in {"no", "todo", "forced"} :
            proc' = [proc EXCEPT ![p] = [proc[p] EXCEPT
                    !.pc = "applying",
                    !.got = IF all THEN Idle("none").got ELSE @,
                    !.rm = IF all THEN StaleRemovals(proc[p].todo, reachable)
                           ELSE BrokenLinkCleanup(proc[p].todo, reachable),
                    !.orphan = orphan]]
    BY DEF PlanRemovals
  <2> DEFINE got == IF all THEN Idle("none").got ELSE proc[p].got
             rm == IF all THEN StaleRemovals(proc[p].todo, reachable)
                   ELSE BrokenLinkCleanup(proc[p].todo, reachable)
  <2>2. proc' = [proc EXCEPT ![p] = New(got, rm, orphan)]
    BY <2>1
  <2> HIDE DEF got, rm, New
  <2> QED BY <2>2
<1>2. PICK got, rm : proc' = [proc EXCEPT ![p] = New(got, rm, o)]
  BY <1>1
<1>3. Fields \subseteq DOMAIN New(got, rm, o) /\ New(got, rm, o).orphan = o /\ New(got, rm, o).pc = "applying"
  BY DEF Shape, Fields
<1>4. UNCHANGED <<folder, late, glist, owed>> /\ At(p, "planning")
  BY DEF PlanRemovals, OnlyProc, linkVars
<1> HIDE DEF New
<1> QED BY <1>1, <1>2, <1>3, <1>4, PutMoves DEF Writes, At

LEMMA EvaluateMoves ==
    ASSUME Shape, NEW p \in Procs, Evaluate(p)
    PROVE  Orderly(p) /\ Elsewhere(p)
<1> DEFINE New(todo, acts) == [proc[p] EXCEPT !.todo = todo, !.acts = acts]
<1>1. PICK todo, acts : proc' = [proc EXCEPT ![p] = New(todo, acts)]
  BY DEF Evaluate
<1>2. /\ Fields \subseteq DOMAIN New(todo, acts) /\ New(todo, acts).orphan = proc[p].orphan
      /\ New(todo, acts).pc = proc[p].pc
  BY DEF Shape, Fields
<1>3. UNCHANGED <<folder, late, glist, owed>> /\ At(p, "applying")
  BY DEF Evaluate, OnlyProc, linkVars
<1> HIDE DEF New
<1> QED BY <1>1, <1>2, <1>3, PutMoves DEF Writes, At

LEMMA CheckLinkMoves ==
    ASSUME Shape, NEW p \in Procs, CheckLink(p)
    PROVE  Orderly(p) /\ Elsewhere(p)
<1> DEFINE New(acts) == [proc[p] EXCEPT !.acts = acts]
<1>1. PICK acts : proc' = [proc EXCEPT ![p] = New(acts)]
  BY DEF CheckLink, Shape
<1>2. /\ Fields \subseteq DOMAIN New(acts) /\ New(acts).orphan = proc[p].orphan
      /\ New(acts).pc = proc[p].pc
  BY DEF Shape, Fields
<1>3. UNCHANGED <<folder, late, glist, owed>> /\ At(p, "applying")
  BY DEF CheckLink, OnlyProc, OnlyLinks, linkVars
<1> HIDE DEF New
<1> QED BY <1>1, <1>2, <1>3, PutMoves DEF Writes, At

LEMMA UnlinkOldMoves ==
    ASSUME Shape, NEW p \in Procs, UnlinkOld(p)
    PROVE  Orderly(p) /\ Elsewhere(p)
<1> DEFINE New(acts, failed) == [proc[p] EXCEPT !.acts = acts, !.failed = failed]
<1>1. PICK acts, failed : proc' = [proc EXCEPT ![p] = New(acts, failed)]
  BY DEF UnlinkOld, Shape
<1>2. /\ Fields \subseteq DOMAIN New(acts, failed) /\ New(acts, failed).orphan = proc[p].orphan
      /\ New(acts, failed).pc = proc[p].pc
  BY DEF Shape, Fields
<1>3. UNCHANGED <<folder, late, glist, owed>> /\ At(p, "applying")
  BY DEF UnlinkOld, OnlyProc, OnlyLinks, linkVars
<1> HIDE DEF New
<1> QED BY <1>1, <1>2, <1>3, PutMoves DEF Writes, At

LEMMA MakeLinkMoves ==
    ASSUME Shape, NEW p \in Procs, MakeLink(p)
    PROVE  Orderly(p) /\ Elsewhere(p)
<1> DEFINE New(acts, failed) == [proc[p] EXCEPT !.acts = acts, !.failed = failed]
<1>1. PICK acts, failed : proc' = [proc EXCEPT ![p] = New(acts, failed)]
  BY DEF MakeLink, Shape
<1>2. /\ Fields \subseteq DOMAIN New(acts, failed) /\ New(acts, failed).orphan = proc[p].orphan
      /\ New(acts, failed).pc = proc[p].pc
  BY DEF Shape, Fields
<1>3. UNCHANGED <<folder, late, glist, owed>> /\ At(p, "applying")
  BY DEF MakeLink, OnlyProc, OnlyLinks, linkVars
<1> HIDE DEF New
<1> QED BY <1>1, <1>2, <1>3, PutMoves DEF Writes, At

LEMMA ApplyFailsMoves ==
    ASSUME Shape, NEW p \in Procs, ApplyFails(p)
    PROVE  Orderly(p) /\ Elsewhere(p)
<1> DEFINE Op(acts) == [proc[p] EXCEPT !.acts = acts, !.failed = TRUE]
           Removal == [proc[p] EXCEPT !.cut = {}, !.failed = TRUE]
<1>1. (\E acts : proc' = [proc EXCEPT ![p] = Op(acts)]) \/ proc' = [proc EXCEPT ![p] = Removal]
  BY DEF ApplyFails
<1>2. /\ \A acts : /\ Fields \subseteq DOMAIN Op(acts) /\ Op(acts).orphan = proc[p].orphan
                   /\ Op(acts).pc = proc[p].pc
      /\ Fields \subseteq DOMAIN Removal /\ Removal.orphan = proc[p].orphan /\ Removal.pc = proc[p].pc
  BY DEF Shape, Fields
<1>3. UNCHANGED <<folder, late, glist, owed>> /\ At(p, "applying")
  BY DEF ApplyFails, linkVars
<1> HIDE DEF Op, Removal
<1> QED BY <1>1, <1>2, <1>3, PutMoves DEF Writes, At

LEMMA WritePlaylistMoves ==
    ASSUME Shape, NEW p \in Procs, WritePlaylist(p)
    PROVE  Orderly(p) /\ Elsewhere(p)
<1> DEFINE New(m3u) == [proc[p] EXCEPT !.m3u = m3u]
<1>1. PICK m3u : proc' = [proc EXCEPT ![p] = New(m3u)]
  BY DEF WritePlaylist, Shape
<1>2. Fields \subseteq DOMAIN New(m3u) /\ New(m3u).orphan = proc[p].orphan /\ New(m3u).pc = proc[p].pc
  BY DEF Shape, Fields
<1>3. UNCHANGED <<folder, late, glist, owed>> /\ At(p, "applying")
  BY DEF WritePlaylist
<1> HIDE DEF New
<1> QED BY <1>1, <1>2, <1>3, PutMoves DEF Writes, At

LEMMA CheckRemovalMoves ==
    ASSUME Shape, NEW p \in Procs, CheckRemoval(p)
    PROVE  Orderly(p) /\ Elsewhere(p)
<1> DEFINE New(rm, cut) == [proc[p] EXCEPT !.rm = rm, !.cut = cut]
<1>1. PICK rm, cut : proc' = [proc EXCEPT ![p] = New(rm, cut)]
  BY DEF CheckRemoval, Shape
<1>2. /\ Fields \subseteq DOMAIN New(rm, cut) /\ New(rm, cut).orphan = proc[p].orphan
      /\ New(rm, cut).pc = proc[p].pc
  BY DEF Shape, Fields
<1>3. UNCHANGED <<folder, late, glist, owed>> /\ At(p, "applying")
  BY DEF CheckRemoval, OnlyProc, OnlyLinks, linkVars
<1> HIDE DEF New
<1> QED BY <1>1, <1>2, <1>3, PutMoves DEF Writes, At

LEMMA RemoveMoves ==
    ASSUME Shape, NEW p \in Procs, Remove(p)
    PROVE  Orderly(p) /\ Elsewhere(p)
<1> DEFINE New(cut, failed) == [proc[p] EXCEPT !.cut = cut, !.failed = failed]
<1>1. PICK cut, failed : proc' = [proc EXCEPT ![p] = New(cut, failed)]
  BY DEF Remove, Shape
<1>2. /\ Fields \subseteq DOMAIN New(cut, failed) /\ New(cut, failed).orphan = proc[p].orphan
      /\ New(cut, failed).pc = proc[p].pc
  BY DEF Shape, Fields
<1>3. UNCHANGED <<folder, late, glist, owed>> /\ At(p, "applying")
  BY DEF Remove, OnlyProc, OnlyLinks, linkVars
<1> HIDE DEF New
<1> QED BY <1>1, <1>2, <1>3, PutMoves DEF Writes, At

LEMMA RecheckMoves ==
    ASSUME Shape, NEW p \in Procs, Recheck(p)
    PROVE  Orderly(p) /\ Elsewhere(p)
<1> DEFINE me == [proc[p] EXCEPT !.orphan = IF folder = "clean" THEN "checked" ELSE "no"]
<1>1. proc' = [proc EXCEPT ![p] = me]
  BY DEF Recheck, Shape
<1>2. /\ Fields \subseteq DOMAIN me /\ me.orphan = (IF folder = "clean" THEN "checked" ELSE "no")
      /\ me.pc = proc[p].pc
  BY DEF Shape, Fields
<1>3. UNCHANGED <<folder, late, glist, owed>> /\ At(p, "applying")
  BY DEF Recheck, RemovalsDone, OnlyProc, linkVars
<1> HIDE DEF me
<1> QED BY <1>1, <1>2, <1>3, PutMoves DEF Writes, At

LEMMA RemoveTreeMoves ==
    ASSUME Shape, NEW p \in Procs, RemoveTree(p)
    PROVE  Orderly(p) /\ Elsewhere(p)
<1> DEFINE me == [proc[p] EXCEPT !.orphan = "no"]
<1>1. proc' = [proc EXCEPT ![p] = me]
  BY DEF RemoveTree, Shape
<1>2. Fields \subseteq DOMAIN me /\ me.orphan = "no" /\ me.pc = proc[p].pc
  BY DEF Shape, Fields
<1>3. Becomes(p, me)
  BY <1>1, <1>2, PutLemma
<1> HIDE DEF me
<1> QED BY <1>2, <1>3 DEF RemoveTree, RemovalsDone, Orderly, Elsewhere, Becomes, Writes, At

LEMMA AppliedMoves ==
    ASSUME Shape, NEW p \in Procs, Applied(p)
    PROVE  Orderly(p) /\ Elsewhere(p)
<1>1. UNCHANGED <<folder, late, glist, owed>> /\ At(p, "applying")
  BY DEF Applied, RemovalsDone, OnlyCache, linkVars
<1>2. Ended(p) \/ Goto(p, "finishing") \/ Goto(p, "merging")
  BY DEF Applied
<1> QED BY <1>1, <1>2, EndedOrderly, GotoOrderly DEF Elsewhere, Writes, At

LEMMA MergeDeltaIntoCacheMoves ==
    ASSUME Shape, NEW p \in Procs, MergeDeltaIntoCache(p)
    PROVE  Orderly(p) /\ Elsewhere(p)
<1>1. UNCHANGED <<folder, late, glist, owed>> /\ At(p, "merging")
  BY DEF MergeDeltaIntoCache, OnlyProc, linkVars
<1>2. CASE roms = NoFile
  <2> DEFINE me == [proc[p] EXCEPT !.pc = "finishing"]
  <2>1. proc' = [proc EXCEPT ![p] = me]
    BY <1>2 DEF MergeDeltaIntoCache
  <2>2. Fields \subseteq DOMAIN me /\ me.orphan = proc[p].orphan /\ me.pc = "finishing"
    BY DEF Shape, Fields
  <2> HIDE DEF me
  <2> QED BY <1>1, <2>1, <2>2, PutMoves DEF Writes, At
<1>3. CASE roms # NoFile
  <2> DEFINE merged == MergeById(roms, proc[p].got, proc[p].rs)
             me == [proc[p] EXCEPT !.pc = "caching", !.got = merged]
  <2>1. proc' = [proc EXCEPT ![p] = me]
    BY <1>3 DEF MergeDeltaIntoCache
  <2> HIDE DEF merged
  <2>2. Fields \subseteq DOMAIN me /\ me.orphan = proc[p].orphan /\ me.pc = "caching"
    BY DEF Shape, Fields
  <2> HIDE DEF me
  <2> QED BY <1>1, <2>1, <2>2, PutMoves DEF Writes, At
<1> QED BY <1>2, <1>3

LEMMA FinishFailsMoves ==
    ASSUME Shape, NEW p \in Procs, FinishFails(p)
    PROVE  Orderly(p) /\ Elsewhere(p)
BY IdleLemma, PutLemma DEF FinishFails, At, linkVars, Orderly, Elsewhere, Becomes, Writes

LEMMA FinishSyncMoves ==
    ASSUME Shape, NEW p \in Procs, FinishSync(p)
    PROVE  Orderly(p) /\ Elsewhere(p)
<1>1. UNCHANGED <<folder, late, glist, owed>> /\ At(p, "finishing")
  BY DEF FinishSync, OnlyCache, linkVars
<1>2. Ended(p) \/ Goto(p, "entries")
  BY DEF FinishSync
<1> QED BY <1>1, <1>2, EndedOrderly, GotoOrderly DEF Elsewhere, Writes, At

LEMMA PlanDeletedMoves ==
    ASSUME Shape, NEW p \in Procs, PlanDeleted(p)
    PROVE  Orderly(p) /\ Elsewhere(p)
<1>1. UNCHANGED <<folder, late, glist, owed>> /\ At(p, "checking")
  BY DEF PlanDeleted, OnlyProc, linkVars
<1>2. CASE Ended(p)
  BY <1>1, <1>2, EndedOrderly DEF Elsewhere, Writes, At
<1>3. CASE ~Ended(p)
  <2> DEFINE New(rm) == [proc[p] EXCEPT !.pc = "applying", !.rm = rm]
  <2>1. PICK rm : proc' = [proc EXCEPT ![p] = New(rm)]
    BY <1>3 DEF PlanDeleted
  <2>2. Fields \subseteq DOMAIN New(rm) /\ New(rm).orphan = proc[p].orphan /\ New(rm).pc = "applying"
    BY DEF Shape, Fields
  <2> HIDE DEF New
  <2> QED BY <1>1, <2>1, <2>2, PutMoves DEF Writes, At
<1> QED BY <1>2, <1>3

LEMMA CrashMoves ==
    ASSUME Shape, NEW p \in Procs, Crash(p)
    PROVE  Orderly(p) /\ ~Writes(proc'[p])
BY IdleLemma, PutLemma DEF Crash, linkVars, Orderly, Becomes, Writes

(* Steps that have nothing to do with gamelist.xml. *)
Quiet(p) ==
    \/ \E task \in {"full", "gamelist", "saves"} : ListRoms(p, task)
    \/ ListDelta(p) \/ ListIdentifiers(p)
    \/ WriteData(p) \/ WriteMeta(p) \/ PlanLinks(p) \/ PlanRemovals(p)
    \/ Evaluate(p) \/ CheckLink(p) \/ UnlinkOld(p) \/ MakeLink(p)
    \/ WritePlaylist(p) \/ CheckRemoval(p) \/ Remove(p)
    \/ Recheck(p) \/ RemoveTree(p) \/ Applied(p) \/ MergeDeltaIntoCache(p)
    \/ FinishSync(p) \/ PlanDeleted(p) \/ WriteFails(p) \/ ApplyFails(p) \/ FinishFails(p)

LEMMA QuietMoves ==
    ASSUME Shape, NEW p \in Procs, Quiet(p)
    PROVE  Orderly(p) /\ Elsewhere(p)
BY ListRomsMoves, ListDeltaMoves, ListIdentifiersMoves, WriteDataMoves, WriteMetaMoves,
   PlanLinksMoves, PlanRemovalsMoves, EvaluateMoves, CheckLinkMoves,
   UnlinkOldMoves, MakeLinkMoves, WritePlaylistMoves, CheckRemovalMoves, RemoveMoves,
   RecheckMoves, RemoveTreeMoves, AppliedMoves, MergeDeltaIntoCacheMoves, FinishSyncMoves,
   PlanDeletedMoves, WriteFailsMoves, ApplyFailsMoves, FinishFailsMoves DEF Quiet

LEMMA CommandSteps ==
    ASSUME NEW p \in Procs, Begin(p) \/ Step(p) \/ Fail(p) \/ Crash(p)
    PROVE  Quiet(p) \/ ReadGamelist(p) \/ TruncateGamelist(p) \/ WriteGamelist(p) \/ Crash(p)
BY DEF Begin, Step, Fail, Quiet

(* The three steps of a command that writes gamelist.xml. *)
Listing(xml) == xml = [q \in Paths |-> xml[q]]

LEMMA ReadGamelistMoves ==
    ASSUME Shape, owed \subseteq Paths, NEW p \in Procs, ReadGamelist(p)
    PROVE  /\ Orderly(p) /\ glist' = glist /\ owed' \subseteq owed
           /\ ~Writes(proc[p])
           /\ Writes(proc'[p]) =>
                /\ Listing(proc'[p].xml)
                /\ \/ owed' = {}
                   \/ /\ \A q \in Procs : ~Writes(proc[q])
                      /\ \A q \in owed' : glist[q] = Marked => proc'[p].xml[q] = Marked
<1> DEFINE got == proc[p].got
           rs == proc[p].rs
           full == proc[p].task = "gamelist"
           xml == IF full THEN MergeFull(got) ELSE MergeDelta(got, rs)
           me == [Idle(proc[p].task) EXCEPT !.pc = "truncating", !.xml = xml]
<1>1. UNCHANGED <<folder, late, glist>> /\ ~Writes(proc[p])
  BY DEF ReadGamelist, linkVars, Writes, At
<1>2. owed' = IF \E q \in Procs : Writes(proc[q]) THEN {}
              ELSE IF full /\ FullPaths(got) # {} THEN owed \cap FullPaths(got) ELSE owed
  BY DEF ReadGamelist, Writes, At
<1>3. CASE Ended(p)
  BY <1>1, <1>2, <1>3, EndedOrderly
<1>4. CASE /\ full => FullPaths(got) # {}
           /\ proc' = [proc EXCEPT ![p] = me]
  <2> HIDE DEF xml
  <2>1. Fields \subseteq DOMAIN me /\ me.orphan = "no" /\ me.xml = xml
    <3>1. "xml" \in DOMAIN Idle(proc[p].task)
      BY IdleLemma DEF Fields
    <3> QED BY <3>1, IdleLemma DEF Fields
  <2> HIDE DEF me
  <2>2. Orderly(p) /\ proc'[p].xml = xml
    BY <1>1, <1>4, <2>1, PutLemma DEF Orderly, Becomes
  <2>3. Listing(xml)
    BY DEF xml, MergeFull, MergeDelta, Listing
  <2>4. ASSUME owed' # {}
        PROVE  /\ \A q \in Procs : ~Writes(proc[q])
               /\ \A q \in owed' : glist[q] = Marked => xml[q] = Marked
    <3>1. CASE full
      <4>1. owed' \subseteq Paths \cap FullPaths(got)
        BY <1>2, <1>4, <2>4, <3>1
      <4>2. xml = [q \in Paths |-> IF q \in FullPaths(got) THEN MergeGame(glist[q]) ELSE Missing]
        BY <3>1 DEF xml, MergeFull
      <4> QED BY <1>2, <2>4, <4>1, <4>2, GamelistAssumption DEF MergeGame
    <3>2. CASE ~full
      <4>1. xml = [q \in Paths |-> IF q \in DeltaPaths(got, rs) THEN MergeGame(glist[q]) ELSE glist[q]]
        BY <3>2 DEF xml, MergeDelta
      <4> QED BY <1>2, <2>4, <3>2, <4>1, GamelistAssumption DEF MergeGame
    <3> QED BY <3>1, <3>2
  <2> QED BY <1>1, <1>2, <2>2, <2>3, <2>4
<1> QED BY <1>3, <1>4 DEF ReadGamelist

LEMMA TruncateGamelistMoves ==
    ASSUME Shape, NEW p \in Procs, TruncateGamelist(p)
    PROVE  /\ Orderly(p) /\ glist' = EmptyList /\ owed' = owed
           /\ Writes(proc[p])
           /\ proc'[p].pc = "writing" /\ proc'[p].xml = proc[p].xml
BY GotoLemma DEF TruncateGamelist, At, linkVars, Orderly, Writes, Becomes

LEMMA WriteGamelistMoves ==
    ASSUME Shape, NEW p \in Procs, WriteGamelist(p)
    PROVE  /\ Orderly(p) /\ glist' = proc[p].xml /\ owed' = owed
           /\ Writes(proc[p]) /\ ~Writes(proc'[p])
BY EndedOrderly DEF WriteGamelist, At, linkVars, Writes

LEMMA CommandsOrderly ==
    ASSUME Shape, owed \subseteq Paths, NEW p \in Procs, Begin(p) \/ Step(p) \/ Fail(p) \/ Crash(p)
    PROVE  Orderly(p)
BY CommandSteps, QuietMoves, ReadGamelistMoves, TruncateGamelistMoves, WriteGamelistMoves, CrashMoves

-----------------------------------------------------------------------------
(* Orphan folders.  A process removes only what it has seen to be clean. *)
FolderInv ==
    /\ Shape /\ owed \subseteq Paths
    /\ \A p \in Procs : proc[p].orphan = "checked" => folder # "mixed" \/ late

LEMMA OwedPaths ==
    ASSUME Shape, owed \subseteq Paths, [Next]_vars
    PROVE  owed' \subseteq Paths
<1>1. CASE UNCHANGED vars
  BY <1>1 DEF vars
<1>2. CASE Outside
  BY <1>2 DEF Outside, User, RomChanges, NasFails, NasReturns, TtlPasses, UserLinks, UserKeeps,
              UserMarks, UserInvalidates
<1>3. ASSUME NEW p \in Procs, Begin(p) \/ Step(p) \/ Fail(p) \/ Crash(p) PROVE owed' \subseteq Paths
  <2>1. CASE Crash(p)
    BY <2>1 DEF Crash
  <2>2. CASE ~Crash(p)
    BY <1>3, <2>2, CommandSteps, QuietMoves, ReadGamelistMoves, TruncateGamelistMoves, WriteGamelistMoves
       DEF Elsewhere
  <2> QED BY <2>1, <2>2
<1> QED BY <1>1, <1>2, <1>3 DEF Next

LEMMA OutsideStays ==
    ASSUME Outside
    PROVE  UNCHANGED proc
BY DEF Outside, User, RomChanges, NasFails, NasReturns, TtlPasses, UserLinks, UserKeeps,
       UserMarks, UserInvalidates

LEMMA FolderInvKept == FolderInv /\ [Next]_vars => FolderInv'
<1> SUFFICES ASSUME FolderInv, [Next]_vars PROVE FolderInv'
  OBVIOUS
<1>1. owed' \subseteq Paths
  BY OwedPaths DEF FolderInv
<1>2. CASE UNCHANGED vars
  BY <1>2 DEF vars, linkVars, FolderInv, Shape
<1>3. CASE UserKeeps
  BY <1>1, <1>3 DEF UserKeeps, FolderInv, Shape
<1>4. CASE Outside /\ ~UserKeeps
  <2>1. UNCHANGED <<folder, late, proc>>
    BY <1>4 DEF Outside, User, RomChanges, NasFails, NasReturns, TtlPasses, UserLinks,
                UserMarks, UserInvalidates, linkVars
  <2> QED BY <1>1, <2>1 DEF FolderInv, Shape
<1>5. ASSUME NEW p \in Procs, Begin(p) \/ Step(p) \/ Fail(p) \/ Crash(p) PROVE FolderInv'
  <2>1. Orderly(p)
    BY <1>5, CommandsOrderly DEF FolderInv
  <2> QED BY <1>1, <2>1 DEF FolderInv, Orderly, Becomes
<1> QED BY <1>2, <1>3, <1>4, <1>5 DEF Next

(* Whatever the user does while `sync --prune-orphans` runs, a platform folder
   with a file of his is removed only when he confirmed it or the file came
   after the last look (apply_orphan_removal, symlink_manager.py:576-612). *)
THEOREM FoldersStay == Spec => UsersFoldersStay
<1> DEFINE Due == late \/ \E p \in Procs : proc[p].orphan = "forced"
<1>1. Init => FolderInv
  <2> SUFFICES ASSUME Init PROVE FolderInv
    OBVIOUS
  <2> QED BY IdleLemma DEF Init, FolderInv, Shape
<1>2. FolderInv /\ [Next]_vars => [folder = "mixed" /\ folder' = "gone" => Due]_vars
  <2> SUFFICES ASSUME FolderInv, Next, folder = "mixed", folder' = "gone" PROVE Due
    OBVIOUS
  <2>1. CASE Outside
    BY <2>1 DEF Outside, User, RomChanges, NasFails, NasReturns, TtlPasses, UserLinks, UserKeeps,
                UserMarks, UserInvalidates, linkVars
  <2>2. ASSUME NEW p \in Procs, Begin(p) \/ Step(p) \/ Fail(p) \/ Crash(p) PROVE Due
    <3>1. Orderly(p)
      BY <2>2, CommandsOrderly DEF FolderInv
    <3> QED BY <3>1 DEF Orderly, FolderInv
  <2> QED BY <2>1, <2>2 DEF Next
<1> QED BY <1>1, <1>2, FolderInvKept, PTL DEF Spec, UsersFoldersStay

-----------------------------------------------------------------------------
(* The user's tags.  Whoever holds a merged list has the marks of all that is
   owed, because a list read while another was being written owes nothing. *)
Held(xml) == Listing(xml) /\ \A q \in owed : xml[q] = Marked

ListInv ==
    /\ Shape /\ owed \subseteq Paths /\ Listing(glist)
    /\ FavouritesKept
    /\ \A p \in Procs : Writes(proc[p]) => Held(proc[p].xml)

LEMMA ListStays ==
    ASSUME ListInv, UNCHANGED <<proc, glist, owed>>
    PROVE  ListInv'
BY DEF ListInv, Shape, Held, FavouritesKept, At, Listing

LEMMA ListInvKept == ListInv /\ [Next]_vars => ListInv'
<1> SUFFICES ASSUME ListInv, [Next]_vars PROVE ListInv'
  OBVIOUS
<1> USE DEF ListInv
<1>1. owed' \subseteq Paths
  BY OwedPaths
<1>2. CASE UNCHANGED vars
  BY <1>2, ListStays DEF vars
<1>3. CASE UserMarks
  <2>1. PICK q \in Paths : /\ glist' = [glist EXCEPT ![q] = Marked]
                           /\ owed' = IF \E p \in Procs : Writes(proc[p]) THEN owed ELSE owed \cup {q}
    BY <1>3 DEF UserMarks, Writes, At
  <2>2. Listing(glist') /\ \A r \in Paths : glist'[r] = IF r = q THEN Marked ELSE glist[r]
    BY <2>1 DEF Listing
  <2>3. Shape' /\ proc' = proc
    BY <1>3 DEF UserMarks, Shape
  <2>4. FavouritesKept'
    BY <2>1, <2>2, <2>3 DEF FavouritesKept, At
  <2>5. \A p \in Procs : (Writes(proc[p]) => Held(proc[p].xml))'
    BY <2>1, <2>3 DEF Held
  <2> QED BY <1>1, <2>2, <2>3, <2>4, <2>5
<1>4. CASE Outside /\ ~UserMarks
  <2>1. UNCHANGED <<proc, glist, owed>>
    BY <1>4 DEF Outside, User, RomChanges, NasFails, NasReturns, TtlPasses, UserLinks, UserKeeps,
                UserInvalidates
  <2> QED BY <2>1, ListStays
<1>5. ASSUME NEW p \in Procs, Begin(p) \/ Step(p) \/ Fail(p) \/ Crash(p) PROVE ListInv'
  <2>1. PICK me : Becomes(p, me)
    BY <1>5, CommandsOrderly DEF Orderly
  <2>2. Shape' /\ \A q \in Procs \ {p} : proc'[q] = proc[q]
    BY <2>1 DEF Becomes
  <2>3. CASE Quiet(p)
    <3>1. Elsewhere(p)
      BY <2>3, QuietMoves
    <3> QED BY <1>1, <2>2, <3>1 DEF Elsewhere, Writes, Held, FavouritesKept, At, Listing
  <2>4. CASE ReadGamelist(p)
    <3>1. /\ glist' = glist /\ owed' \subseteq owed /\ ~Writes(proc[p])
          /\ Writes(proc'[p]) =>
                /\ Listing(proc'[p].xml)
                /\ \/ owed' = {}
                   \/ /\ \A q \in Procs : ~Writes(proc[q])
                      /\ \A q \in owed' : glist[q] = Marked => proc'[p].xml[q] = Marked
      BY <2>4, ReadGamelistMoves
    <3>2. FavouritesKept'
      BY <2>2, <3>1 DEF FavouritesKept, At, Writes
    <3>3. (Writes(proc[p]) => Held(proc[p].xml))'
      BY <3>1 DEF Held, FavouritesKept, At, Writes, Listing
    <3>4. \A q \in Procs \ {p} : (Writes(proc[q]) => Held(proc[q].xml))'
      BY <2>2, <3>1 DEF Held, Listing
    <3> QED BY <1>1, <2>2, <3>1, <3>2, <3>3, <3>4 DEF Listing
  <2>5. CASE TruncateGamelist(p)
    <3>1. /\ glist' = EmptyList /\ owed' = owed /\ Writes(proc[p])
          /\ proc'[p].pc = "writing" /\ proc'[p].xml = proc[p].xml
      BY <2>5, TruncateGamelistMoves
    <3>2. FavouritesKept' /\ Listing(glist')
      BY <3>1 DEF FavouritesKept, At, EmptyList, Listing
    <3>3. \A q \in Procs : (Writes(proc[q]) => Held(proc[q].xml))'
      BY <2>2, <3>1 DEF Held, Listing
    <3> QED BY <1>1, <2>2, <3>2, <3>3
  <2>6. CASE WriteGamelist(p)
    <3>1. /\ glist' = proc[p].xml /\ owed' = owed
          /\ Writes(proc[p]) /\ ~Writes(proc'[p])
      BY <2>6, WriteGamelistMoves
    <3>2. FavouritesKept' /\ Listing(glist')
      BY <3>1 DEF FavouritesKept, Held, Listing
    <3>3. \A q \in Procs : (Writes(proc[q]) => Held(proc[q].xml))'
      BY <2>2, <3>1 DEF Held, Listing
    <3> QED BY <1>1, <2>2, <3>2, <3>3
  <2>7. CASE Crash(p)
    <3>1. /\ glist' = glist /\ ~Writes(proc'[p])
          /\ owed' = IF At(p, "writing") THEN {} ELSE owed
      BY <2>7, CrashMoves DEF Crash
    <3>2. FavouritesKept' /\ Listing(glist')
      BY <2>2, <3>1 DEF FavouritesKept, At, Listing
    <3>3. \A q \in Procs : (Writes(proc[q]) => Held(proc[q].xml))'
      BY <2>2, <3>1 DEF Held, Listing
    <3> QED BY <1>1, <2>2, <3>2, <3>3
  <2> QED BY <1>5, <2>3, <2>4, <2>5, <2>6, <2>7, CommandSteps
<1> QED BY <1>2, <1>3, <1>4, <1>5 DEF Next

(* Between writes of gamelist.xml every tag of the user that no race and no
   crash has put at risk is there (_merge_game, apply_gamelist_plan,
   apply_gamelist_delta; gamelist.py:480-511, 534-618, 740-855). *)
THEOREM TagsKept == Spec => []FavouritesKept
<1>1. Init => ListInv
  <2> SUFFICES ASSUME Init PROVE ListInv
    OBVIOUS
  <2>1. Shape /\ \A p \in Procs : ~Writes(proc[p])
    BY IdleLemma DEF Init, Shape, Writes
  <2> QED BY <2>1 DEF Init, ListInv, Listing, EmptyList, FavouritesKept
<1>2. ListInv => FavouritesKept
  BY DEF ListInv
<1> QED BY <1>1, <1>2, ListInvKept, PTL DEF Spec
=============================================================================
