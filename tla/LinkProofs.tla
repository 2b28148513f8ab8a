----------------------------- MODULE LinkProofs -----------------------------
(***************************************************************************)
(* What a plan of links holds, for any listing and NAS: LinkPlan is a      *)
(* function by recursion on the ROMs' numbers, so that what it returns     *)
(* needs an induction, stated here about sets.  With it the types of       *)
(* LibrarySync, that game files of one name are kept apart, that the       *)
(* user's files stay, and that a directory that matches the listing is     *)
(* left alone.                                                             *)
(***************************************************************************)
EXTENDS LibraryProofs, FiniteSetTheorems, WellFoundedInduction

(* Induction up to a number.  The library's induction theorems have a
   predicate as a parameter; this one has the set of what is shown. *)
LEMMA LessThanWellFounded == IsWellFoundedOn({ss \in Nat \X Nat : ss[1] < ss[2]}, Nat)
BY NatLessThanWellFounded DEF OpToRel

LEMMA UpTo ==
    ASSUME NEW n \in Nat, NEW S, 0 \in S,
           \A k \in 0..n : k < n /\ k \in S => k + 1 \in S
    PROVE  0..n \subseteq S
<1> DEFINE T == (0..n) \ S
           R == {ss \in Nat \X Nat : ss[1] < ss[2]}
<1>1. SUFFICES ASSUME T # {} PROVE FALSE
  OBVIOUS
<1>2. T \subseteq Nat
  OBVIOUS
<1>3. \E x \in T : \A y \in T : ~(<<y, x>> \in R)
  <2>1. IsWellFoundedOn(R, Nat)
    BY LessThanWellFounded
  <2> HIDE DEF T, R
  <2> QED BY <1>1, <1>2, <2>1, WFMin
<1>4. PICK x \in T : \A y \in T : ~(<<y, x>> \in R)
  BY <1>3
<1>5. \A y \in T : ~(y < x)
  BY <1>2, <1>4
<1>6. x \in 0..n /\ x # 0
  OBVIOUS
<1>7. x - 1 \in 0..n /\ x - 1 < x /\ x - 1 < n /\ (x - 1) + 1 = x
  BY <1>6
<1>8. x - 1 \in S
  BY <1>5, <1>7
<1> QED BY <1>7, <1>8, <1>6

-----------------------------------------------------------------------------
(* What the ROM r adds to the operations, and the plans for the first n ROMs. *)
PlanStep(l, rs, r, ops) ==
    ops \cup (IF r \in rs /\ CanLaunch(l, r) THEN Unclaimed(l[r], ops) ELSE {})

Plans(l, rs, n, f) == f = [r \in 0..n |-> IF r = 0 THEN {} ELSE PlanStep(l, rs, r, f[r - 1])]

LEMMA PlansExist ==
    ASSUME NEW n \in Nat, NEW l, NEW rs
    PROVE  \E f : Plans(l, rs, n, f)
<1> DEFINE S == {k \in 0..n : \E f : Plans(l, rs, k, f)}
<1>1. 0 \in S
  <2>1. Plans(l, rs, 0, [r \in 0..0 |-> {}])
    BY DEF Plans
  <2> QED BY <2>1
<1>2. ASSUME NEW k \in 0..n, k < n, k \in S PROVE k + 1 \in S
  <2>1. PICK f : Plans(l, rs, k, f)
    BY <1>2
  <2> DEFINE g == [r \in 0..(k + 1) |-> IF r = k + 1 THEN PlanStep(l, rs, r, f[k]) ELSE f[r]]
  <2>2. ASSUME NEW r \in 0..(k + 1) PROVE g[r] = IF r = 0 THEN {} ELSE PlanStep(l, rs, r, g[r - 1])
    <3>1. CASE r = k + 1
      <4>1. r # 0 /\ r - 1 = k /\ g[k] = f[k]
        BY <3>1
      <4> QED BY <3>1, <4>1
    <3>2. CASE r # k + 1
      <4>1. r \in 0..k /\ g[r] = f[r] /\ (r # 0 => r - 1 \in 0..k /\ g[r - 1] = f[r - 1])
        BY <3>2
      <4>2. f[r] = IF r = 0 THEN {} ELSE PlanStep(l, rs, r, f[r - 1])
        BY <2>1, <4>1 DEF Plans
      <4> HIDE DEF g
      <4> QED BY <4>1, <4>2
    <3> QED BY <3>1, <3>2
  <2>3. Plans(l, rs, k + 1, g)
    <3>1. g = [r \in 0..(k + 1) |-> g[r]]
      OBVIOUS
    <3> HIDE DEF g
    <3> QED BY <2>2, <3>1 DEF Plans
  <2>4. k + 1 \in 0..n
    BY <1>2
  <2> QED BY <2>3, <2>4
<1>3. 0..n \subseteq S
  <2> HIDE DEF S
  <2> QED BY <1>1, <1>2, UpTo
<1> QED BY <1>3

LEMMA RomNumbers ==
    Cardinality(Roms) \in Nat /\ Roms = 1..Cardinality(Roms) /\ Roms \cup {0} = 0..Cardinality(Roms)
<1>1. Cardinality(Roms) \in Nat /\ Roms = 1..Cardinality(Roms)
  BY LibraryAssumption, FS_CardinalityType
<1> QED BY <1>1

(* The plan of a listing is that of its last ROM. *)
LEMMA LinkPlanIs ==
    ASSUME NEW l, NEW rs
    PROVE  \E f : Plans(l, rs, Cardinality(Roms), f) /\ LinkPlan(l, rs) = f[Cardinality(Roms)]
<1> DEFINE P(f) == f = [r \in Roms \cup {0} |-> IF r = 0 THEN {} ELSE PlanStep(l, rs, r, f[r - 1])]
           F == CHOOSE f : P(f)
<1>1. LinkPlan(l, rs) = F[Cardinality(Roms)]
  BY Zenon DEF LinkPlan, PlanStep
<1>2. \E f : P(f)
  <2>1. PICK f : Plans(l, rs, Cardinality(Roms), f)
    BY PlansExist, RomNumbers
  <2> QED BY <2>1, RomNumbers DEF Plans
<1>3. P(F)
  <2> HIDE DEF P
  <2> QED BY <1>2
<1>4. Plans(l, rs, Cardinality(Roms), F)
  <2> HIDE DEF F
  <2> QED BY <1>3, RomNumbers DEF Plans
<1> QED BY <1>1, <1>4

(* Whatever no ROM's entries end is so for the plan: Good is the set of the
   sets of operations of which it is. *)
LEMMA PlanStays ==
    ASSUME NEW l, NEW rs, NEW Good, {} \in Good,
           \A r \in Roms, ops \in Good : PlanStep(l, rs, r, ops) \in Good
    PROVE  LinkPlan(l, rs) \in Good
<1> DEFINE n == Cardinality(Roms)
<1>1. PICK f : Plans(l, rs, n, f) /\ LinkPlan(l, rs) = f[n]
  BY LinkPlanIs
<1> DEFINE S == {k \in 0..n : f[k] \in Good}
<1>2. n \in Nat /\ Roms = 1..n
  BY RomNumbers
<1> HIDE DEF n
<1>3. 0 \in S
  BY <1>1, <1>2 DEF Plans
<1>4. ASSUME NEW k \in 0..n, k < n, k \in S PROVE k + 1 \in S
  <2>1. k + 1 \in Roms /\ k + 1 \in 0..n /\ k + 1 # 0 /\ (k + 1) - 1 = k
    BY <1>2, <1>4
  <2>2. f[k + 1] = PlanStep(l, rs, k + 1, f[k])
    BY <1>1, <2>1 DEF Plans
  <2> QED BY <1>4, <2>1, <2>2
<1>5. 0..n \subseteq S
  <2> HIDE DEF S
  <2> QED BY <1>2, <1>3, <1>4, UpTo
<1> QED BY <1>1, <1>2, <1>5

-----------------------------------------------------------------------------
(* What a ROM adds: targets, and for each name one of a kind at most. *)
Distinct(ops) == \A a, b \in ops : a[2] = b[2] => a = b \/ a[3] # b[3]

LEMMA TargetsAre ==
    /\ \A n \in Names : /\ <<n, n, "itself">> \in Targets
                        /\ \A f \in Inner[n] : <<n, f, "inside">> \in Targets
    /\ \A op \in Targets : /\ op = <<op[1], op[2], op[3]>> /\ op[1] \in Names /\ op[2] \in Dests
                           /\ op[3] = "itself" => op[2] = op[1]
BY LibraryAssumption DEF Targets, Dests

LEMMA EntriesAre ==
    ASSUME NEW n \in Names
    PROVE  LaunchEntries(n) \subseteq Targets /\ Distinct(LaunchEntries(n))
<1>1. CASE Inner[n] = {}
  BY <1>1, TargetsAre DEF LaunchEntries, Distinct
<1>2. CASE Inner[n] # {}
  <2>1. LaunchEntries(n) = {<<n, f, "inside">> : f \in Inner[n]}
    BY <1>2 DEF LaunchEntries
  <2>2. LaunchEntries(n) \subseteq Targets
    BY <2>1, TargetsAre
  <2>3. ASSUME NEW a \in LaunchEntries(n), NEW b \in LaunchEntries(n), a[2] = b[2] PROVE a = b
    BY <2>1, <2>3
  <2> QED BY <2>2, <2>3 DEF Distinct
<1> QED BY <1>1, <1>2

LEMMA PlanTargets ==
    ASSUME NEW l \in Listings, NEW rs
    PROVE  LinkPlan(l, rs) \subseteq Targets
<1> DEFINE Good == SUBSET Targets
<1>1. ASSUME NEW r \in Roms, NEW ops \in Good PROVE PlanStep(l, rs, r, ops) \in Good
  <2>1. CASE r \in rs /\ CanLaunch(l, r)
    <3>1. l[r] \in Names
      BY <2>1 DEF CanLaunch, Listings
    <3>2. Unclaimed(l[r], ops) \subseteq Targets
      BY <3>1, EntriesAre, TargetsAre DEF Unclaimed
    <3> QED BY <2>1, <3>2 DEF PlanStep
  <2>2. CASE ~(r \in rs /\ CanLaunch(l, r))
    BY <2>2 DEF PlanStep
  <2> QED BY <2>1, <2>2
<1>2. LinkPlan(l, rs) \in Good
  <2>1. {} \in Good
    OBVIOUS
  <2> HIDE DEF Good
  <2> QED BY <1>1, <2>1, PlanStays
<1> QED BY <1>2

LEMMA UnclaimedFits ==
    ASSUME NEW n \in Names, NEW ops, ops \subseteq Targets, Distinct(ops)
    PROVE  ops \cup Unclaimed(n, ops) \subseteq Targets /\ Distinct(ops \cup Unclaimed(n, ops))
<1>1. CASE \E e \in LaunchEntries(n), op \in ops : e[2] = op[2]
  <2>1. Unclaimed(n, ops) = {<<n, n, "itself">>}
    BY <1>1 DEF Unclaimed
  <2>2. <<n, n, "itself">> \in Targets
    BY TargetsAre
  <2>3. \A op \in ops : op[2] = n /\ op[3] = "itself" => op = <<n, n, "itself">>
    BY TargetsAre
  <2> QED BY <2>1, <2>2, <2>3 DEF Distinct
<1>2. CASE ~\E e \in LaunchEntries(n), op \in ops : e[2] = op[2]
  <2>1. Unclaimed(n, ops) = LaunchEntries(n)
    BY <1>2 DEF Unclaimed
  <2> QED BY <1>2, <2>1, EntriesAre DEF Distinct
<1> QED BY <1>1, <1>2

LEMMA PlanFits ==
    ASSUME NEW l \in Listings, NEW rs
    PROVE  LinkPlan(l, rs) \subseteq Targets /\ Distinct(LinkPlan(l, rs))
<1> DEFINE Good == {ops \in SUBSET Targets : Distinct(ops)}
<1>1. {} \in Good
  BY DEF Distinct
<1>2. ASSUME NEW r \in Roms, NEW ops \in Good PROVE PlanStep(l, rs, r, ops) \in Good
  <2>1. CASE r \in rs /\ CanLaunch(l, r)
    <3>1. l[r] \in Names
      BY <2>1 DEF CanLaunch, Listings
    <3> QED BY <2>1, <3>1, UnclaimedFits DEF PlanStep
  <2>2. CASE ~(r \in rs /\ CanLaunch(l, r))
    BY <2>2 DEF PlanStep
  <2> QED BY <2>1, <2>2
<1>3. LinkPlan(l, rs) \in Good
  <2> HIDE DEF Good
  <2> QED BY <1>1, <1>2, PlanStays
<1> QED BY <1>3

(* ROMs that are not listed add nothing. *)
LEMMA PlanOfListed ==
    ASSUME NEW l \in Listings
    PROVE  LinkPlan(l, Roms) = LinkPlan(l, Listed(l))
<1> DEFINE n == Cardinality(Roms)
<1>1. PICK f : Plans(l, Roms, n, f) /\ LinkPlan(l, Roms) = f[n]
  BY LinkPlanIs
<1>2. PICK g : Plans(l, Listed(l), n, g) /\ LinkPlan(l, Listed(l)) = g[n]
  BY LinkPlanIs
<1> DEFINE S == {k \in 0..n : f[k] = g[k]}
<1>3. n \in Nat /\ Roms = 1..n
  BY RomNumbers
<1> HIDE DEF n
<1>4. 0 \in S
  BY <1>1, <1>2, <1>3 DEF Plans
<1>5. ASSUME NEW k \in 0..n, k < n, k \in S PROVE k + 1 \in S
  <2>1. k + 1 \in Roms /\ k + 1 \in 0..n /\ k + 1 # 0 /\ (k + 1) - 1 = k
    BY <1>3, <1>5
  <2>2. f[k + 1] = PlanStep(l, Roms, k + 1, f[k]) /\ g[k + 1] = PlanStep(l, Listed(l), k + 1, g[k])
    BY <1>1, <1>2, <2>1 DEF Plans
  <2>3. PlanStep(l, Roms, k + 1, f[k]) = PlanStep(l, Listed(l), k + 1, f[k])
    BY <2>1 DEF PlanStep, CanLaunch, Listed
  <2> QED BY <1>5, <2>1, <2>2, <2>3
<1>6. 0..n \subseteq S
  <2> HIDE DEF S
  <2> QED BY <1>3, <1>4, <1>5, UpTo
<1> QED BY <1>1, <1>2, <1>3, <1>6

-----------------------------------------------------------------------------
(* Types.  TypeOK is inductive as it stands; its parts: *)
CacheTyped ==
    /\ roms \in Listings \cup {NoFile} /\ meta \in Metas
    /\ behind \subseteq Roms /\ unapplied \subseteq Roms
LinksTyped == links \in [Dests -> {Nothing, UserFile, Foreign} \cup Targets]
ProcTyped == proc \in [Procs -> Processes]
LibTyped == lib \in Listings /\ nas \subseteq Names /\ up \in BOOLEAN

Tasks == {"none", "full", "incremental", "stale", "gamelist", "saves"}

LEMMA ListingsAre ==
    /\ \A l \in Listings : Listed(l) \subseteq Roms /\ \A r \in Listed(l) : l[r] \in Names
    /\ \A rs : \A old, names \in Listings : MergeById(old, names, rs) \in Listings
    /\ [r \in Roms |-> Gone] \in Listings
BY DEF Listings, Listed, MergeById

LEMMA IdleTyped ==
    ASSUME NEW task \in Tasks
    PROVE  Idle(task) \in Processes
<1>1. [r \in Roms |-> Gone] \in Listings /\ EmptyList \in Gamelists
  BY ListingsAre DEF EmptyList, Gamelists
<1> QED BY <1>1 DEF Idle, Processes, Labels, Tasks

LEMMA PutTyped ==
    ASSUME ProcTyped, NEW p \in Procs, NEW me \in Processes, proc' = [proc EXCEPT ![p] = me]
    PROVE  ProcTyped'
BY DEF ProcTyped

LEMMA EndedTyped ==
    ASSUME ProcTyped, NEW p \in Procs, Ended(p)
    PROVE  ProcTyped'
<1>1. proc[p].task \in Tasks
  BY DEF ProcTyped, Processes, Tasks
<1>2. PICK task \in Tasks : proc' = [proc EXCEPT ![p] = Idle(task)]
  <2>1. proc' = [proc EXCEPT ![p] = Idle(IF p = Timer /\ ~proc[p].failed THEN proc[p].task ELSE "none")]
    BY DEF Ended, ProcTyped
  <2> QED BY <1>1, <2>1 DEF Tasks
<1> QED BY <1>2, IdleTyped, PutTyped

LEMMA GotoTyped ==
    ASSUME ProcTyped, NEW p \in Procs, NEW label \in Labels, Goto(p, label)
    PROVE  ProcTyped'
BY DEF ProcTyped, Processes, Goto

LEMMA AfterCachingTyped ==
    ASSUME ProcTyped, NEW p \in Procs, AfterCaching(p)
    PROVE  ProcTyped'
<1>1. Ended(p) \/ Goto(p, "finishing") \/ Goto(p, "listed")
  BY DEF AfterCaching
<1> QED BY <1>1, EndedTyped, GotoTyped DEF Labels

(* The cache. *)
LEMMA CacheKept ==
    ASSUME CacheTyped
    PROVE  /\ UNCHANGED cacheVars => CacheTyped'
           /\ SetLastApplied => CacheTyped'
           /\ (\E renewed \in BOOLEAN : MaybeStamp(renewed)) => CacheTyped'
           /\ \A l \in Listings : SetData(l) => CacheTyped'
           /\ \A l \in Listings, full \in BOOLEAN : SetMeta(l, full) => CacheTyped'
           /\ \A ids \in SUBSET Roms : UpdateIds(ids) => CacheTyped'
           /\ CacheInvalidate => CacheTyped'
           /\ Expire => CacheTyped'
           /\ \A r \in Roms : Stamped(r) => CacheTyped'
<1> USE DEF CacheTyped, Metas
<1>1. UNCHANGED cacheVars => CacheTyped'
  BY DEF cacheVars
<1>2. SetLastApplied => CacheTyped'
  BY DEF SetLastApplied
<1>3. (\E renewed \in BOOLEAN : MaybeStamp(renewed)) => CacheTyped'
  <2> HIDE DEF CacheTyped
  <2> QED BY <1>1, <1>2 DEF MaybeStamp
<1>4. \A l \in Listings : SetData(l) => CacheTyped'
  BY DEF SetData
<1>5. \A l \in Listings, full \in BOOLEAN : SetMeta(l, full) => CacheTyped'
  BY ListingsAre DEF SetMeta
<1>6. \A ids \in SUBSET Roms : UpdateIds(ids) => CacheTyped'
  BY DEF UpdateIds
<1>7. CacheInvalidate => CacheTyped'
  BY DEF CacheInvalidate
<1>8. Expire => CacheTyped'
  BY DEF Expire
<1>9. \A r \in Roms : Stamped(r) => CacheTyped'
  BY DEF Stamped
<1> HIDE DEF CacheTyped
<1> QED BY <1>1, <1>2, <1>3, <1>4, <1>5, <1>6, <1>7, <1>8, <1>9

(* The entries. *)
LEMMA LinksKept ==
    ASSUME LinksTyped
    PROVE  /\ \A op \in Targets : SymlinkTo(op) => LinksTyped'
           /\ \A d \in Dests : Unlink(d) => LinksTyped'
           /\ UNCHANGED links => LinksTyped'
BY TargetsAre DEF LinksTyped, SymlinkTo, Unlink

(* Steps that touch no entry. *)
LEMMA LinksStay ==
    ASSUME NEW p \in Procs, Begin(p) \/ Step(p) \/ Fail(p) \/ Crash(p),
           ~UnlinkOld(p), ~MakeLink(p), ~Remove(p)
    PROVE  UNCHANGED links
BY DEF Begin, Step, Fail, Crash, ListRoms, ListDelta, ListIdentifiers, WriteData, WriteMeta, PlanLinks,
       PlanRemovals, Evaluate, CheckLink, WritePlaylist, CheckRemoval, Recheck, RemoveTree, Applied,
       MergeDeltaIntoCache, FinishSync, PlanDeleted, ReadGamelist, TruncateGamelist, WriteGamelist,
       WriteFails, ApplyFails, FinishFails, OnlyProc, OnlyCache, linkVars

-----------------------------------------------------------------------------
(* What the steps make of a process has the type of one. *)
LEMMA ListRomsTyped ==
    ASSUME ProcTyped, CacheTyped, LibTyped, NEW p \in Procs,
           NEW task \in {"full", "gamelist", "saves"}, ListRoms(p, task)
    PROVE  ProcTyped'
<1>1. Idle(task) \in Processes
  BY IdleTyped DEF Tasks
<1>2. CASE CacheHit /\ proc' = [proc EXCEPT ![p] = [Idle(task) EXCEPT
                !.pc = IF task = "saves" THEN "idle" ELSE "listed",
                !.task = IF task = "saves" THEN "none" ELSE task,
                !.got = IF task = "saves" THEN @ ELSE roms]]
  <2>1. roms \in Listings
    BY <1>2 DEF CacheTyped, CacheHit
  <2> DEFINE me == [Idle(task) EXCEPT
                !.pc = IF task = "saves" THEN "idle" ELSE "listed",
                !.task = IF task = "saves" THEN "none" ELSE task,
                !.got = IF task = "saves" THEN @ ELSE roms]
  <2>2. Idle(task).got \in Listings
    BY <1>1 DEF Processes
  <2>3. (IF task = "saves" THEN Idle(task).got ELSE roms) \in Listings
    BY <2>1, <2>2
  <2>4. me \in Processes
    BY <1>1, <2>3 DEF Processes, Labels
  <2> QED BY <1>2, <2>4, PutTyped
<1>3. CASE CanUpdate /\ proc' = [proc EXCEPT ![p] = [Idle(task) EXCEPT
                !.pc = "caching", !.got = MergeById(roms, lib, Delta(behind))]]
  <2>1. MergeById(roms, lib, Delta(behind)) \in Listings
    BY <1>3, ListingsAre DEF CacheTyped, LibTyped, CanUpdate
  <2>2. [Idle(task) EXCEPT !.pc = "caching", !.got = MergeById(roms, lib, Delta(behind))] \in Processes
    BY <1>1, <2>1 DEF Processes, Labels
  <2> QED BY <1>3, <2>2, PutTyped
<1>4. CASE proc' = [proc EXCEPT ![p] = [Idle(task) EXCEPT !.pc = "caching", !.got = lib, !.full = TRUE]]
  <2>1. [Idle(task) EXCEPT !.pc = "caching", !.got = lib, !.full = TRUE] \in Processes
    BY <1>1 DEF Processes, Labels, LibTyped
  <2> QED BY <1>4, <2>1, PutTyped
<1> QED BY <1>2, <1>3, <1>4 DEF ListRoms

LEMMA ListDeltaTyped ==
    ASSUME ProcTyped, CacheTyped, LibTyped, NEW p \in Procs, ListDelta(p)
    PROVE  ProcTyped'
<1> DEFINE rs == Delta(unapplied)
           got == [r \in Roms |-> IF r \in rs THEN lib[r] ELSE Gone]
<1>1. rs \subseteq Roms /\ got \in Listings
  BY DEF Delta, CacheTyped, LibTyped, Listings
<1>2. Idle("incremental") \in Processes
  BY IdleTyped DEF Tasks
<1>3. proc' = [proc EXCEPT ![p] = [Idle("incremental") EXCEPT
            !.pc = IF rs = {} THEN "finishing" ELSE "listed", !.rs = rs, !.got = got]]
  BY DEF ListDelta
<1> HIDE DEF rs, got
<1>4. [Idle("incremental") EXCEPT !.pc = IF rs = {} THEN "finishing" ELSE "listed",
            !.rs = rs, !.got = got] \in Processes
  BY <1>1, <1>2 DEF Processes, Labels
<1> QED BY <1>3, <1>4, PutTyped

LEMMA ListIdentifiersTyped ==
    ASSUME ProcTyped, CacheTyped, LibTyped, NEW p \in Procs, ListIdentifiers(p)
    PROVE  ProcTyped'
<1>1. meta.ids \in SUBSET Roms
  BY DEF ListIdentifiers, CacheTyped, Metas
<1>2. Idle("stale") \in Processes
  BY IdleTyped DEF Tasks
<1>3. [Idle("stale") EXCEPT !.pc = "checking", !.got = lib, !.rs = meta.ids \ Listed(lib)] \in Processes
  BY <1>1, <1>2 DEF Processes, Labels, LibTyped
<1> QED BY <1>3, PutTyped DEF ListIdentifiers

LEMMA PlanLinksTyped ==
    ASSUME ProcTyped, NEW p \in Procs, PlanLinks(p)
    PROVE  ProcTyped'
<1> DEFINE me == proc[p]
           todo == LinkPlan(me.got, IF me.task = "full" THEN Roms ELSE me.rs)
           m3u == IF me.task = "full" THEN PlaylistPlan(me.got) ELSE {}
<1>1. me \in Processes
  BY DEF ProcTyped
<1>2. me.got \in Listings
  BY <1>1 DEF Processes
<1>3. todo \subseteq Targets
  BY <1>2, PlanTargets
<1>4. m3u \subseteq Names
  BY <1>2, ListingsAre DEF PlaylistPlan
<1>5. proc' = [proc EXCEPT ![p] = [me EXCEPT !.pc = "planning", !.todo = todo, !.m3u = m3u]]
  BY DEF PlanLinks
<1> HIDE DEF me, todo, m3u
<1>6. [me EXCEPT !.pc = "planning", !.todo = todo, !.m3u = m3u] \in Processes
  BY <1>1, <1>3, <1>4 DEF Processes, Labels
<1> QED BY <1>5, <1>6, PutTyped

LEMMA PlanRemovalsTyped ==
    ASSUME ProcTyped, NEW p \in Procs, PlanRemovals(p)
    PROVE  ProcTyped'
<1>1. PICK reachable \in {up, TRUE}, orphan \in {"no", "todo", "forced"} :
            proc' = [proc EXCEPT ![p] = [proc[p] EXCEPT
                    !.pc = "applying",
                    !.got = IF proc[p].task = "full" THEN Idle("none").got ELSE @,
                    !.rm = IF proc[p].task = "full" THEN StaleRemovals(proc[p].todo, reachable)
                           ELSE BrokenLinkCleanup(proc[p].todo, reachable),
                    !.orphan = orphan]]
  BY DEF PlanRemovals
<1> DEFINE me == proc[p]
           got == IF me.task = "full" THEN Idle("none").got ELSE me.got
           rm == IF me.task = "full" THEN StaleRemovals(me.todo, reachable)
                 ELSE BrokenLinkCleanup(me.todo, reachable)
<1>2. me \in Processes
  BY DEF ProcTyped
<1>3. got \in Listings
  BY <1>2, ListingsAre DEF Processes, Idle
<1>4. rm \subseteq Dests
  BY DEF StaleRemovals, BrokenLinkCleanup
<1>5. proc' = [proc EXCEPT ![p] = [me EXCEPT !.pc = "applying", !.got = got, !.rm = rm, !.orphan = orphan]]
  BY <1>1
<1> HIDE DEF me, got, rm
<1>6. [me EXCEPT !.pc = "applying", !.got = got, !.rm = rm, !.orphan = orphan] \in Processes
  BY <1>2, <1>3, <1>4 DEF Processes, Labels
<1> QED BY <1>5, <1>6, PutTyped

LEMMA EvaluateTyped ==
    ASSUME ProcTyped, NEW p \in Procs, Evaluate(p)
    PROVE  ProcTyped'
<1> DEFINE me == proc[p]
           acts(op) == IF Action(op) = "none" THEN me.acts ELSE me.acts \cup {<<op, Action(op)>>}
<1>1. me \in Processes
  BY DEF ProcTyped
<1>2. PICK op \in me.todo : proc' = [proc EXCEPT ![p] = [me EXCEPT !.todo = me.todo \ {op}, !.acts = acts(op)]]
  BY DEF Evaluate
<1>3. Action(op) \in {"none", "create", "replace"}
  BY DEF Action
<1>4. op \in Targets /\ acts(op) \subseteq Targets \X Stages
  BY <1>1, <1>3 DEF Processes, Stages
<1> HIDE DEF me, acts
<1>5. [me EXCEPT !.todo = me.todo \ {op}, !.acts = acts(op)] \in Processes
  BY <1>1, <1>4 DEF Processes
<1> QED BY <1>2, <1>5, PutTyped

LEMMA CheckLinkTyped ==
    ASSUME ProcTyped, NEW p \in Procs, CheckLink(p)
    PROVE  ProcTyped'
<1>1. proc[p] \in Processes
  BY DEF ProcTyped
<1>2. PICK act \in proc[p].acts :
            proc' = [proc EXCEPT ![p] = [proc[p] EXCEPT
                !.acts = (proc[p].acts \ {act}) \cup {<<act[1], AfterCheck(act[1][2])>>}]]
  BY DEF CheckLink
<1>3. act[1] \in Targets /\ AfterCheck(act[1][2]) \in Stages
  BY <1>1 DEF Processes, AfterCheck, Stages
<1>4. [proc[p] EXCEPT !.acts = (proc[p].acts \ {act}) \cup {<<act[1], AfterCheck(act[1][2])>>}] \in Processes
  BY <1>1, <1>3 DEF Processes
<1> QED BY <1>2, <1>4, PutTyped

LEMMA UnlinkOldTyped ==
    ASSUME ProcTyped, NEW p \in Procs, UnlinkOld(p)
    PROVE  ProcTyped'
<1>1. proc[p] \in Processes
  BY DEF ProcTyped
<1>2. PICK act \in proc[p].acts : \E gone \in BOOLEAN :
            proc' = [proc EXCEPT ![p] = [proc[p] EXCEPT
                !.acts = (proc[p].acts \ {act}) \cup (IF gone THEN {} ELSE {<<act[1], "create">>}),
                !.failed = proc[p].failed \/ gone]]
  BY DEF UnlinkOld
<1>3. PICK gone \in BOOLEAN :
            proc' = [proc EXCEPT ![p] = [proc[p] EXCEPT
                !.acts = (proc[p].acts \ {act}) \cup (IF gone THEN {} ELSE {<<act[1], "create">>}),
                !.failed = proc[p].failed \/ gone]]
  BY <1>2
<1> DEFINE acts == (proc[p].acts \ {act}) \cup (IF gone THEN {} ELSE {<<act[1], "create">>})
           failed == proc[p].failed \/ gone
<1>4. acts \subseteq Targets \X Stages
  BY <1>1 DEF Processes, Stages
<1>5. failed \in BOOLEAN
  OBVIOUS
<1>6. proc' = [proc EXCEPT ![p] = [proc[p] EXCEPT !.acts = acts, !.failed = failed]]
  BY <1>3
<1> HIDE DEF acts, failed
<1>7. [proc[p] EXCEPT !.acts = acts, !.failed = failed] \in Processes
  BY <1>1, <1>4, <1>5 DEF Processes
<1> QED BY <1>6, <1>7, PutTyped

(* An operation is over. *)
LEMMA OperationOver ==
    ASSUME ProcTyped, NEW p \in Procs, MakeLink(p) \/ ApplyFails(p)
    PROVE  \/ \E act \in proc[p].acts, failed \in BOOLEAN :
                proc' = [proc EXCEPT ![p] = [proc[p] EXCEPT !.acts = proc[p].acts \ {act}, !.failed = failed]]
           \/ proc' = [proc EXCEPT ![p] = [proc[p] EXCEPT !.cut = {}, !.failed = TRUE]]
<1>1. CASE MakeLink(p)
  <2>1. PICK act \in proc[p].acts :
            proc' = [proc EXCEPT ![p] = [proc[p] EXCEPT
                !.acts = proc[p].acts \ {act}, !.failed = proc[p].failed \/ links[act[1][2]] # Nothing]]
    BY <1>1 DEF MakeLink
  <2>2. (proc[p].failed \/ links[act[1][2]] # Nothing) \in BOOLEAN
    OBVIOUS
  <2> QED BY <2>1, <2>2
<1>2. CASE ApplyFails(p)
  BY <1>2 DEF ApplyFails
<1> QED BY <1>1, <1>2

LEMMA OverTyped ==
    ASSUME ProcTyped, NEW p \in Procs, MakeLink(p) \/ ApplyFails(p)
    PROVE  ProcTyped'
<1>1. proc[p] \in Processes
  BY DEF ProcTyped
<1>2. \A act \in proc[p].acts, failed \in BOOLEAN :
            [proc[p] EXCEPT !.acts = proc[p].acts \ {act}, !.failed = failed] \in Processes
  BY <1>1 DEF Processes
<1>3. [proc[p] EXCEPT !.cut = {}, !.failed = TRUE] \in Processes
  BY <1>1 DEF Processes
<1> QED BY <1>2, <1>3, OperationOver, PutTyped

LEMMA WorkTyped ==
    ASSUME ProcTyped, NEW p \in Procs,
           WritePlaylist(p) \/ CheckRemoval(p) \/ Remove(p) \/ Recheck(p) \/ RemoveTree(p)
    PROVE  ProcTyped'
<1>1. proc[p] \in Processes
  BY DEF ProcTyped
<1>2. CASE WritePlaylist(p)
  BY <1>1, <1>2 DEF WritePlaylist, ProcTyped, Processes
<1>3. CASE CheckRemoval(p)
  <2>1. PICK d \in proc[p].rm : proc' = [proc EXCEPT ![p] = [proc[p] EXCEPT
            !.rm = proc[p].rm \ {d}, !.cut = {e \in {d} : IsSymlink(links[e])}]]
    BY <1>3 DEF CheckRemoval
  <2>2. {e \in {d} : IsSymlink(links[e])} \subseteq Dests
    BY <1>1 DEF Processes
  <2> HIDE DEF IsSymlink
  <2>3. [proc[p] EXCEPT !.rm = proc[p].rm \ {d}, !.cut = {e \in {d} : IsSymlink(links[e])}] \in Processes
    BY <1>1, <2>2 DEF Processes
  <2> QED BY <2>1, <2>3, PutTyped
<1>4. CASE Remove(p)
  <2>1. PICK failed \in BOOLEAN :
            proc' = [proc EXCEPT ![p] = [proc[p] EXCEPT !.cut = {}, !.failed = failed]]
    <3>1. PICK d \in proc[p].cut : proc' = [proc EXCEPT ![p] = [proc[p] EXCEPT
                !.cut = {}, !.failed = proc[p].failed \/ links[d] = Nothing]]
      BY <1>4 DEF Remove
    <3>2. (proc[p].failed \/ links[d] = Nothing) \in BOOLEAN
      OBVIOUS
    <3> QED BY <3>1, <3>2
  <2>2. [proc[p] EXCEPT !.cut = {}, !.failed = failed] \in Processes
    BY <1>1 DEF Processes
  <2> QED BY <2>1, <2>2, PutTyped
<1>5. CASE Recheck(p)
  BY <1>1, <1>5 DEF Recheck, ProcTyped, Processes
<1>6. CASE RemoveTree(p)
  BY <1>1, <1>6 DEF RemoveTree, ProcTyped, Processes
<1> QED BY <1>2, <1>3, <1>4, <1>5, <1>6

LEMMA MergingTyped ==
    ASSUME ProcTyped, CacheTyped, NEW p \in Procs, MergeDeltaIntoCache(p)
    PROVE  ProcTyped'
<1>1. proc[p] \in Processes
  BY DEF ProcTyped
<1>2. CASE roms = NoFile
  <2>1. [proc[p] EXCEPT !.pc = "finishing"] \in Processes
    BY <1>1 DEF Processes, Labels
  <2> QED BY <1>2, <2>1, PutTyped DEF MergeDeltaIntoCache
<1>3. CASE roms # NoFile
  <2>1. MergeById(roms, proc[p].got, proc[p].rs) \in Listings
    BY <1>1, <1>3, ListingsAre DEF CacheTyped, Processes
  <2>2. [proc[p] EXCEPT !.pc = "caching", !.got = MergeById(roms, proc[p].got, proc[p].rs)] \in Processes
    BY <1>1, <2>1 DEF Processes, Labels
  <2> QED BY <1>3, <2>2, PutTyped DEF MergeDeltaIntoCache
<1> QED BY <1>2, <1>3

LEMMA PlanDeletedTyped ==
    ASSUME ProcTyped, NEW p \in Procs, PlanDeleted(p)
    PROVE  ProcTyped'
<1> DEFINE me == proc[p]
           rm == IF me.rs = {} THEN {} ELSE DeletedRemovals(roms, me.rs)
<1>1. me \in Processes
  BY DEF ProcTyped
<1>2. rm \subseteq Dests
  BY DEF DeletedRemovals
<1>3. Ended(p) \/ proc' = [proc EXCEPT ![p] = [me EXCEPT !.pc = "applying", !.rm = rm]]
  BY DEF PlanDeleted
<1> HIDE DEF me, rm
<1>4. [me EXCEPT !.pc = "applying", !.rm = rm] \in Processes
  BY <1>1, <1>2 DEF Processes, Labels
<1> QED BY <1>3, <1>4, PutTyped, EndedTyped

LEMMA ReadGamelistTyped ==
    ASSUME ProcTyped, glist \in Gamelists, NEW p \in Procs, ReadGamelist(p)
    PROVE  ProcTyped'
<1> DEFINE me == proc[p]
           xml == IF me.task = "gamelist" THEN MergeFull(me.got) ELSE MergeDelta(me.got, me.rs)
<1>1. me \in Processes
  BY DEF ProcTyped
<1>2. xml \in Gamelists
  BY DEF MergeFull, MergeDelta, MergeGame, Gamelists
<1>3. me.task \in Tasks
  BY <1>1 DEF Processes, Tasks
<1>4. Idle(me.task) \in Processes
  BY <1>3, IdleTyped
<1>5. Ended(p) \/ proc' = [proc EXCEPT ![p] = [Idle(me.task) EXCEPT !.pc = "truncating", !.xml = xml]]
  BY DEF ReadGamelist
<1> HIDE DEF me, xml
<1>6. [Idle(me.task) EXCEPT !.pc = "truncating", !.xml = xml] \in Processes
  BY <1>2, <1>4 DEF Processes, Labels
<1> QED BY <1>5, <1>6, PutTyped, EndedTyped

-----------------------------------------------------------------------------
(* What the commands do to each part of the types. *)
RestTyped ==
    /\ scene \in Scenes /\ LibTyped /\ left \in Nat
    /\ playlists \subseteq Names /\ folder \in Folders
    /\ glist \in Gamelists /\ owed \subseteq Paths /\ late \in BOOLEAN /\ risked \subseteq Dests

LEMMA TypeParts ==
    /\ TypeOK <=> RestTyped /\ CacheTyped /\ LinksTyped /\ ProcTyped
    /\ TypeOK' <=> RestTyped' /\ CacheTyped' /\ LinksTyped' /\ ProcTyped'
BY DEF TypeOK, RestTyped, LibTyped, CacheTyped, LinksTyped, ProcTyped

LEMMA CommandsProc ==
    ASSUME TypeOK, NEW p \in Procs, Begin(p) \/ Step(p) \/ Fail(p) \/ Crash(p)
    PROVE  ProcTyped'
<1> USE TypeParts DEF RestTyped
<1>1. CASE Begin(p)
  BY <1>1, ListRomsTyped, ListDeltaTyped, ListIdentifiersTyped DEF Begin
<1>2. CASE WriteData(p)
  BY <1>2, GotoTyped DEF WriteData, Labels
<1>3. CASE WriteMeta(p) \/ WriteFails(p)
  BY <1>3, AfterCachingTyped DEF WriteMeta, WriteFails
<1>4. CASE PlanLinks(p) \/ PlanRemovals(p) \/ Evaluate(p) \/ CheckLink(p) \/ UnlinkOld(p)
          \/ MakeLink(p) \/ ApplyFails(p)
  BY <1>4, PlanLinksTyped, PlanRemovalsTyped, EvaluateTyped, CheckLinkTyped, UnlinkOldTyped, OverTyped
<1>5. CASE WritePlaylist(p) \/ CheckRemoval(p) \/ Remove(p) \/ Recheck(p) \/ RemoveTree(p)
  BY <1>5, WorkTyped
<1>6. CASE Applied(p)
  <2>1. Ended(p) \/ Goto(p, "finishing") \/ Goto(p, "merging")
    BY <1>6 DEF Applied
  <2> QED BY <2>1, EndedTyped, GotoTyped DEF Labels
<1>7. CASE MergeDeltaIntoCache(p) \/ PlanDeleted(p) \/ ReadGamelist(p)
  BY <1>7, MergingTyped, PlanDeletedTyped, ReadGamelistTyped
<1>8. CASE FinishSync(p) \/ TruncateGamelist(p) \/ WriteGamelist(p)
  <2>1. Ended(p) \/ Goto(p, "entries") \/ Goto(p, "writing")
    BY <1>8 DEF FinishSync, TruncateGamelist, WriteGamelist
  <2> QED BY <2>1, EndedTyped, GotoTyped DEF Labels
<1>9. CASE Crash(p) \/ FinishFails(p)
  BY <1>9, IdleTyped, PutTyped DEF Crash, FinishFails, Tasks
<1> QED BY <1>1, <1>2, <1>3, <1>4, <1>5, <1>6, <1>7, <1>8, <1>9 DEF Step, Fail

LEMMA CommandsCache ==
    ASSUME TypeOK, NEW p \in Procs, Begin(p) \/ Step(p) \/ Fail(p) \/ Crash(p)
    PROVE  CacheTyped'
<1>1. CacheTyped /\ proc[p] \in Processes
  BY TypeParts DEF ProcTyped
<1>2. proc[p].got \in Listings /\ proc[p].full \in BOOLEAN /\ Listed(proc[p].got) \in SUBSET Roms
  BY <1>1, ListingsAre DEF Processes
<1>3. CASE (\E renewed \in BOOLEAN : MaybeStamp(renewed)) \/ UNCHANGED cacheVars
  BY <1>1, <1>3, CacheKept
<1>4. CASE WriteData(p)
  BY <1>1, <1>2, <1>4, CacheKept DEF WriteData
<1>5. CASE WriteMeta(p)
  BY <1>1, <1>2, <1>5, CacheKept DEF WriteMeta
<1>6. CASE Applied(p)
  BY <1>1, <1>2, <1>6, CacheKept DEF Applied
<1>7. CASE FinishSync(p)
  BY <1>1, <1>7, CacheKept DEF FinishSync
<1>8. CASE Begin(p) \/ Fail(p) \/ Crash(p)
  BY <1>3, <1>8 DEF Begin, ListRoms, ListDelta, ListIdentifiers, Fail, WriteFails, ApplyFails,
                    FinishFails, Crash
<1>9. CASE PlanLinks(p) \/ PlanRemovals(p) \/ Evaluate(p) \/ CheckLink(p) \/ UnlinkOld(p)
          \/ MakeLink(p) \/ WritePlaylist(p) \/ CheckRemoval(p) \/ Remove(p)
  BY <1>3, <1>9 DEF PlanLinks, PlanRemovals, Evaluate, CheckLink, UnlinkOld, MakeLink, WritePlaylist,
                    CheckRemoval, Remove, OnlyProc, OnlyLinks
<1>10. CASE Recheck(p) \/ RemoveTree(p) \/ MergeDeltaIntoCache(p) \/ PlanDeleted(p)
          \/ ReadGamelist(p) \/ TruncateGamelist(p) \/ WriteGamelist(p)
  BY <1>3, <1>10 DEF Recheck, RemoveTree, MergeDeltaIntoCache, PlanDeleted, ReadGamelist,
                     TruncateGamelist, WriteGamelist, OnlyProc
<1> QED BY <1>4, <1>5, <1>6, <1>7, <1>8, <1>9, <1>10 DEF Step

LEMMA CommandsLinks ==
    ASSUME TypeOK, NEW p \in Procs, Begin(p) \/ Step(p) \/ Fail(p) \/ Crash(p)
    PROVE  LinksTyped'
<1>1. LinksTyped /\ proc[p] \in Processes
  BY TypeParts DEF ProcTyped
<1>2. \A act \in proc[p].acts : act[1] \in Targets /\ act[1][2] \in Dests
  <2>1. proc[p].acts \subseteq Targets \X Stages
    BY <1>1 DEF Processes
  <2> QED BY <2>1, TargetsAre
<1>3. CASE UnlinkOld(p)
  BY <1>1, <1>2, <1>3, LinksKept DEF UnlinkOld
<1>4. CASE MakeLink(p)
  BY <1>1, <1>2, <1>4, LinksKept DEF MakeLink
<1>5. CASE Remove(p)
  <2>1. proc[p].cut \subseteq Dests
    BY <1>1 DEF Processes
  <2> QED BY <1>1, <1>5, <2>1, LinksKept DEF Remove
<1> QED BY <1>1, <1>3, <1>4, <1>5, LinksStay, LinksKept

LEMMA CommandsRest ==
    ASSUME TypeOK, owed' \subseteq Paths, NEW p \in Procs, Begin(p) \/ Step(p) \/ Fail(p) \/ Crash(p)
    PROVE  RestTyped'
<1>1. RestTyped /\ proc[p] \in Processes
  BY TypeParts DEF ProcTyped
<1> USE <1>1 DEF RestTyped, LibTyped, libVars, linkVars, Event
<1>2. CASE Begin(p)
  BY <1>2 DEF Begin, ListRoms, ListDelta, ListIdentifiers
<1>3. CASE Fail(p) \/ Crash(p)
  <2>1. CASE WriteFails(p)
    BY <2>1 DEF WriteFails
  <2>2. CASE ApplyFails(p)
    <3>1. /\ UNCHANGED <<scene, lib, nas, up, playlists, folder, glist, owed, late, risked>>
          /\ left > 0 /\ left' = left - 1
      BY <2>2 DEF ApplyFails
    <3> QED BY <3>1
  <2>3. CASE FinishFails(p)
    BY <2>3 DEF FinishFails
  <2>4. CASE Crash(p)
    BY <2>4 DEF Crash
  <2> QED BY <1>3, <2>1, <2>2, <2>3, <2>4 DEF Fail
<1>4. CASE WritePlaylist(p)
  <2>1. proc[p].m3u \subseteq Names
    BY DEF Processes
  <2> QED BY <1>4, <2>1 DEF WritePlaylist
<1>5. CASE TruncateGamelist(p) \/ WriteGamelist(p)
  <2>1. EmptyList \in Gamelists /\ proc[p].xml \in Gamelists
    BY DEF Processes, EmptyList, Gamelists
  <2> QED BY <1>5, <2>1 DEF TruncateGamelist, WriteGamelist
<1>6. CASE RemoveTree(p)
  BY <1>6 DEF RemoveTree, Folders
<1>7. CASE WriteData(p) \/ WriteMeta(p) \/ PlanLinks(p) \/ PlanRemovals(p) \/ Evaluate(p)
          \/ CheckLink(p) \/ UnlinkOld(p) \/ MakeLink(p) \/ CheckRemoval(p) \/ Remove(p)
          \/ Recheck(p) \/ Applied(p)
  BY <1>7 DEF WriteData, WriteMeta, PlanLinks, PlanRemovals, Evaluate, CheckLink, UnlinkOld, MakeLink,
              CheckRemoval, Remove, Recheck, Applied, OnlyProc, OnlyLinks, OnlyCache
<1>8. CASE MergeDeltaIntoCache(p) \/ FinishSync(p) \/ PlanDeleted(p) \/ ReadGamelist(p)
  BY <1>8 DEF MergeDeltaIntoCache, FinishSync, PlanDeleted, ReadGamelist, OnlyProc, OnlyCache
<1> QED BY <1>2, <1>3, <1>4, <1>5, <1>6, <1>7, <1>8 DEF Step

LEMMA OutsideTyped ==
    ASSUME TypeOK, owed' \subseteq Paths, Outside
    PROVE  TypeOK'
<1>1. RestTyped /\ CacheTyped /\ LinksTyped /\ ProcTyped
  BY TypeParts
<1>2. ProcTyped'
  BY <1>1, OutsideStays DEF ProcTyped
<1>3. CacheTyped'
  <2>1. scene.changing \subseteq Roms
    BY <1>1, ScenesAssumption DEF RestTyped, Scene
  <2>2. CASE RomChanges
    BY <1>1, <2>1, <2>2, CacheKept DEF RomChanges
  <2> QED BY <1>1, <2>2, CacheKept DEF Outside, NasFails, NasReturns, TtlPasses, User, UserLinks,
              UserKeeps, UserMarks, UserInvalidates
<1>4. LinksTyped'
  BY <1>1 DEF LinksTyped, Outside, RomChanges, NasFails, NasReturns, TtlPasses, User, UserLinks,
              UserKeeps, UserMarks, UserInvalidates, linkVars
<1>5. RestTyped'
  <2> USE <1>1 DEF RestTyped, LibTyped, libVars, linkVars, Event
  <2>1. CASE RomChanges
    BY <2>1 DEF RomChanges, Edit, Upsert, Delete, Listings
  <2>2. CASE NasFails \/ NasReturns \/ TtlPasses
    <3>1. CASE NasFails
      <4>1. up' \in BOOLEAN /\ lib' = lib /\ nas' = nas
        BY <3>1, Zenon DEF NasFails, Unmount
      <4>2. left' \in Nat
        BY <3>1 DEF NasFails
      <4> QED BY <3>1, <4>1, <4>2 DEF NasFails
    <3>2. CASE NasReturns
      BY <3>2 DEF NasReturns, Mount
    <3>3. CASE TtlPasses
      BY <3>3 DEF TtlPasses
    <3> QED BY <2>2, <3>1, <3>2, <3>3
  <2>3. CASE UserLinks \/ UserInvalidates
    BY <2>3 DEF UserLinks, UserInvalidates
  <2>4. CASE UserKeeps
    BY <2>4 DEF UserKeeps, Folders
  <2>5. CASE UserMarks
    BY <2>5 DEF UserMarks, Gamelists
  <2> QED BY <2>1, <2>2, <2>3, <2>4, <2>5 DEF Outside, User
<1> QED BY <1>2, <1>3, <1>4, <1>5, TypeParts

LEMMA NextTyped == TypeOK /\ [Next]_vars => TypeOK'
<1> SUFFICES ASSUME TypeOK, [Next]_vars PROVE TypeOK'
  OBVIOUS
<1>1. owed' \subseteq Paths
  <2>1. Shape
    BY DEF TypeOK, Processes, Shape, Fields
  <2> QED BY <2>1, OwedPaths DEF TypeOK
<1>2. CASE UNCHANGED vars
  BY <1>2 DEF TypeOK, vars, libVars, cacheVars, linkVars
<1>3. CASE Outside
  BY <1>1, <1>3, OutsideTyped
<1>4. ASSUME NEW p \in Procs, Begin(p) \/ Step(p) \/ Fail(p) \/ Crash(p) PROVE TypeOK'
  BY <1>1, <1>4, CommandsProc, CommandsCache, CommandsLinks, CommandsRest, TypeParts
<1> QED BY <1>2, <1>3, <1>4 DEF Next

LEMMA InitTyped == Init => TypeOK
<1> SUFFICES ASSUME Init PROVE TypeOK
  OBVIOUS
<1>1. scene \in Scene
  BY ScenesAssumption DEF Init
<1>2. lib \in Listings /\ left \in Nat /\ nas \subseteq Names
  BY <1>1, ListingsAre DEF Init, Scene
<1>3. CacheTyped
  BY DEF Init, CacheInit, CacheTyped, Metas
<1>4. ProcTyped
  BY IdleTyped DEF Init, ProcTyped, Tasks
<1>5. LinksTyped
  BY DEF Init, LinksTyped
<1>6. RestTyped
  BY <1>2 DEF Init, RestTyped, LibTyped, EmptyList, Gamelists, Folders
<1> QED BY <1>3, <1>4, <1>5, <1>6, TypeParts

(* Type correctness of the library's commands (BifrostCache, symlink_manager.py,
   gamelist.py, as cli.py composes them). *)
THEOREM TypesHold == Spec => []TypeOK
BY InitTyped, NextTyped, PTL DEF Spec

-----------------------------------------------------------------------------
(* What a process has in hand: what is left of a plan, and nothing to carry out
   before the plan is worked on.  Where it is about to unlink, a file of the user
   is one that came since it looked. *)
InHand(me) == me.todo \cup {act[1] : act \in me.acts}
Aims(me) == me.cut \cup {act[1][2] : act \in {a \in me.acts : a[2] = "unlink"}}
AimsOK(me) == \A d \in Dests : d \in Aims(me) /\ links[d] = UserFile => d \in risked
HandOK(me) ==
    /\ Distinct(InHand(me))
    /\ me.pc # "applying" => me.acts = {}
    /\ AimsOK(me)
HandInv == TypeOK /\ \A p \in Procs : HandOK(proc[p])

LEMMA Fewer ==
    ASSUME NEW ops, NEW less, Distinct(ops), less \subseteq ops
    PROVE  Distinct(less)
BY DEF Distinct

LEMMA EmptyHand ==
    ASSUME NEW me, me.todo = {}, me.acts = {}, me.cut = {}
    PROVE  HandOK(me)
BY DEF HandOK, InHand, Distinct, AimsOK, Aims

LEMMA SameHand ==
    ASSUME NEW old, NEW me, HandOK(old), me.todo = old.todo, me.acts = old.acts, me.cut = old.cut,
           me.pc = old.pc \/ old.pc # "applying" \/ old.acts = {}
    PROVE  HandOK(me)
BY DEF HandOK, InHand, AimsOK, Aims

(* A hand that holds no more, and aims at nothing new of the user's. *)
LEMMA LessHand ==
    ASSUME NEW old, NEW me, HandOK(old), me.pc = "applying", InHand(me) \subseteq InHand(old),
           \A d \in Dests : d \in Aims(me) => d \in Aims(old) \/ links[d] # UserFile
    PROVE  HandOK(me)
BY Fewer DEF HandOK, AimsOK

LEMMA PutHand ==
    ASSUME HandInv, NEW p \in Procs, NEW me, HandOK(me), proc' = [proc EXCEPT ![p] = me]
    PROVE  \A q \in Procs : HandOK(proc'[q])
BY DEF HandInv, TypeOK

LEMMA EndedHand ==
    ASSUME HandInv, NEW p \in Procs, Ended(p)
    PROVE  \A q \in Procs : HandOK(proc'[q])
<1>1. PICK task : proc' = [proc EXCEPT ![p] = Idle(task)]
  BY DEF Ended, HandInv, TypeOK
<1>2. HandOK(Idle(task))
  BY EmptyHand DEF Idle
<1> QED BY <1>1, <1>2, PutHand

LEMMA GotoHand ==
    ASSUME HandInv, NEW p \in Procs, NEW label, Goto(p, label),
           proc[p].pc # "applying" \/ proc[p].acts = {}
    PROVE  \A q \in Procs : HandOK(proc'[q])
<1> DEFINE me == [proc[p] EXCEPT !.pc = label]
<1>1. proc[p] \in Processes /\ HandOK(proc[p])
  BY DEF HandInv, TypeOK
<1>2. me.todo = proc[p].todo /\ me.acts = proc[p].acts /\ me.cut = proc[p].cut
  BY <1>1 DEF Processes
<1>3. proc' = [proc EXCEPT ![p] = me]
  BY DEF Goto, HandInv, TypeOK
<1> HIDE DEF me
<1>4. HandOK(me)
  BY <1>1, <1>2, SameHand
<1> QED BY <1>3, <1>4, PutHand

(* A command begins, or reads its list, with nothing in hand. *)
LEMMA BeginHand ==
    ASSUME HandInv, NEW p \in Procs, Begin(p)
    PROVE  \A q \in Procs : HandOK(proc'[q])
<1>1. ASSUME NEW task, ListRoms(p, task) PROVE \E me : HandOK(me) /\ proc' = [proc EXCEPT ![p] = me]
  <2> DEFINE A == [Idle(task) EXCEPT
                !.pc = IF task = "saves" THEN "idle" ELSE "listed",
                !.task = IF task = "saves" THEN "none" ELSE task,
                !.got = IF task = "saves" THEN @ ELSE roms]
             B == [Idle(task) EXCEPT !.pc = "caching", !.got = MergeById(roms, lib, Delta(behind))]
             C == [Idle(task) EXCEPT !.pc = "caching", !.got = lib, !.full = TRUE]
  <2>1. HandOK(A) /\ HandOK(B) /\ HandOK(C)
    BY EmptyHand DEF Idle
  <2> QED BY <1>1, <2>1 DEF ListRoms
<1>2. ASSUME ListDelta(p) PROVE \E me : HandOK(me) /\ proc' = [proc EXCEPT ![p] = me]
  <2> DEFINE rs == Delta(unapplied)
             me == [Idle("incremental") EXCEPT !.pc = IF rs = {} THEN "finishing" ELSE "listed",
                        !.rs = rs, !.got = [r \in Roms |-> IF r \in rs THEN lib[r] ELSE Gone]]
  <2>1. HandOK(me)
    BY EmptyHand DEF Idle
  <2> QED BY <1>2, <2>1 DEF ListDelta
<1>3. ASSUME ListIdentifiers(p) PROVE \E me : HandOK(me) /\ proc' = [proc EXCEPT ![p] = me]
  <2> DEFINE me == [Idle("stale") EXCEPT !.pc = "checking", !.got = lib, !.rs = meta.ids \ Listed(lib)]
  <2>1. HandOK(me)
    BY EmptyHand DEF Idle
  <2> QED BY <1>3, <2>1 DEF ListIdentifiers
<1> QED BY <1>1, <1>2, <1>3, PutHand DEF Begin

LEMMA ReadGamelistHand ==
    ASSUME HandInv, NEW p \in Procs, ReadGamelist(p)
    PROVE  \A q \in Procs : HandOK(proc'[q])
<1> DEFINE New(xml) == [Idle(proc[p].task) EXCEPT !.pc = "truncating", !.xml = xml]
<1>1. Ended(p) \/ \E xml : proc' = [proc EXCEPT ![p] = New(xml)]
  BY DEF ReadGamelist
<1>2. \A xml : HandOK(New(xml))
  <2> SUFFICES ASSUME NEW xml PROVE HandOK(New(xml))
    OBVIOUS
  <2> QED BY EmptyHand DEF Idle
<1> QED BY <1>1, <1>2, EndedHand, PutHand

(* A plan is taken in hand as a whole, by hands that carry nothing out. *)
LEMMA PlanLinksHand ==
    ASSUME HandInv, NEW p \in Procs, PlanLinks(p)
    PROVE  \A q \in Procs : HandOK(proc'[q])
<1> DEFINE todo == LinkPlan(proc[p].got, IF proc[p].task = "full" THEN Roms ELSE proc[p].rs)
           m3u == IF proc[p].task = "full" THEN PlaylistPlan(proc[p].got) ELSE {}
           me == [proc[p] EXCEPT !.pc = "planning", !.todo = todo, !.m3u = m3u]
<1>1. proc[p] \in Processes /\ proc[p].acts = {} /\ AimsOK(proc[p])
  BY DEF HandInv, TypeOK, HandOK, PlanLinks, At
<1>2. proc' = [proc EXCEPT ![p] = me]
  BY DEF PlanLinks
<1>3. proc[p].got \in Listings
  BY <1>1 DEF Processes
<1>4. Distinct(todo)
  BY <1>3, PlanFits
<1> HIDE DEF todo, m3u
<1>5. me.todo = todo /\ me.acts = {} /\ me.cut = proc[p].cut /\ me.pc = "planning"
  BY <1>1 DEF Processes
<1> HIDE DEF me
<1>6. InHand(me) = todo /\ Aims(me) = Aims(proc[p])
  BY <1>1, <1>5 DEF InHand, Aims
<1>7. HandOK(me)
  BY <1>1, <1>4, <1>5, <1>6 DEF HandOK, AimsOK
<1> QED BY <1>2, <1>7, PutHand

LEMMA EvaluateHand ==
    ASSUME HandInv, NEW p \in Procs, Evaluate(p)
    PROVE  \A q \in Procs : HandOK(proc'[q])
<1> DEFINE acts(op) == IF Action(op) = "none" THEN proc[p].acts ELSE proc[p].acts \cup {<<op, Action(op)>>}
<1>1. PICK op \in proc[p].todo :
            proc' = [proc EXCEPT ![p] = [proc[p] EXCEPT !.todo = proc[p].todo \ {op}, !.acts = acts(op)]]
  BY DEF Evaluate
<1> DEFINE me == [proc[p] EXCEPT !.todo = proc[p].todo \ {op}, !.acts = acts(op)]
<1>2. proc[p] \in Processes /\ HandOK(proc[p]) /\ proc[p].pc = "applying"
  BY DEF HandInv, TypeOK, Evaluate, At
<1>3. \A act \in acts(op) : act \in proc[p].acts \/ (act[1] = op /\ act[2] # "unlink")
  BY DEF Action
<1> HIDE DEF acts
<1>4. /\ me.todo = proc[p].todo \ {op} /\ me.acts = acts(op)
      /\ me.cut = proc[p].cut /\ me.pc = "applying"
  BY <1>2 DEF Processes
<1> HIDE DEF me
<1>5. InHand(me) \subseteq InHand(proc[p]) /\ Aims(me) \subseteq Aims(proc[p])
  BY <1>3, <1>4 DEF InHand, Aims
<1>6. HandOK(me)
  BY <1>2, <1>4, <1>5, LessHand
<1> QED BY <1>1, <1>6, PutHand DEF me

(* What is to be unlinked was a symlink at the look. *)
LEMMA CheckLinkHand ==
    ASSUME HandInv, NEW p \in Procs, CheckLink(p)
    PROVE  \A q \in Procs : HandOK(proc'[q])
<1>1. PICK act \in proc[p].acts :
            proc' = [proc EXCEPT ![p] = [proc[p] EXCEPT
                !.acts = (proc[p].acts \ {act}) \cup {<<act[1], AfterCheck(act[1][2])>>}]]
  BY DEF CheckLink
<1> DEFINE me == [proc[p] EXCEPT
                !.acts = (proc[p].acts \ {act}) \cup {<<act[1], AfterCheck(act[1][2])>>}]
<1>2. proc[p] \in Processes /\ HandOK(proc[p]) /\ proc[p].pc = "applying"
  BY DEF HandInv, TypeOK, CheckLink, At
<1>3. /\ me.todo = proc[p].todo /\ me.cut = proc[p].cut /\ me.pc = "applying"
      /\ me.acts = (proc[p].acts \ {act}) \cup {<<act[1], AfterCheck(act[1][2])>>}
  BY <1>2 DEF Processes
<1> HIDE DEF me
<1>4. AfterCheck(act[1][2]) = "unlink" => links[act[1][2]] # UserFile
  BY LinksAssumption DEF AfterCheck, IsSymlink
<1>5. InHand(me) \subseteq InHand(proc[p])
  BY <1>3 DEF InHand
<1>6. \A d \in Dests : d \in Aims(me) => d \in Aims(proc[p]) \/ links[d] # UserFile
  BY <1>3, <1>4 DEF Aims
<1>7. HandOK(me)
  BY <1>2, <1>3, <1>5, <1>6, LessHand
<1> QED BY <1>1, <1>7, PutHand DEF me

LEMMA UnlinkOldHand ==
    ASSUME HandInv, NEW p \in Procs, UnlinkOld(p)
    PROVE  \A q \in Procs : HandOK(proc'[q])
<1> DEFINE New(act, gone, failed) == [proc[p] EXCEPT
                !.acts = (proc[p].acts \ {act}) \cup (IF gone THEN {} ELSE {<<act[1], "create">>}),
                !.failed = failed]
<1>1. PICK act \in proc[p].acts : \E gone, failed : proc' = [proc EXCEPT ![p] = New(act, gone, failed)]
  BY DEF UnlinkOld
<1>2. PICK gone, failed : proc' = [proc EXCEPT ![p] = New(act, gone, failed)]
  BY <1>1
<1> DEFINE me == New(act, gone, failed)
<1>3. proc[p] \in Processes /\ HandOK(proc[p]) /\ proc[p].pc = "applying"
  BY DEF HandInv, TypeOK, UnlinkOld, At
<1>4. /\ me.todo = proc[p].todo /\ me.cut = proc[p].cut /\ me.pc = "applying"
      /\ me.acts \subseteq (proc[p].acts \ {act}) \cup {<<act[1], "create">>}
  BY <1>3 DEF Processes
<1>5. proc' = [proc EXCEPT ![p] = me]
  BY <1>2
<1> HIDE DEF me
<1>6. InHand(me) \subseteq InHand(proc[p])
  BY <1>4 DEF InHand
<1>7. Aims(me) \subseteq Aims(proc[p])
  BY <1>4 DEF Aims
<1>8. HandOK(me)
  BY <1>3, <1>4, <1>6, <1>7, LessHand
<1> QED BY <1>5, <1>8, PutHand

LEMMA OverHand ==
    ASSUME HandInv, NEW p \in Procs, MakeLink(p) \/ ApplyFails(p)
    PROVE  \A q \in Procs : HandOK(proc'[q])
<1> DEFINE Op(act, failed) == [proc[p] EXCEPT !.acts = proc[p].acts \ {act}, !.failed = failed]
           Removal == [proc[p] EXCEPT !.cut = {}, !.failed = TRUE]
<1>1. PICK me : /\ proc' = [proc EXCEPT ![p] = me]
                /\ me = Removal \/ \E act, failed : me = Op(act, failed)
  <2>1. ProcTyped
    BY TypeParts DEF HandInv
  <2>2. CASE proc' = [proc EXCEPT ![p] = Removal]
    BY <2>2
  <2>3. CASE \E act \in proc[p].acts, failed \in BOOLEAN : proc' = [proc EXCEPT ![p] = Op(act, failed)]
    <3>1. PICK act, failed : proc' = [proc EXCEPT ![p] = Op(act, failed)]
      BY <2>3
    <3> HIDE DEF Op
    <3> QED BY <3>1
  <2> QED BY <2>1, <2>2, <2>3, OperationOver
<1>2. proc[p] \in Processes /\ HandOK(proc[p]) /\ proc[p].pc = "applying"
  BY DEF HandInv, TypeOK, MakeLink, ApplyFails, At
<1>3. \A act, failed : /\ Op(act, failed).todo = proc[p].todo /\ Op(act, failed).acts \subseteq proc[p].acts
                       /\ Op(act, failed).cut = proc[p].cut /\ Op(act, failed).pc = "applying"
  BY <1>2 DEF Processes
<1>4. /\ Removal.todo = proc[p].todo /\ Removal.acts = proc[p].acts
      /\ Removal.cut = {} /\ Removal.pc = "applying"
  BY <1>2 DEF Processes
<1> HIDE DEF Op, Removal
<1>5. /\ me.todo = proc[p].todo /\ me.acts \subseteq proc[p].acts
      /\ me.cut \subseteq proc[p].cut /\ me.pc = "applying"
  BY <1>1, <1>3, <1>4
<1>6. InHand(me) \subseteq InHand(proc[p]) /\ Aims(me) \subseteq Aims(proc[p])
  BY <1>5 DEF InHand, Aims
<1>7. HandOK(me)
  BY <1>2, <1>5, <1>6, LessHand
<1> QED BY <1>1, <1>7, PutHand

LEMMA CheckRemovalHand ==
    ASSUME HandInv, NEW p \in Procs, CheckRemoval(p)
    PROVE  \A q \in Procs : HandOK(proc'[q])
<1>1. PICK d \in proc[p].rm : proc' = [proc EXCEPT ![p] = [proc[p] EXCEPT
            !.rm = proc[p].rm \ {d}, !.cut = {e \in {d} : IsSymlink(links[e])}]]
  BY DEF CheckRemoval
<1> DEFINE cut == {e \in {d} : IsSymlink(links[e])}
           me == [proc[p] EXCEPT !.rm = proc[p].rm \ {d}, !.cut = cut]
<1>2. proc[p] \in Processes /\ HandOK(proc[p]) /\ proc[p].pc = "applying"
  BY DEF HandInv, TypeOK, CheckRemoval, At
<1>3. \A e \in cut : links[e] # UserFile
  BY LinksAssumption DEF IsSymlink
<1> HIDE DEF cut
<1>4. me.todo = proc[p].todo /\ me.acts = proc[p].acts /\ me.cut = cut /\ me.pc = "applying"
  BY <1>2 DEF Processes
<1>5. proc' = [proc EXCEPT ![p] = me]
  BY <1>1 DEF cut
<1> HIDE DEF me
<1>6. InHand(me) = InHand(proc[p])
  BY <1>4 DEF InHand
<1>7. \A e \in Dests : e \in Aims(me) => e \in Aims(proc[p]) \/ links[e] # UserFile
  BY <1>3, <1>4 DEF Aims
<1>8. HandOK(me)
  BY <1>2, <1>4, <1>6, <1>7, LessHand
<1> QED BY <1>5, <1>8, PutHand

LEMMA RemoveHand ==
    ASSUME HandInv, NEW p \in Procs, Remove(p)
    PROVE  \A q \in Procs : HandOK(proc'[q])
<1> DEFINE New(failed) == [proc[p] EXCEPT !.cut = {}, !.failed = failed]
<1>1. PICK failed : proc' = [proc EXCEPT ![p] = New(failed)]
  BY DEF Remove
<1> DEFINE me == New(failed)
<1>2. proc[p] \in Processes /\ HandOK(proc[p]) /\ proc[p].pc = "applying"
  BY DEF HandInv, TypeOK, Remove, At
<1>3. me.todo = proc[p].todo /\ me.acts = proc[p].acts /\ me.cut = {} /\ me.pc = "applying"
  BY <1>2 DEF Processes
<1>4. proc' = [proc EXCEPT ![p] = me]
  BY <1>1
<1> HIDE DEF me
<1>5. InHand(me) = InHand(proc[p]) /\ Aims(me) \subseteq Aims(proc[p])
  BY <1>3 DEF InHand, Aims
<1>6. HandOK(me)
  BY <1>2, <1>3, <1>5, LessHand
<1> QED BY <1>4, <1>6, PutHand

(* The other steps leave it as it is. *)
LEMMA WorkHand ==
    ASSUME HandInv, NEW p \in Procs, WritePlaylist(p) \/ Recheck(p) \/ RemoveTree(p)
    PROVE  \A q \in Procs : HandOK(proc'[q])
<1>1. proc[p] \in Processes /\ HandOK(proc[p]) /\ proc \in [Procs -> Processes]
  BY DEF HandInv, TypeOK
<1>2. /\ proc'[p].todo = proc[p].todo /\ proc'[p].acts = proc[p].acts
      /\ proc'[p].cut = proc[p].cut /\ proc'[p].pc = proc[p].pc
      /\ \A q \in Procs \ {p} : proc'[q] = proc[q]
  BY <1>1 DEF WritePlaylist, Recheck, RemoveTree, Processes
<1> QED BY <1>1, <1>2, SameHand DEF HandInv

LEMMA PlanRemovalsHand ==
    ASSUME HandInv, NEW p \in Procs, PlanRemovals(p)
    PROVE  \A q \in Procs : HandOK(proc'[q])
<1> DEFINE New(got, rm, o) == [proc[p] EXCEPT !.pc = "applying", !.got = got, !.rm = rm, !.orphan = o]
<1>1. PICK got, rm, o : proc' = [proc EXCEPT ![p] = New(got, rm, o)]
  <2>1. PICK reachable \in {up, TRUE}, orphan \in {"no", "todo", "forced"} :
            proc' = [proc EXCEPT ![p] = [proc[p] EXCEPT
                    !.pc = "applying",
                    !.got = IF proc[p].task = "full" THEN Idle("none").got ELSE @,
                    !.rm = IF proc[p].task = "full" THEN StaleRemovals(proc[p].todo, reachable)
                           ELSE BrokenLinkCleanup(proc[p].todo, reachable),
                    !.orphan = orphan]]
    BY DEF PlanRemovals
  <2> QED BY <2>1
<1>2. proc[p] \in Processes /\ HandOK(proc[p]) /\ proc[p].pc = "planning"
  BY DEF HandInv, TypeOK, PlanRemovals, At
<1>3. /\ New(got, rm, o).todo = proc[p].todo /\ New(got, rm, o).acts = proc[p].acts
      /\ New(got, rm, o).cut = proc[p].cut
  BY <1>2 DEF Processes
<1>4. HandOK(New(got, rm, o))
  <2> HIDE DEF New
  <2> QED BY <1>2, <1>3, SameHand
<1> QED BY <1>1, <1>4, PutHand

LEMMA MergingHand ==
    ASSUME HandInv, NEW p \in Procs, MergeDeltaIntoCache(p)
    PROVE  \A q \in Procs : HandOK(proc'[q])
<1> DEFINE A == [proc[p] EXCEPT !.pc = "finishing"]
           B == [proc[p] EXCEPT !.pc = "caching", !.got = MergeById(roms, proc[p].got, proc[p].rs)]
<1>1. proc[p] \in Processes /\ HandOK(proc[p]) /\ proc[p].pc = "merging"
  BY DEF HandInv, TypeOK, MergeDeltaIntoCache, At
<1>2. proc' = [proc EXCEPT ![p] = A] \/ proc' = [proc EXCEPT ![p] = B]
  BY DEF MergeDeltaIntoCache
<1>3. /\ A.todo = proc[p].todo /\ A.acts = proc[p].acts /\ A.cut = proc[p].cut
      /\ B.todo = proc[p].todo /\ B.acts = proc[p].acts /\ B.cut = proc[p].cut
  BY <1>1 DEF Processes
<1>4. HandOK(A) /\ HandOK(B)
  <2> HIDE DEF A, B
  <2> QED BY <1>1, <1>3, SameHand
<1> QED BY <1>2, <1>4, PutHand

LEMMA PlanDeletedHand ==
    ASSUME HandInv, NEW p \in Procs, PlanDeleted(p)
    PROVE  \A q \in Procs : HandOK(proc'[q])
<1> DEFINE New(rm) == [proc[p] EXCEPT !.pc = "applying", !.rm = rm]
<1>1. Ended(p) \/ \E rm : proc' = [proc EXCEPT ![p] = New(rm)]
  BY DEF PlanDeleted
<1>2. proc[p] \in Processes /\ HandOK(proc[p]) /\ proc[p].pc = "checking"
  BY DEF HandInv, TypeOK, PlanDeleted, At
<1>3. \A rm : /\ New(rm).todo = proc[p].todo /\ New(rm).acts = proc[p].acts
              /\ New(rm).cut = proc[p].cut
  BY <1>2 DEF Processes
<1>4. \A rm : HandOK(New(rm))
  <2> HIDE DEF New
  <2> QED BY <1>2, <1>3, SameHand
<1> QED BY <1>1, <1>4, EndedHand, PutHand

LEMMA CommandsHand ==
    ASSUME HandInv, NEW p \in Procs, Begin(p) \/ Step(p) \/ Fail(p) \/ Crash(p)
    PROVE  \A q \in Procs : HandOK(proc'[q])
<1>1. proc[p].pc # "applying" => proc[p].acts = {}
  BY DEF HandInv, HandOK
<1>2. CASE WriteData(p)
  BY <1>2, GotoHand DEF WriteData, At
<1>3. CASE WriteMeta(p) \/ WriteFails(p)
  <2>1. proc[p].pc # "applying"
    BY <1>3 DEF WriteMeta, WriteFails, At
  <2>2. Ended(p) \/ Goto(p, "finishing") \/ Goto(p, "listed")
    BY <1>3 DEF WriteMeta, WriteFails, AfterCaching
  <2> QED BY <2>1, <2>2, EndedHand, GotoHand
<1>4. CASE Applied(p)
  <2>1. proc[p].acts = {} /\ (Ended(p) \/ Goto(p, "finishing") \/ Goto(p, "merging"))
    BY <1>4 DEF Applied
  <2> QED BY <2>1, EndedHand, GotoHand
<1>5. CASE FinishSync(p) \/ TruncateGamelist(p) \/ WriteGamelist(p)
  <2>1. proc[p].pc # "applying"
    BY <1>5 DEF FinishSync, TruncateGamelist, WriteGamelist, At
  <2>2. Ended(p) \/ Goto(p, "entries") \/ Goto(p, "writing")
    BY <1>5 DEF FinishSync, TruncateGamelist, WriteGamelist
  <2> QED BY <2>1, <2>2, EndedHand, GotoHand
<1>6. CASE Crash(p) \/ FinishFails(p)
  <2>1. proc' = [proc EXCEPT ![p] = Idle("none")]
    BY <1>6 DEF Crash, FinishFails
  <2>2. HandOK(Idle("none"))
    BY EmptyHand DEF Idle
  <2> QED BY <2>1, <2>2, PutHand
<1> QED BY <1>2, <1>3, <1>4, <1>5, <1>6, BeginHand, PlanLinksHand, PlanRemovalsHand, EvaluateHand,
           CheckLinkHand, UnlinkOldHand, OverHand, CheckRemovalHand, RemoveHand, WorkHand, MergingHand,
           PlanDeletedHand, ReadGamelistHand DEF Step, Fail

(* The steps of the commands that touch an entry: none makes a file of the
   user, and one that is not at an aim stays. *)
LEMMA CommandsEntries ==
    ASSUME TypeOK, NEW p \in Procs, Begin(p) \/ Step(p) \/ Fail(p) \/ Crash(p)
    PROVE  /\ UNCHANGED risked
           /\ \A d \in Dests : links'[d] = UserFile => links[d] = UserFile
           /\ \A d \in Dests : links[d] = UserFile => links'[d] = UserFile \/ d \in Aims(proc[p])
<1>1. LinksTyped /\ proc[p] \in Processes
  BY TypeParts DEF ProcTyped
<1>2. UNCHANGED risked
  BY DEF Begin, Step, Fail, Crash, ListRoms, ListDelta, ListIdentifiers, WriteData, WriteMeta,
         PlanLinks, PlanRemovals, Evaluate, CheckLink, UnlinkOld, MakeLink, WritePlaylist,
         CheckRemoval, Remove, Recheck, RemoveTree, Applied, MergeDeltaIntoCache, FinishSync,
         PlanDeleted, ReadGamelist, TruncateGamelist, WriteGamelist, WriteFails, ApplyFails,
         FinishFails, OnlyProc, OnlyLinks, OnlyCache
<1>3. \A act \in proc[p].acts : act[1] \in Targets
  BY <1>1 DEF Processes
<1>4. CASE UnlinkOld(p)
  <2>1. PICK act \in proc[p].acts : act[2] = "unlink" /\ Unlink(act[1][2])
    BY <1>4 DEF UnlinkOld
  <2>2. act[1][2] \in Aims(proc[p])
    BY <2>1 DEF Aims
  <2> QED BY <1>1, <1>2, <2>1, <2>2, LinksAssumption DEF Unlink, LinksTyped
<1>5. CASE MakeLink(p)
  <2>1. PICK act \in proc[p].acts : SymlinkTo(act[1])
    BY <1>5 DEF MakeLink
  <2> QED BY <1>1, <1>2, <1>3, <2>1, LinksAssumption DEF SymlinkTo, LinksTyped
<1>6. CASE Remove(p)
  <2>1. PICK d \in proc[p].cut : Unlink(d)
    BY <1>6 DEF Remove
  <2>2. d \in Aims(proc[p])
    BY <2>1 DEF Aims
  <2> QED BY <1>1, <1>2, <2>1, <2>2, LinksAssumption DEF Unlink, LinksTyped
<1> QED BY <1>2, <1>4, <1>5, <1>6, LinksStay

(* The user's steps: a file he puts where somebody aims is at risk. *)
LEMMA OutsideAims ==
    ASSUME HandInv, Outside, NEW p \in Procs
    PROVE  AimsOK(proc[p])'
<1>1. proc' = proc
  BY OutsideStays
<1>2. links \in [Dests -> {Nothing, UserFile, Foreign} \cup Targets] /\ AimsOK(proc[p])
  BY DEF HandInv, TypeOK, HandOK
<1>3. CASE UserLinks
  <2>1. PICK e \in Dests, v \in {Nothing, UserFile, Foreign} :
            /\ links' = [links EXCEPT ![e] = v]
            /\ risked' = IF v # UserFile THEN risked
                         ELSE IF \E q \in Procs : e \in Aims(proc[q]) THEN risked \cup {e}
                         ELSE risked \ {e}
    BY <1>3 DEF UserLinks, Unlinking, Aims
  <2> SUFFICES ASSUME NEW d \in Dests, d \in Aims(proc[p]), links'[d] = UserFile PROVE d \in risked'
    BY <1>1 DEF AimsOK
  <2>2. CASE d = e
    BY <1>2, <2>1, <2>2
  <2>3. CASE d # e
    BY <1>2, <2>1, <2>3 DEF AimsOK
  <2> QED BY <2>2, <2>3
<1>4. CASE ~UserLinks
  <2>1. UNCHANGED <<links, risked>>
    BY <1>4 DEF Outside, RomChanges, NasFails, NasReturns, TtlPasses, User, UserKeeps, UserMarks,
                UserInvalidates, linkVars
  <2> QED BY <1>1, <1>2, <2>1 DEF AimsOK
<1> QED BY <1>3, <1>4

LEMMA HandKept == HandInv /\ [Next]_vars => HandInv'
<1> SUFFICES ASSUME HandInv, [Next]_vars PROVE \A p \in Procs : HandOK(proc[p])'
  BY NextTyped DEF HandInv
<1>1. CASE UNCHANGED vars
  BY <1>1 DEF HandInv, HandOK, InHand, AimsOK, Aims, vars, linkVars
<1>2. CASE Outside
  BY <1>2, OutsideStays, OutsideAims DEF HandInv, HandOK, InHand
<1>3. ASSUME NEW p \in Procs, Begin(p) \/ Step(p) \/ Fail(p) \/ Crash(p), NEW q \in Procs
      PROVE  HandOK(proc[q])'
  <2>1. HandOK(proc'[q])
    BY <1>3, CommandsHand
  <2>2. UNCHANGED risked /\ \A d \in Dests : links'[d] = UserFile => links[d] = UserFile
    BY <1>3, CommandsEntries DEF HandInv
  <2> QED BY <2>1, <2>2 DEF HandOK, AimsOK
<1> QED BY <1>1, <1>2, <1>3 DEF Next

LEMMA HandsAreOK == Spec => []HandInv
<1>1. Init => HandInv
  <2> SUFFICES ASSUME Init PROVE \A p \in Procs : HandOK(proc[p])
    BY InitTyped DEF HandInv
  <2>1. HandOK(Idle("none"))
    BY EmptyHand DEF Idle
  <2> QED BY <2>1 DEF Init
<1> QED BY <1>1, HandKept, PTL DEF Spec

(* For any listing, NAS and number of ROMs, two operations a process has in
   hand for one name are never for game files of two folders (claimed in
   _rom_launch, symlink_manager.py:134-139): at most one ROM's own link is in
   the way of one. *)
THEOREM OneGameFileForAName == Spec => []OneGameFilePerName
<1>1. HandInv => OneGameFilePerName
  BY DEF HandInv, HandOK, InHand, Distinct, OneGameFilePerName
<1> QED BY <1>1, HandsAreOK, PTL

(* A file the user has put where a link belongs is removed only if it came after
   a command's look at the entry and before its unlink (apply_operation,
   apply_remove_operation; symlink_manager.py:693-695, 709-713), for any library,
   any number of commands and plans of any age. *)
THEOREM FilesStay == Spec => UsersFilesStay
<1>1. HandInv /\ [Next]_vars =>
        [(\E p \in Procs : Begin(p) \/ Step(p) \/ Fail(p)) =>
            \A d \in Dests : links[d] = UserFile => links'[d] = UserFile \/ d \in risked]_vars
  <2> SUFFICES ASSUME HandInv, NEW p \in Procs, Begin(p) \/ Step(p) \/ Fail(p),
                      NEW d \in Dests, links[d] = UserFile
               PROVE  links'[d] = UserFile \/ d \in risked
    OBVIOUS
  <2>1. links'[d] = UserFile \/ d \in Aims(proc[p])
    BY CommandsEntries DEF HandInv
  <2> QED BY <2>1 DEF HandInv, HandOK, AimsOK
<1> QED BY <1>1, HandsAreOK, PTL DEF Spec, UsersFilesStay

-----------------------------------------------------------------------------
(* Every link into the NAS stands under the name its target has. *)
LinksOwn == \A d \in Dests : links[d] \in Targets => links[d][2] = d

LEMMA StepsOwn ==
    ASSUME LinksTyped, LinksOwn
    PROVE  /\ \A op \in Targets : SymlinkTo(op) => LinksOwn'
           /\ \A d \in Dests : Unlink(d) => LinksOwn'
           /\ UNCHANGED links => LinksOwn'
BY LinksAssumption, TargetsAre DEF LinksTyped, LinksOwn, SymlinkTo, Unlink

LEMMA CommandsOwn ==
    ASSUME TypeOK, LinksOwn, NEW p \in Procs, Begin(p) \/ Step(p) \/ Fail(p) \/ Crash(p)
    PROVE  LinksOwn'
<1>1. LinksTyped /\ proc[p] \in Processes
  BY TypeParts DEF ProcTyped
<1>2. \A act \in proc[p].acts : act[1] \in Targets /\ act[1][2] \in Dests
  <2>1. proc[p].acts \subseteq Targets \X Stages
    BY <1>1 DEF Processes
  <2> QED BY <2>1, TargetsAre
<1>3. CASE UnlinkOld(p)
  BY <1>1, <1>2, <1>3, StepsOwn DEF UnlinkOld
<1>4. CASE MakeLink(p)
  BY <1>1, <1>2, <1>4, StepsOwn DEF MakeLink
<1>5. CASE Remove(p)
  <2>1. proc[p].cut \subseteq Dests
    BY <1>1 DEF Processes
  <2> QED BY <1>1, <1>5, <2>1, StepsOwn DEF Remove
<1> QED BY <1>1, <1>3, <1>4, <1>5, LinksStay, StepsOwn

LEMMA OutsideOwn ==
    ASSUME TypeOK, LinksOwn, Outside
    PROVE  LinksOwn'
<1>1. CASE UserLinks
  <2>1. LinksTyped
    BY TypeParts
  <2> QED BY <1>1, <2>1, LinksAssumption DEF UserLinks, LinksOwn, LinksTyped
<1>2. CASE ~UserLinks
  BY <1>2 DEF LinksOwn, Outside, RomChanges, NasFails, NasReturns, TtlPasses, User, UserKeeps,
              UserMarks, UserInvalidates, linkVars
<1> QED BY <1>1, <1>2

(* In a directory like that: what matches the plan is neither stale nor to be made. *)
LEMMA MatchingIsSettled ==
    ASSUME TypeOK, LinksOwn
    PROVE  SettledIsLeftAlone
<1> SUFFICES ASSUME roms # NoFile, up, LinksMatch
             PROVE  /\ StaleRemovals(LinkPlan(roms, Roms), TRUE) = {}
                    /\ \A op \in LinkPlan(roms, Roms) : Action(op) = "none"
  BY DEF SettledIsLeftAlone
<1> DEFINE ops == LinkPlan(roms, Roms)
<1>1. roms \in Listings
  BY DEF TypeOK
<1>2. ops = LinkPlan(roms, Listed(roms)) /\ ops \subseteq Targets
  BY <1>1, PlanOfListed, PlanTargets
<1> HIDE DEF ops
<1>3. /\ \A op \in ops : op[1] \in nas => links[op[2]] \in {op, UserFile}
      /\ ops # {} => \A d \in Dests : links[d] \in Targets =>
              /\ Exists(links[d])
              /\ links[d] \in ops \/ \E op \in ops : op[2] = d /\ op[1] \notin nas
  BY <1>2 DEF LinksMatch
<1>4. StaleRemovals(ops, TRUE) = {}
  <2> SUFFICES ASSUME NEW d \in StaleRemovals(ops, TRUE) PROVE FALSE
    OBVIOUS
  <2>1. /\ d \in Dests /\ ops # {} /\ IsSymlink(links[d])
        /\ IF \E op \in ops : op[2] = d THEN ~Exists(links[d]) ELSE ~Exists(links[d]) \/ links[d] \in Targets
    BY DEF StaleRemovals, IsBifrostSymlink
  <2>2. CASE links[d] \in Targets
    BY <1>3, <2>1, <2>2 DEF LinksOwn
  <2>3. CASE links[d] = Foreign
    BY <2>1, <2>3, LinksAssumption DEF Exists
  <2> QED BY <2>1, <2>2, <2>3 DEF IsSymlink
<1>5. \A op \in ops : Action(op) = "none"
  BY <1>3 DEF Action
<1> QED BY <1>4, <1>5 DEF ops

(* A directory that matches the cached listing is left alone by a full sync of
   it, for any listing, NAS and links of the user (plan_stale_removals and
   evaluate_operation agree). *)
THEOREM SettledStays == Spec => []SettledIsLeftAlone
<1>1. Init => LinksOwn
  BY LinksAssumption DEF Init, LinksOwn
<1>2. TypeOK /\ LinksOwn /\ [Next]_vars => LinksOwn'
  <2> SUFFICES ASSUME TypeOK, LinksOwn, [Next]_vars PROVE LinksOwn'
    OBVIOUS
  <2>1. CASE UNCHANGED vars
    BY <2>1 DEF LinksOwn, vars, linkVars
  <2>2. CASE Next
    BY <2>2, CommandsOwn, OutsideOwn DEF Next
  <2> QED BY <2>1, <2>2
<1>3. TypeOK /\ LinksOwn => SettledIsLeftAlone
  BY MatchingIsSettled
<1> QED BY <1>1, <1>2, <1>3, TypesHold, PTL DEF Spec
=============================================================================
