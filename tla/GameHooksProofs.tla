-------------------------- MODULE GameHooksProofs --------------------------
(***************************************************************************)
(* Proofs about GameHooks: types, the lock, the log of play sessions and   *)
(* the directories.                                                        *)
(***************************************************************************)
EXTENDS GameHooks, FiniteSetTheorems, TLAPS

-----------------------------------------------------------------------------
(* Processes. *)

(* p becomes me, and nobody else anything. *)
Becomes(p, me) ==
    /\ me \in Processes
    /\ proc'[p] = me
    /\ \A q \in Procs \ {p} : proc'[q] = proc[q]
    /\ proc' \in [Procs -> Processes]

LEMMA BecomeLemma ==
    ASSUME TypeOK, NEW p \in Procs, NEW me \in Processes, Become(p, me)
    PROVE  Becomes(p, me)
BY DEF TypeOK, Become, Becomes

LEMMA ProcessLemma ==
    ASSUME NEW label \in Labels, NEW s \in Sessions \cup {0}, NEW g \in Games \cup {NoGame}
    PROVE  Process(label, s, g) \in Processes
BY DEF Process, Processes, Entries, Archives, Contents, NoArchive, Maps

LEMMA IdleLemma == Idle \in Processes /\ Operated \in Processes
<1>1. "idle" \in Labels /\ "consuming" \in Labels
  BY DEF Labels
<1> QED BY <1>1, ProcessLemma DEF Idle, Operated

(* Whoever goes on at a label is otherwise what it was. *)
Alike(me, you) ==
    /\ me.s = you.s /\ me.g = you.g /\ me.op = you.op
    /\ me.dir = you.dir /\ me.blob = you.blob /\ me.got = you.got

LEMMA GotoLemma ==
    ASSUME TypeOK, NEW p \in Procs, NEW label \in Labels, Goto(p, label)
    PROVE  \E me : Becomes(p, me) /\ me.pc = label /\ Alike(me, proc[p])
<1>1. proc \in [Procs -> Processes] /\ proc[p] \in Processes
  BY DEF TypeOK
<1>2. proc' = [proc EXCEPT ![p] = [proc[p] EXCEPT !.pc = label]]
  BY <1>1 DEF Goto
<1>3. [proc[p] EXCEPT !.pc = label] \in Processes
  BY <1>1 DEF Processes
<1>4. Becomes(p, [proc[p] EXCEPT !.pc = label])
  BY <1>1, <1>2, <1>3 DEF Becomes
<1> QED BY <1>1, <1>4 DEF Processes, Alike

LEMMA EndsLemma ==
    ASSUME TypeOK, NEW p \in Procs, Ends(p)
    PROVE  Becomes(p, Idle) /\ lock' = (IF lock = p THEN Free ELSE lock)
BY IdleLemma, BecomeLemma DEF Ends

-----------------------------------------------------------------------------
(* What the steps of a process make of it. *)

(* The hook's record of the session. *)
LEMMA RecordMoves ==
    ASSUME TypeOK, NEW p \in Procs, proc[p].pc = "reading" => proc[p].s \in Sessions
    PROVE  /\ Truncate(p) => \E me : Becomes(p, me) /\ me.pc = "marking" /\ Alike(me, proc[p])
           /\ Mark(p) => \E me : Becomes(p, me) /\ me.pc = "surveying" /\ Alike(me, proc[p])
           /\ ReadStart(p) => \E me : Becomes(p, me) /\ me.pc = "reading" /\ Alike(me, proc[p])
           /\ ReadMarker(p) =>
                \/ \E me : /\ Becomes(p, me) /\ me.pc = "logging"
                           /\ me.s = proc[p].s /\ me.g = proc[p].g /\ me.op = proc[p].op
                           /\ \E x \in Sessions : x = marker[me.g] /\ me.got = {<<x, me.s>>}
                \/ \E me : /\ Becomes(p, me) /\ me.pc \in {"surveying", "unmarking"}
                           /\ Alike(me, proc[p])
           /\ Log(p) => \E me : /\ Becomes(p, me) /\ me.pc = "unmarking"
                                /\ me.s = proc[p].s /\ me.g = proc[p].g /\ me.op = proc[p].op
                                /\ me.got = {}
           /\ Unmark(p) => \E me : Becomes(p, me) /\ me.pc = "surveying" /\ Alike(me, proc[p])
<1> DEFINE old == proc[p]
<1>1. /\ proc \in [Procs -> Processes] /\ old \in Processes
      /\ {"marking", "surveying", "reading", "logging", "unmarking"} \subseteq Labels
  BY DEF TypeOK, Labels
<1>3. ASSUME ReadStart(p)
      PROVE  \E me : Becomes(p, me) /\ me.pc = "reading" /\ Alike(me, proc[p])
  <2> DEFINE t == SessionStart(proc[p].g)
             me == [old EXCEPT !.pc = "reading", !.start = t]
  <2>1. t \in Sessions \cup {0}
    BY DEF SessionStart
  <2>2. me \in Processes /\ me.pc = "reading" /\ Alike(me, old)
    <3> HIDE DEF t
    <3> QED BY <1>1, <2>1 DEF Processes, Alike
  <2>3. Become(p, me)
    BY <1>3 DEF ReadStart
  <2> QED BY <2>2, <2>3, BecomeLemma
<1>4. ASSUME ReadMarker(p), marker[proc[p].g] \in Sessions
      PROVE  \E me : /\ Becomes(p, me) /\ me.pc = "logging"
                     /\ me.s = proc[p].s /\ me.g = proc[p].g /\ me.op = proc[p].op
                     /\ \E x \in Sessions : x = marker[me.g] /\ me.got = {<<x, me.s>>}
  <2> DEFINE e == {<<marker[proc[p].g], old.s>>}
             me == [old EXCEPT !.pc = "logging", !.got = e]
  <2>1. e \in SUBSET Entries
    BY <1>4 DEF ReadMarker, At, Entries
  <2>2. /\ me \in Processes /\ me.pc = "logging" /\ me.got = e
        /\ me.s = proc[p].s /\ me.g = proc[p].g /\ me.op = proc[p].op
    <3> HIDE DEF e
    <3> QED BY <1>1, <2>1 DEF Processes
  <2>3. Become(p, me)
    BY <1>4 DEF ReadMarker
  <2> QED BY <1>4, <2>2, <2>3, BecomeLemma
<1>5. ASSUME Log(p)
      PROVE  \E me : /\ Becomes(p, me) /\ me.pc = "unmarking"
                     /\ me.s = proc[p].s /\ me.g = proc[p].g /\ me.op = proc[p].op
                     /\ me.got = {}
  <2> DEFINE me == [old EXCEPT !.pc = "unmarking", !.got = {}]
  <2>1. /\ me \in Processes /\ me.pc = "unmarking" /\ me.got = {}
        /\ me.s = proc[p].s /\ me.g = proc[p].g /\ me.op = proc[p].op
    BY <1>1 DEF Processes
  <2>2. Become(p, me)
    BY <1>5 DEF Log
  <2> QED BY <2>1, <2>2, BecomeLemma
<1>6. ASSUME ReadMarker(p), marker[proc[p].g] \notin Sessions
      PROVE  Goto(p, "surveying") \/ Goto(p, "unmarking")
  BY <1>6 DEF ReadMarker
<1>7. ASSUME Truncate(p) PROVE Goto(p, "marking")
  BY <1>7 DEF Truncate
<1>8. ASSUME Mark(p) \/ Unmark(p) PROVE Goto(p, "surveying")
  BY <1>8 DEF Mark, Unmark
<1> QED BY <1>1, <1>3, <1>4, <1>5, <1>6, <1>7, <1>8, GotoLemma

(* An error ends the record. *)
LEMMA RecordFailsMoves ==
    ASSUME TypeOK, NEW p \in Procs, RecordFails(p)
    PROVE  \E me : Becomes(p, me) /\ me.pc = "surveying" /\ me.op = proc[p].op /\ me.g = proc[p].g
<1> DEFINE me == [proc[p] EXCEPT !.pc = "surveying", !.got = {}]
<1>1. proc[p] \in Processes /\ Become(p, me)
  BY DEF TypeOK, RecordFails
<1>2. me \in Processes /\ me.pc = "surveying" /\ me.op = proc[p].op /\ me.g = proc[p].g
  BY <1>1 DEF Processes, Labels
<1> QED BY <1>1, <1>2, BecomeLemma

(* The survey and the map. *)
LEMMA SurveyMoves ==
    ASSUME TypeOK, NEW p \in Procs, Survey(p)
    PROVE  \E me : Becomes(p, me) /\ me.pc \in {"planning", "learning"} /\ Alike(me, proc[p])
<1> DEFINE old == proc[p]
           new == ChangedSince(old.start)
           mine == new \cup {d \in In(card) : dirMap[d] = old.g}
           label == IF new = {} THEN "planning" ELSE "learning"
           me == [old EXCEPT !.pc = label, !.learn = new, !.mine = mine]
<1>1. old \in Processes /\ label \in Labels /\ new \subseteq Dirs /\ mine \subseteq Dirs
  BY DEF TypeOK, Labels, ChangedSince, In
<1>2. Become(p, me)
  BY DEF Survey
<1>3. me \in Processes /\ me.pc \in {"planning", "learning"} /\ Alike(me, old)
  <2> HIDE DEF mine, new
  <2> QED BY <1>1 DEF Processes, Alike
<1> QED BY <1>2, <1>3, BecomeLemma

LEMMA LearntLemma ==
    ASSUME NEW me \in Processes, NEW d \in Dirs, me.op # "none" => me.op = "down"
    PROVE  /\ Learnt(me, d) \in Processes
           /\ \/ me.op = "down" /\ Learnt(me, d) = Operated
              \/ /\ Learnt(me, d).pc \in {"planning", "learning"} /\ Learnt(me, d).op = me.op
                 /\ Learnt(me, d).pc = "planning" => me.op = "none"
                 /\ Learnt(me, d).s = me.s /\ Learnt(me, d).g = me.g
                 /\ Learnt(me, d).got = me.got
<1> DEFINE learn == me.learn \ {d}
           label == IF me.learn = {d} THEN "planning" ELSE "learning"
           next == [me EXCEPT !.learn = learn, !.dir = NoDir, !.mem = Idle.mem, !.pc = label]
<1>1. CASE me.learn = {d} /\ me.op = "down"
  BY <1>1, IdleLemma DEF Learnt
<1>2. CASE ~(me.learn = {d} /\ me.op = "down")
  <2>1. Learnt(me, d) = next
    BY <1>2 DEF Learnt
  <2>2. label \in Labels /\ learn \subseteq Dirs /\ Idle.mem \in Maps
    BY IdleLemma DEF Labels, Processes
  <2>3. /\ next \in Processes /\ next.pc = label /\ next.op = me.op
        /\ next.s = me.s /\ next.g = me.g /\ next.got = me.got
    <3> HIDE DEF label, learn
    <3> QED BY <2>2 DEF Processes
  <2> QED BY <1>2, <2>1, <2>3 DEF Processes
<1> QED BY <1>1, <1>2

(* Who learns has no operation yet, or has downloaded. *)
Learns(me, you) ==
    \/ you.op = "down" /\ me = Operated
    \/ /\ me.pc \in {"planning", "learning", "mapping"}
       /\ me.pc = "planning" => me.op = "none"
       /\ me.pc = "mapping" => me.dir \in Dirs
       /\ me.s = you.s /\ me.g = you.g /\ me.op = you.op /\ me.got = you.got

LEMMA LearnMoves ==
    ASSUME TypeOK, NEW p \in Procs, proc[p].op # "none" => proc[p].op = "down",
           Learn(p) \/ (Remember(p) /\ proc[p].dir \in Dirs)
    PROVE  \E me : Becomes(p, me) /\ Learns(me, proc[p])
<1> DEFINE old == proc[p]
<1>1. old \in Processes /\ "mapping" \in Labels /\ dirMap \in Maps
  BY DEF TypeOK, Labels
<1>2. ASSUME NEW d \in Dirs, Become(p, Learnt(old, d))
      PROVE  \E me : Becomes(p, me) /\ Learns(me, old)
  <2>1. Learnt(old, d) \in Processes /\ Learns(Learnt(old, d), old)
    BY <1>1, LearntLemma DEF Learns
  <2> QED BY <1>2, <2>1, BecomeLemma
<1>3. ASSUME NEW d \in Dirs,
             Become(p, [old EXCEPT !.dir = d, !.mem = dirMap, !.pc = "mapping"])
      PROVE  \E me : Becomes(p, me) /\ Learns(me, old)
  <2> DEFINE me == [old EXCEPT !.dir = d, !.mem = dirMap, !.pc = "mapping"]
  <2>1. me \in Processes /\ Learns(me, old)
    BY <1>1 DEF Processes, Learns
  <2> QED BY <1>3, <2>1, BecomeLemma
<1>4. CASE Learn(p)
  <2>1. PICK d \in old.learn :
          \/ Become(p, Learnt(old, d))
          \/ Become(p, [old EXCEPT !.dir = d, !.mem = dirMap, !.pc = "mapping"])
    BY <1>4 DEF Learn
  <2>2. d \in Dirs
    BY <1>1 DEF Processes
  <2> QED BY <1>2, <1>3, <2>1, <2>2
<1>5. CASE Remember(p) /\ old.dir \in Dirs
  BY <1>2, <1>5 DEF Remember
<1> QED BY <1>4, <1>5

(* The plan and the lock. *)
LEMMA PlanMoves ==
    ASSUME TypeOK, NEW p \in Procs, Plan(p)
    PROVE  \E me : Becomes(p, me) /\ me.pc = "locking" /\ me.g = proc[p].g
<1> DEFINE old == proc[p]
<1>1. old \in Processes /\ "locking" \in Labels
  BY DEF TypeOK, Labels
<1>2. PICK op \in {"none", "up", "down"} :
        Become(p, [Process("locking", old.s, old.g) EXCEPT
                    !.op = op, !.mine = IF op = "up" THEN old.mine ELSE {}])
  BY DEF Plan
<1> DEFINE new == Process("locking", old.s, old.g)
           mine == IF op = "up" THEN old.mine ELSE {}
           me == [new EXCEPT !.op = op, !.mine = mine]
<1>3. old.s \in Sessions \cup {0} /\ old.g \in Games \cup {NoGame}
  BY <1>1 DEF Processes
<1>4. new \in Processes /\ mine \subseteq Dirs
  BY <1>1, <1>3, ProcessLemma DEF Processes
<1>5. new.pc = "locking" /\ new.g = old.g
  BY DEF Process
<1>6. Become(p, me)
  BY <1>2
<1>7. me \in Processes /\ me.pc = "locking" /\ me.g = old.g
  <2> HIDE DEF new, mine
  <2> QED BY <1>4, <1>5 DEF Processes
<1> QED BY <1>6, <1>7, BecomeLemma

LEMMA LockMoves ==
    ASSUME TypeOK, NEW p \in Procs, TryLock(p)
    PROVE  \/ /\ lock = Free /\ lock' = p
              /\ \E me : /\ Becomes(p, me)
                         /\ \/ me = Operated
                            \/ /\ me.pc \in {"uploading", "comparing"} /\ me.g = proc[p].g
                               /\ me.pc = "comparing" => me.op = "down"
           \/ Becomes(p, Idle) /\ lock' = (IF lock = p THEN Free ELSE lock)
<1> DEFINE old == proc[p]
<1>1. old \in Processes
  BY DEF TypeOK
<1>2. CASE lock # Free
  BY <1>2, EndsLemma DEF TryLock
<1>3. CASE lock = Free
  <2>1. lock' = p /\ Become(p, Locked(old))
    BY <1>3 DEF TryLock
  <2>2. \/ Locked(old) = Operated
        \/ \E label \in {"uploading", "comparing"} :
                /\ Locked(old) = [old EXCEPT !.pc = label]
                /\ label = "comparing" => old.op = "down"
    BY DEF Locked
  <2>3. ASSUME NEW label \in {"uploading", "comparing"}, Locked(old) = [old EXCEPT !.pc = label],
               label = "comparing" => old.op = "down"
        PROVE  /\ Locked(old) \in Processes /\ Locked(old).g = old.g
               /\ Locked(old).pc \in {"uploading", "comparing"}
               /\ Locked(old).pc = "comparing" => Locked(old).op = "down"
    <3>1. /\ [old EXCEPT !.pc = label] \in Processes /\ [old EXCEPT !.pc = label].g = old.g
          /\ [old EXCEPT !.pc = label].pc = label /\ [old EXCEPT !.pc = label].op = old.op
      BY <1>1 DEF Processes, Labels
    <3> QED BY <2>3, <3>1
  <2> QED BY <1>3, <2>1, <2>2, <2>3, IdleLemma, BecomeLemma
<1> QED BY <1>2, <1>3

(* The transfer. *)
LEMMA CompareMoves ==
    ASSUME TypeOK, NEW p \in Procs, proc[p].g \in Games, Compare(p)
    PROVE  \/ Becomes(p, Operated)
           \/ \E me : /\ Becomes(p, me) /\ me.pc = "clearing"
                      /\ me.g = proc[p].g /\ me.op = proc[p].op
                      /\ me.blob = bundles[proc[p].g]
<1> DEFINE old == proc[p]
           blob == bundles[old.g]
           me == [old EXCEPT !.pc = "clearing", !.blob = blob]
<1>1. old \in Processes /\ blob \in Archives
  BY DEF TypeOK
<1>2. Become(p, Operated) \/ Become(p, me)
  BY DEF Compare
<1>3. me \in Processes /\ me.pc = "clearing" /\ me.g = old.g /\ me.op = old.op /\ me.blob = blob
  <2> HIDE DEF blob
  <2> QED BY <1>1 DEF Processes, Labels
<1> QED BY <1>2, <1>3, IdleLemma, BecomeLemma

LEMMA ExtractMoves ==
    ASSUME TypeOK, NEW p \in Procs, Extract(p)
    PROVE  \E me : Becomes(p, me) /\ me.pc = "filling" /\ Alike(me, proc[p])
<1> DEFINE old == proc[p]
           me == [old EXCEPT !.pc = "filling", !.start = played]
<1>1. old \in Processes /\ played \in Sessions \cup {0}
  BY DEF TypeOK
<1>2. Become(p, me)
  BY DEF Extract
<1>3. me \in Processes /\ me.pc = "filling" /\ Alike(me, old)
  BY <1>1 DEF Processes, Labels, Alike
<1> QED BY <1>2, <1>3, BecomeLemma

LEMMA FillMoves ==
    ASSUME TypeOK, NEW p \in Procs, Fill(p)
    PROVE  \E me : /\ Becomes(p, me) /\ me.pc = "swapping"
                   /\ me.g = proc[p].g /\ me.op = proc[p].op
<1> DEFINE old == proc[p]
           dirs == In(old.blob)
           me == [old EXCEPT !.pc = "swapping", !.todo = dirs, !.learn = dirs,
                             !.blob = NoArchive]
<1>1. old \in Processes /\ dirs \subseteq Dirs /\ NoArchive \in Archives
  BY DEF TypeOK, In, NoArchive, Archives, Contents
<1>2. Become(p, me)
  BY DEF Fill
<1>3. me \in Processes /\ me.pc = "swapping" /\ me.g = old.g /\ me.op = old.op
  <2> HIDE DEF dirs
  <2> QED BY <1>1 DEF Processes, Labels
<1> QED BY <1>2, <1>3, BecomeLemma

LEMMA SwapMoves ==
    ASSUME TypeOK, NEW p \in Procs, Swap(p)
    PROVE  \E d \in Dirs : \E me :
                /\ Becomes(p, me) /\ me.g = proc[p].g /\ me.op = proc[p].op
                /\ \/ card[d] = NoDir /\ me.pc = "moving" /\ UNCHANGED bak
                   \/ card[d] # NoDir /\ me.pc = "backing" /\ RemoveBak(d)
                /\ me.dir = d
<1> DEFINE old == proc[p]
<1>1. old \in Processes
  BY DEF TypeOK
<1>2. PICK d \in old.todo :
        /\ IF card[d] = NoDir THEN UNCHANGED bak ELSE RemoveBak(d)
        /\ Become(p, [old EXCEPT !.dir = d, !.todo = @ \ {d},
                                 !.pc = IF card[d] = NoDir THEN "moving" ELSE "backing"])
  BY DEF Swap
<1> DEFINE todo == old.todo \ {d}
           label == IF card[d] = NoDir THEN "moving" ELSE "backing"
           me == [old EXCEPT !.dir = d, !.todo = todo, !.pc = label]
<1>3. d \in Dirs /\ todo \subseteq Dirs /\ label \in Labels
  BY <1>1 DEF Processes, Labels
<1>4. Become(p, me)
  BY <1>2
<1>5. me \in Processes /\ me.pc = label /\ me.dir = d /\ me.g = old.g /\ me.op = old.op
  <2> HIDE DEF todo, label
  <2> QED BY <1>1, <1>3 DEF Processes
<1>6. Becomes(p, me)
  BY <1>4, <1>5, BecomeLemma
<1> QED BY <1>2, <1>3, <1>5, <1>6

LEMMA MoveMoves ==
    ASSUME TypeOK, NEW p \in Procs, Move(p)
    PROVE  \/ Becomes(p, Operated)
           \/ \E me : /\ Becomes(p, me) /\ me.pc \in {"swapping", "learning"}
                      /\ me.g = proc[p].g /\ me.op = proc[p].op
<1> DEFINE old == proc[p]
           label == IF old.todo = {} THEN "learning" ELSE "swapping"
           me == [old EXCEPT !.dir = NoDir, !.pc = label]
<1>1. old \in Processes /\ label \in Labels
  BY DEF TypeOK, Labels
<1>2. Become(p, Operated) \/ Become(p, me)
  BY DEF Move
<1>3. me \in Processes /\ me.pc = label /\ me.g = old.g /\ me.op = old.op
  <2> HIDE DEF label
  <2> QED BY <1>1 DEF Processes
<1> QED BY <1>2, <1>3, IdleLemma, BecomeLemma

-----------------------------------------------------------------------------
(* The invariant of the types and the lock. *)

(* Who holds the lock: a transfer, what it has left to learn, a completion. *)
Holds(me) ==
    \/ me.pc \in {"uploading", "comparing", "clearing", "extracting", "filling", "swapping",
                  "backing", "moving", "consuming", "removing", "completing"}
    \/ me.pc \in {"learning", "mapping"} /\ me.op = "down"

(* What a process knows at each label. *)
Fit(me) ==
    /\ me.pc \in {"truncating", "marking", "ended", "reading", "logging", "unmarking",
                  "surveying", "planning"} => me.op = "none"
    /\ me.pc \in {"learning", "mapping"} => me.op # "up"
    /\ me.pc \in {"comparing", "clearing", "extracting", "filling", "swapping", "backing",
                  "moving"} => me.op = "down"
    /\ me.pc \notin {"idle", "consuming", "removing", "completing"} => me.g \in Games
    /\ me.pc \in {"truncating", "marking", "ended", "reading"} => me.s \in Sessions
    /\ me.pc \in {"mapping", "backing", "moving"} => me.dir \in Dirs

HooksInv ==
    /\ TypeOK
    /\ \A p \in Procs : Fit(proc[p]) /\ (Holds(proc[p]) => lock = p)
    /\ phase # "between" => played \in DOMAIN scene.plays

(* The other processes keep the lock if they held it. *)
Respects(p, me) ==
    /\ Holds(me) => lock' = p
    /\ \A q \in Procs \ {p} : lock = q => lock' = q

LEMMA RecordFits ==
    ASSUME HooksInv, NEW p \in Procs,
           \/ Truncate(p) \/ Mark(p) \/ ReadStart(p) \/ ReadMarker(p) \/ Log(p) \/ Unmark(p)
           \/ RecordFails(p)
    PROVE  \E me : Becomes(p, me) /\ Fit(me) /\ Respects(p, me)
<1>1. TypeOK /\ Fit(proc[p])
  BY DEF HooksInv
<1>2. UNCHANGED lock
  BY DEF Truncate, Mark, ReadStart, ReadMarker, Log, Unmark, RecordFails, OnlySessions, OnlyDirs, OnlyProc
<1>3. /\ proc[p].op = "none" /\ proc[p].g \in Games
      /\ Truncate(p) \/ ReadStart(p) => proc[p].s \in Sessions
      /\ proc[p].pc = "reading" => proc[p].s \in Sessions
  BY <1>1 DEF Truncate, Mark, ReadStart, ReadMarker, Log, Unmark, RecordFails, At, Fit
<1>4. PICK me : /\ Becomes(p, me) /\ me.op = proc[p].op /\ me.g = proc[p].g
                /\ me.pc \in {"marking", "surveying", "reading", "logging", "unmarking"}
                /\ me.pc \in {"marking", "reading"} => me.s \in Sessions
  BY <1>1, <1>3, RecordMoves, RecordFailsMoves DEF Alike
<1> QED BY <1>2, <1>3, <1>4 DEF Fit, Respects, Holds

LEMMA SurveyFits ==
    ASSUME HooksInv, NEW p \in Procs, Survey(p) \/ Learn(p) \/ Remember(p)
    PROVE  \E me : Becomes(p, me) /\ Fit(me) /\ Respects(p, me)
<1>1. TypeOK /\ Fit(proc[p]) /\ (Holds(proc[p]) => lock = p)
  BY DEF HooksInv
<1>2. UNCHANGED lock
  BY DEF Survey, Learn, Remember, OnlyDirs, OnlyProc
<1>3. CASE Survey(p)
  <2>1. proc[p].op = "none" /\ proc[p].g \in Games
    BY <1>1, <1>3 DEF Survey, At, Fit
  <2> QED BY <1>1, <1>2, <1>3, <2>1, SurveyMoves DEF Fit, Respects, Holds, Alike
<1>4. CASE Learn(p) \/ Remember(p)
  <2>1. /\ proc[p].op \in {"none", "down"} /\ proc[p].g \in Games
        /\ proc[p].pc \in {"learning", "mapping"} /\ (Remember(p) => proc[p].dir \in Dirs)
    BY <1>1, <1>4 DEF Learn, Remember, At, Fit, TypeOK, Processes
  <2>2. PICK me : Becomes(p, me) /\ Learns(me, proc[p])
    <3>1. proc[p].op # "none" => proc[p].op = "down"
      BY <2>1
    <3>2. Learn(p) \/ (Remember(p) /\ proc[p].dir \in Dirs)
      BY <1>4, <2>1
    <3> QED BY <1>1, <3>1, <3>2, LearnMoves
  <2>3. CASE proc[p].op = "down" /\ me = Operated
    BY <1>1, <1>2, <2>1, <2>2, <2>3 DEF Fit, Respects, Holds, Operated, Process
  <2>4. CASE ~(proc[p].op = "down" /\ me = Operated)
    <3>1. /\ me.pc \in {"planning", "learning", "mapping"}
          /\ me.pc = "planning" => me.op = "none"
          /\ me.pc = "mapping" => me.dir \in Dirs
          /\ me.g = proc[p].g /\ me.op = proc[p].op
      BY <2>2, <2>4 DEF Learns
    <3> QED BY <1>1, <1>2, <2>1, <2>2, <3>1 DEF Fit, Respects, Holds
  <2> QED BY <2>3, <2>4
<1> QED BY <1>3, <1>4

LEMMA PlanFits ==
    ASSUME HooksInv, NEW p \in Procs, Plan(p) \/ TryLock(p)
    PROVE  \E me : Becomes(p, me) /\ Fit(me) /\ Respects(p, me)
<1>1. TypeOK /\ Fit(proc[p]) /\ (Holds(proc[p]) => lock = p) /\ Free \notin Procs
  BY HooksAssumption DEF HooksInv
<1>2. proc[p].g \in Games
  BY <1>1 DEF Plan, TryLock, At, Fit
<1>3. CASE Plan(p)
  <2>1. UNCHANGED lock
    BY <1>3 DEF Plan, OnlyProc
  <2> QED BY <1>1, <1>2, <1>3, <2>1, PlanMoves DEF Fit, Respects, Holds
<1>4. CASE TryLock(p)
  <2>1. Fit(Idle) /\ ~Holds(Idle) /\ Fit(Operated)
    BY DEF Fit, Holds, Idle, Operated, Process
  <2>2. ASSUME Becomes(p, Idle), lock' = (IF lock = p THEN Free ELSE lock)
        PROVE  \E me : Becomes(p, me) /\ Fit(me) /\ Respects(p, me)
    BY <2>1, <2>2 DEF Respects
  <2>3. ASSUME lock = Free, lock' = p,
               NEW me, Becomes(p, me),
               \/ me = Operated
               \/ /\ me.pc \in {"uploading", "comparing"} /\ me.g = proc[p].g
                  /\ me.pc = "comparing" => me.op = "down"
        PROVE  Fit(me) /\ Respects(p, me)
    <3>1. Fit(me)
      BY <1>2, <2>1, <2>3 DEF Fit
    <3> QED BY <1>1, <2>3, <3>1 DEF Respects
  <2> QED BY <1>1, <1>4, <2>2, <2>3, LockMoves
<1> QED BY <1>3, <1>4

LEMMA OperatedFits == Fit(Operated) /\ Holds(Operated) /\ Fit(Idle) /\ ~Holds(Idle)
BY DEF Fit, Holds, Idle, Operated, Process

(* A step of the lock's holder that keeps the lock. *)
LEMMA TransferFits ==
    ASSUME HooksInv, NEW p \in Procs,
           \/ Upload(p) \/ Compare(p) \/ Clear(p) \/ Extract(p) \/ Fill(p)
           \/ Swap(p) \/ BackUp(p) \/ Move(p) \/ TransferFails(p)
    PROVE  \E me : Becomes(p, me) /\ Fit(me) /\ Respects(p, me)
<1>1. TypeOK /\ Fit(proc[p]) /\ (Holds(proc[p]) => lock = p)
  BY DEF HooksInv
<1>2. lock' = lock /\ lock = p
  BY <1>1 DEF Upload, Compare, Clear, Extract, Fill, Swap, BackUp, Move, TransferFails, RecordFails,
              OnlyDirs, OnlyProc, At, Holds, Transferring
<1>3. ASSUME Becomes(p, Operated)
      PROVE  \E me : Becomes(p, me) /\ Fit(me) /\ Respects(p, me)
  BY <1>2, <1>3, OperatedFits DEF Respects
<1>4. ASSUME NEW me, Becomes(p, me), me.op = "down", me.g \in Games,
             me.pc \in {"clearing", "extracting", "filling", "swapping", "backing", "moving",
                       "learning"},
             me.pc \in {"backing", "moving"} => me.dir \in Dirs
      PROVE  \E you : Becomes(p, you) /\ Fit(you) /\ Respects(p, you)
  BY <1>2, <1>4 DEF Fit, Respects
<1>5. CASE Upload(p) \/ TransferFails(p)
  BY <1>1, <1>3, <1>5, IdleLemma, BecomeLemma DEF Upload, TransferFails
<1>6. CASE \/ Compare(p) \/ Clear(p) \/ Extract(p) \/ Fill(p) \/ Swap(p) \/ BackUp(p) \/ Move(p)
  <2>1. proc[p].op = "down" /\ proc[p].g \in Games
    BY <1>1, <1>6 DEF Compare, Clear, Extract, Fill, Swap, BackUp, Move, At, Fit
  <2>2. CASE Compare(p)
    BY <1>1, <1>3, <1>4, <2>1, <2>2, CompareMoves
  <2>3. CASE Clear(p)
    <3>1. Goto(p, "extracting") /\ "extracting" \in Labels
      BY <2>3 DEF Clear, Labels
    <3> QED BY <1>1, <1>4, <2>1, <3>1, GotoLemma DEF Alike
  <2>4. CASE Extract(p)
    BY <1>1, <1>4, <2>1, <2>4, ExtractMoves DEF Alike
  <2>5. CASE Fill(p)
    BY <1>1, <1>4, <2>1, <2>5, FillMoves
  <2>6. CASE Swap(p)
    BY <1>1, <1>4, <2>1, <2>6, SwapMoves
  <2>7. CASE BackUp(p)
    <3>1. Goto(p, "moving") /\ "moving" \in Labels /\ proc[p].dir \in Dirs
      BY <1>1, <2>7 DEF BackUp, At, Fit, Labels
    <3> QED BY <1>1, <1>4, <2>1, <3>1, GotoLemma DEF Alike
  <2>8. CASE Move(p)
    BY <1>1, <1>3, <1>4, <2>1, <2>8, MoveMoves
  <2> QED BY <1>6, <2>2, <2>3, <2>4, <2>5, <2>6, <2>7, <2>8
<1> QED BY <1>5, <1>6

(* The end of a process frees its own lock only. *)
LEMMA EndsFits ==
    ASSUME HooksInv, NEW p \in Procs, Ends(p)
    PROVE  Becomes(p, Idle) /\ Fit(Idle) /\ Respects(p, Idle)
<1>1. TypeOK
  BY DEF HooksInv
<1> QED BY <1>1, OperatedFits, EndsLemma DEF Respects

LEMMA ConsumeMoves ==
    ASSUME TypeOK, NEW p \in Procs
    PROVE  /\ Consume(p) => \/ Ends(p)
                            \/ /\ UNCHANGED lock
                               /\ \E me : /\ Becomes(p, me) /\ me.pc = "removing"
                                          /\ me.got = pending
           /\ RemoveLog(p) \/ RemoveLogFails(p) =>
                  \E me : Becomes(p, me) /\ me.pc = "completing" /\ Alike(me, proc[p])
<1>1. ASSUME Consume(p), ~Ends(p)
      PROVE  \E me : Becomes(p, me) /\ me.pc = "removing" /\ me.got = pending
  <2> DEFINE new == Process("removing", 0, NoGame)
             me == [new EXCEPT !.got = pending]
  <2>1. new \in Processes /\ new.pc = "removing" /\ pending \in SUBSET Entries
    BY ProcessLemma DEF TypeOK, Labels, Process
  <2>2. me \in Processes /\ me.pc = "removing" /\ me.got = pending
    <3> HIDE DEF new
    <3> QED BY <2>1 DEF Processes
  <2>3. Become(p, me)
    BY <1>1 DEF Consume
  <2> QED BY <2>2, <2>3, BecomeLemma
<1>2. Consume(p) => Ends(p) \/ UNCHANGED lock
  BY DEF Consume
<1>3. RemoveLog(p) \/ RemoveLogFails(p) => Goto(p, "completing") /\ "completing" \in Labels
  BY DEF RemoveLog, RemoveLogFails, Labels
<1> QED BY <1>1, <1>2, <1>3, GotoLemma

LEMMA CompletionFits ==
    ASSUME HooksInv, NEW p \in Procs,
           \/ Consume(p) \/ RemoveLog(p) \/ RemoveLogFails(p)
           \/ Complete(p) \/ CompleteFails(p) \/ Crash(p)
    PROVE  \E me : Becomes(p, me) /\ Fit(me) /\ Respects(p, me)
<1>1. TypeOK /\ (Holds(proc[p]) => lock = p)
  BY DEF HooksInv
<1>2. CASE Ends(p)
  BY <1>2, EndsFits
<1>3. CASE ~Ends(p)
  <2>1. Consume(p) \/ RemoveLog(p) \/ RemoveLogFails(p)
    BY <1>3 DEF Complete, CompleteFails, Crash
  <2>2. lock' = lock /\ lock = p
    BY <1>1, <1>3, <2>1, ConsumeMoves
       DEF Consume, RemoveLog, RemoveLogFails, OnlySessions, At, Holds
  <2>3. PICK me : Becomes(p, me) /\ me.pc \in {"removing", "completing"}
    BY <1>1, <1>3, <2>1, ConsumeMoves
  <2> QED BY <2>2, <2>3 DEF Fit, Respects
<1> QED BY <1>2, <1>3

LEMMA StepFits ==
    ASSUME HooksInv, NEW p \in Procs, Step(p) \/ Fault(p)
    PROVE  \E me : Becomes(p, me) /\ Fit(me) /\ Respects(p, me)
BY RecordFits, SurveyFits, PlanFits, TransferFits, CompletionFits DEF Step, Fault

(* The types of everything but the processes. *)
SessionsTyped ==
    /\ marker \in [Games -> Sessions \cup {NoMarker, Torn}]
    /\ pending \subseteq Entries /\ received \subseteq Entries
    /\ ended \subseteq Entries /\ twice \subseteq Entries
    /\ kept \subseteq Entries /\ lost \subseteq Entries

DirsTyped ==
    /\ card \in Archives /\ bak \in Archives /\ staging \in Archives
    /\ changed \in [Dirs -> Sessions \cup {0}] /\ dirMap \in Maps
    /\ bundles \in [Games -> Archives]
    /\ had \subseteq Dirs /\ blurred \subseteq Dirs

GameTyped ==
    /\ scene \in Scenes /\ played \in Sessions \cup {0}
    /\ phase \in {"between", "starting", "playing"}
    /\ lock \in Procs \cup {Free} /\ left \in Nat

LEMMA Typed ==
    /\ TypeOK => SessionsTyped /\ DirsTyped /\ GameTyped
    /\ SessionsTyped /\ DirsTyped /\ GameTyped /\ proc \in [Procs -> Processes] => TypeOK
BY DEF TypeOK, SessionsTyped, DirsTyped, GameTyped

LEMMA SessionsStay == SessionsTyped /\ UNCHANGED sessionVars => SessionsTyped'
BY DEF SessionsTyped, sessionVars

LEMMA DirsStay == DirsTyped /\ UNCHANGED dirVars => DirsTyped'
BY DEF DirsTyped, dirVars

LEMMA StepSessionsTyped ==
    ASSUME HooksInv, NEW p \in Procs, Step(p) \/ Fault(p)
    PROVE  SessionsTyped'
<1>1. /\ SessionsTyped /\ Fit(proc[p]) /\ proc[p] \in Processes
      /\ proc[p].got \subseteq Entries
  BY Typed DEF HooksInv, TypeOK, Processes
<1>2. ASSUME NEW v \in Sessions \cup {NoMarker, Torn}, SetMarker(proc[p].g, v)
      PROVE  SessionsTyped'
  BY <1>1, <1>2 DEF SessionsTyped, SetMarker
<1>3. CASE Truncate(p) \/ Mark(p) \/ Unmark(p)
  BY <1>1, <1>2, <1>3, SessionsStay DEF Truncate, Mark, Unmark, At, Fit
<1>4. CASE ReadMarker(p)
  BY <1>1, <1>4, SessionsStay DEF ReadMarker, OnlyProc
<1>5. CASE Log(p)
  BY <1>1, <1>5 DEF Log, LogSession, SessionsTyped
<1>6. CASE RemoveLog(p) \/ RemoveLogFails(p)
  BY <1>1, <1>6 DEF RemoveLog, RemoveLogFails, LogRemoved, LogStays, SessionsTyped
<1>7. CASE Complete(p) \/ CompleteFails(p) \/ (Crash(p) /\ At(p, "completing"))
  BY <1>1, <1>7 DEF Complete, CompleteFails, Crash, Completed, GiveUp, SessionsTyped
<1>8. CASE UNCHANGED sessionVars
  BY <1>1, <1>8, SessionsStay
<1>9. \/ Truncate(p) \/ Mark(p) \/ Unmark(p) \/ ReadMarker(p) \/ Log(p)
      \/ RemoveLog(p) \/ RemoveLogFails(p)
      \/ Complete(p) \/ CompleteFails(p) \/ (Crash(p) /\ At(p, "completing"))
      \/ UNCHANGED sessionVars
  BY DEF Step, Fault, ReadStart, Survey, Learn, Remember, Plan, TryLock, Upload, Compare, Clear,
         Extract, Fill, Swap, BackUp, Move, Consume, TransferFails, RecordFails, Crash, OnlyProc, OnlyDirs
<1> QED BY <1>3, <1>4, <1>5, <1>6, <1>7, <1>8, <1>9

LEMMA StepDirsTyped ==
    ASSUME HooksInv, NEW p \in Procs, Step(p) \/ Fault(p)
    PROVE  DirsTyped'
<1> DEFINE me == proc[p]
           d == me.dir
<1>1. /\ DirsTyped /\ Fit(me) /\ me \in Processes /\ scene \in Scenes
      /\ me.blob \in Archives /\ me.mem \in Maps /\ me.start \in Sessions \cup {0}
  BY Typed DEF HooksInv, TypeOK, Processes
<1>2. NoArchive \in Archives
  BY DEF NoArchive, Archives, Contents
<1>3. ASSUME UNCHANGED <<card, bak, changed, dirMap, bundles, had, blurred>>, staging' \in Archives
      PROVE  DirsTyped'
  BY <1>1, <1>3 DEF DirsTyped
<1>4. CASE Remember(p)
  <2>1. d \in Dirs /\ me.g \in Games
    BY <1>1, <1>4 DEF Remember, At, Fit
  <2>2. dirMap' \in Maps /\ blurred' \subseteq Dirs
    BY <1>1, <1>4, <2>1 DEF Remember, DirsTyped, Maps
  <2> QED BY <1>1, <1>4, <2>2 DEF Remember, DirsTyped
<1>5. CASE Upload(p)
  <2>1. Pack(me.mine) \in Archives
    BY <1>1 DEF Pack, Archives, Contents, DirsTyped
  <2>2. bundles' \in [Games -> Archives]
    BY <1>1, <1>5, <2>1 DEF Upload, DirsTyped
  <2> QED BY <1>1, <1>5, <2>2 DEF Upload, DirsTyped
<1>6. CASE Clear(p)
  BY <1>2, <1>3, <1>6 DEF Clear, ClearStaging
<1>7. CASE Extract(p) \/ Fill(p)
  <2>1. staging' \in Archives
    BY <1>1, <1>7 DEF Extract, Fill, Extracting, Extracted, DirsTyped, Archives, Contents
  <2> QED BY <1>3, <1>7, <2>1 DEF Extract, Fill
<1>8. CASE Swap(p)
  <2>1. bak' \in Archives
    BY <1>1, <1>8 DEF Swap, RemoveBak, DirsTyped, Archives, Contents
  <2> QED BY <1>1, <1>8, <2>1 DEF Swap, DirsTyped
<1>9. CASE BackUp(p)
  <2>1. card' \in Archives /\ bak' \in Archives
    BY <1>1, <1>9 DEF BackUp, MoveToBak, DirsTyped, Archives, Contents
  <2> QED BY <1>1, <1>9, <2>1 DEF BackUp, DirsTyped
<1>10. CASE Move(p)
  <2>1. d \in Dirs /\ UNCHANGED <<bak, dirMap, bundles>>
    BY <1>1, <1>10 DEF Move, At, Fit
  <2>2. CASE card[d] = NoDir /\ staging[d] # NoDir
    <3>1. card' \in Archives /\ staging' \in Archives
      BY <1>1, <1>10, <2>1, <2>2 DEF Move, Movable, MoveIn, DirsTyped, Archives, Contents
    <3>2. /\ changed' \in [Dirs -> Sessions \cup {0}]
          /\ had' \subseteq Dirs /\ blurred' \subseteq Dirs
      BY <1>1, <1>10, <2>1, <2>2 DEF Move, Movable, DirsTyped
    <3> QED BY <1>1, <2>1, <3>1, <3>2 DEF DirsTyped
  <2>3. CASE ~(card[d] = NoDir /\ staging[d] # NoDir)
    BY <1>2, <1>3, <1>10, <2>1, <2>3 DEF Move, Movable, ClearStaging
  <2> QED BY <2>2, <2>3
<1>11. CASE TransferFails(p)
  <2>1. staging' \in Archives
    BY <1>1, <1>2, <1>11 DEF TransferFails, RecordFails, ClearStaging, DirsTyped
  <2> QED BY <1>3, <1>11, <2>1 DEF TransferFails
<1>12. CASE ReadStart(p)
  <2>1. blurred' \subseteq Dirs
    BY <1>1, <1>12 DEF ReadStart, Misdated, DirsTyped
  <2> QED BY <1>1, <1>12, <2>1 DEF ReadStart, DirsTyped
<1>13. CASE UNCHANGED dirVars
  BY <1>1, <1>13, DirsStay
<1>14. \/ Remember(p) \/ Upload(p) \/ Clear(p) \/ Extract(p) \/ Fill(p) \/ Swap(p)
       \/ BackUp(p) \/ Move(p) \/ TransferFails(p) \/ ReadStart(p) \/ UNCHANGED dirVars
  BY DEF Step, Fault, Truncate, Mark, RecordFails, ReadMarker, Log, Unmark, Survey, Learn, Plan,
         TryLock, Compare, Consume, RemoveLog, RemoveLogFails, Complete, CompleteFails, Crash,
         OnlyProc, OnlySessions
<1> QED BY <1>4, <1>5, <1>6, <1>7, <1>8, <1>9, <1>10, <1>11, <1>12, <1>13, <1>14

LEMMA StepGameTyped ==
    ASSUME HooksInv, NEW p \in Procs, Step(p) \/ Fault(p)
    PROVE  GameTyped' /\ UNCHANGED <<scene, played, phase>>
<1>1. GameTyped
  BY Typed DEF HooksInv
<1>2. UNCHANGED <<scene, played, phase>>
  BY DEF Step, Fault, Truncate, Mark, ReadStart, ReadMarker, Log, Unmark, Survey, Learn, Remember,
         Plan, TryLock, Upload, Compare, Clear, Extract, Fill, Swap, BackUp, Move, TransferFails, RecordFails,
         Consume, RemoveLog, RemoveLogFails, Complete, CompleteFails, Crash,
         OnlyProc, OnlySessions, OnlyDirs
<1>3. left' = left \/ \E kind \in {"fail", "crash"} : Event(kind)
  BY DEF Step, Fault, Truncate, Mark, ReadStart, ReadMarker, Log, Unmark, Survey, Learn, Remember,
         Plan, TryLock, Upload, Compare, Clear, Extract, Fill, Swap, BackUp, Move, TransferFails, RecordFails,
         Consume, RemoveLog, RemoveLogFails, Complete, CompleteFails, Crash,
         OnlyProc, OnlySessions, OnlyDirs
<1>4. lock' \in {lock, p, Free}
  BY DEF Step, Fault, Truncate, Mark, ReadStart, ReadMarker, Log, Unmark, Survey, Learn, Remember,
         Plan, TryLock, Upload, Compare, Clear, Extract, Fill, Swap, BackUp, Move, TransferFails, RecordFails,
         Consume, RemoveLog, RemoveLogFails, Complete, CompleteFails, Crash, Ends,
         OnlyProc, OnlySessions, OnlyDirs
<1> QED BY <1>1, <1>2, <1>3, <1>4 DEF GameTyped, Event

(* A step of a process, or what happens around it, keeps the invariant. *)
LEMMA BecomesInv ==
    ASSUME HooksInv, NEW p \in Procs, NEW me, Becomes(p, me), Fit(me), Respects(p, me),
           SessionsTyped', DirsTyped', GameTyped',
           (phase # "between" => played \in DOMAIN scene.plays)'
    PROVE  HooksInv'
<1>1. TypeOK'
  BY Typed DEF Becomes, SessionsTyped, DirsTyped, GameTyped, TypeOK
<1>2. ASSUME NEW q \in Procs PROVE Fit(proc'[q]) /\ (Holds(proc'[q]) => lock' = q)
  BY DEF Becomes, Respects, HooksInv
<1>3. ASSUME NEW q \in Procs PROVE (Fit(proc[q]) /\ (Holds(proc[q]) => lock = q))'
  BY <1>2 DEF Fit, Holds
<1> QED BY <1>1, <1>3 DEF HooksInv

LEMMA StepInv ==
    ASSUME HooksInv, NEW p \in Procs, Step(p) \/ Fault(p)
    PROVE  HooksInv'
<1>1. PICK me : Becomes(p, me) /\ Fit(me) /\ Respects(p, me)
  BY StepFits
<1>2. SessionsTyped' /\ DirsTyped' /\ GameTyped' /\ UNCHANGED <<scene, played, phase>>
  BY StepSessionsTyped, StepDirsTyped, StepGameTyped
<1>3. (phase # "between" => played \in DOMAIN scene.plays)'
  BY <1>2 DEF HooksInv
<1> QED BY <1>1, <1>2, <1>3, BecomesInv

LEMMA SceneLemma ==
    ASSUME NEW s \in Scenes
    PROVE  /\ DOMAIN s.plays \subseteq Sessions
           /\ \A n \in DOMAIN s.plays : s.plays[n] \in Games
           /\ s.owner \in [Dirs -> Games] /\ s.card \in [Dirs -> {NoDir, 0}]
           /\ s.map \in Maps /\ s.left \in Nat
           /\ s.over \in Sessions \cup {0} /\ s.marks \in [Games -> Sessions \cup {NoMarker}]
<1>1. s \in Scene
  BY HooksAssumption
<1>2. PICK n \in Sessions : s.plays \in [1..n -> Games]
  BY <1>1 DEF Scene
<1>3. 1..n \subseteq Sessions
  <2>1. Cardinality(Sessions) \in Nat
    BY SessionsAssumption, FS_CardinalityType
  <2> QED BY <1>2, <2>1, SessionsAssumption
<1> QED BY <1>1, <1>2, <1>3 DEF Scene

LEMMA AroundInv ==
    ASSUME HooksInv,
           StartGame \/ Launch \/ Play \/ Quit \/ RunTimer \/ StoredElsewhere
    PROVE  HooksInv'
<1>1. /\ SessionsTyped /\ DirsTyped /\ GameTyped /\ TypeOK
      /\ DOMAIN scene.plays \subseteq Sessions
      /\ \A n \in DOMAIN scene.plays : scene.plays[n] \in Games
      /\ scene.owner \in [Dirs -> Games]
  BY Typed, SceneLemma DEF HooksInv, GameTyped
<1>2. SessionsTyped'
  BY <1>1, SessionsStay
     DEF StartGame, Launch, Play, Quit, RunTimer, StoredElsewhere, OnlyProc
<1>3. CASE Launch \/ Play \/ StoredElsewhere
  <2>1. UNCHANGED <<scene, lock, proc>> /\ UNCHANGED played
    BY <1>3 DEF Launch, Play, StoredElsewhere
  <2>2. GameTyped' /\ (phase' # "between" => phase # "between")
    BY <1>1, <1>3 DEF GameTyped, Launch, Play, StoredElsewhere, Event
  <2>3. DirsTyped'
    <3>1. CASE Launch
      BY <1>1, <3>1, DirsStay DEF Launch
    <3>2. CASE Play
      <4>1. played \in Sessions
        BY <1>1, <3>2 DEF Play, HooksInv
      <4>2. PICK d \in Dirs :
              /\ card' = [card EXCEPT ![d] = played]
              /\ changed' = [changed EXCEPT ![d] = played]
              /\ had' = had \cup {d} /\ blurred' \in {blurred, blurred \cup {d}}
        BY <3>2 DEF Play
      <4> QED BY <1>1, <3>2, <4>1, <4>2 DEF Play, DirsTyped, Archives, Contents
    <3>3. CASE StoredElsewhere
      <4>1. bundles' \in [Games -> Archives]
        BY <1>1, <3>3 DEF StoredElsewhere, DirsTyped, Archives, Contents
      <4> QED BY <1>1, <3>3, <4>1 DEF StoredElsewhere, DirsTyped
    <3> QED BY <1>3, <3>1, <3>2, <3>3
  <2>4. TypeOK'
    BY <1>1, <1>2, <2>1, <2>2, <2>3 DEF TypeOK, SessionsTyped, DirsTyped, GameTyped
  <2> QED BY <2>1, <2>2, <2>4 DEF HooksInv, Fit, Holds
<1>4. ASSUME NEW p \in Procs, NEW label \in {"truncating", "ended", "surveying"},
             NEW s \in Sessions \cup {0}, NEW g \in Games,
             label # "surveying" => s \in Sessions,
             Become(p, Process(label, s, g)), UNCHANGED lock
      PROVE  \E me : Becomes(p, me) /\ Fit(me) /\ Respects(p, me)
  <2>1. label \in Labels
    BY DEF Labels
  <2>2. Becomes(p, Process(label, s, g))
    BY <1>1, <1>4, <2>1, ProcessLemma, BecomeLemma
  <2>3. Fit(Process(label, s, g)) /\ ~Holds(Process(label, s, g))
    BY <1>4 DEF Fit, Holds, Process
  <2> QED BY <1>4, <2>2, <2>3 DEF Respects
<1>5. CASE StartGame
  <2>1. played' \in DOMAIN scene.plays /\ Starter \in Procs
    BY <1>5 DEF StartGame, Procs
  <2>2. PICK me : Becomes(Starter, me) /\ Fit(me) /\ Respects(Starter, me)
    BY <1>1, <1>4, <1>5, <2>1 DEF StartGame
  <2>3. GameTyped' /\ DirsTyped'
    BY <1>1, <1>5, <2>1, DirsStay DEF StartGame, GameTyped
  <2>4. (phase # "between" => played \in DOMAIN scene.plays)'
    BY <1>5, <2>1 DEF StartGame
  <2> QED BY <1>2, <2>1, <2>2, <2>3, <2>4, BecomesInv
<1>6. CASE Quit
  <2>1. played \in DOMAIN scene.plays /\ played \in Procs /\ played \in Sessions
    BY <1>1, <1>6 DEF Quit, Procs, HooksInv
  <2>2. PICK me : Becomes(played, me) /\ Fit(me) /\ Respects(played, me)
    BY <1>1, <1>4, <1>6, <2>1 DEF Quit
  <2>3. GameTyped' /\ DirsTyped'
    BY <1>1, <1>6, DirsStay DEF Quit, GameTyped
  <2>4. (phase # "between" => played \in DOMAIN scene.plays)'
    BY <1>6 DEF Quit
  <2> QED BY <1>2, <2>1, <2>2, <2>3, <2>4, BecomesInv
<1>7. CASE RunTimer
  <2>1. PICK d \in Dirs : Become(Timer, Process("surveying", 0, scene.owner[d]))
    BY <1>7 DEF RunTimer
  <2>2. PICK me : Becomes(Timer, me) /\ Fit(me) /\ Respects(Timer, me)
    BY <1>1, <1>4, <1>7, <2>1 DEF RunTimer, OnlyProc, Procs
  <2>3. GameTyped' /\ DirsTyped' /\ Timer \in Procs
    BY <1>1, <1>7, DirsStay DEF RunTimer, GameTyped, OnlyProc, Procs
  <2>4. (phase # "between" => played \in DOMAIN scene.plays)'
    BY <1>7 DEF RunTimer, OnlyProc, HooksInv
  <2> QED BY <1>2, <2>2, <2>3, <2>4, BecomesInv
<1> QED BY <1>3, <1>5, <1>6, <1>7

LEMMA NextInv == HooksInv /\ [Next]_vars => HooksInv'
<1> SUFFICES ASSUME HooksInv, [Next]_vars PROVE HooksInv'
  OBVIOUS
<1>1. CASE UNCHANGED vars
  BY <1>1 DEF vars, sessionVars, dirVars, HooksInv, TypeOK, Fit, Holds
<1>2. CASE Next
  BY <1>2, StepInv, AroundInv DEF Next
<1> QED BY <1>1, <1>2

LEMMA InitInv == Init => HooksInv
<1> SUFFICES ASSUME Init PROVE HooksInv
  OBVIOUS
<1>1. /\ scene \in Scenes /\ scene.card \in [Dirs -> {NoDir, 0}] /\ scene.map \in Maps
      /\ scene.left \in Nat /\ scene.over \in Sessions \cup {0}
      /\ scene.marks \in [Games -> Sessions \cup {NoMarker}]
  BY SceneLemma DEF Init
<1>2. SessionsTyped
  BY <1>1 DEF Init, SessionsInit, SessionsTyped
<1>3. DirsTyped
  BY <1>1 DEF Init, DirsTyped, NoArchive, Archives, Contents, In
<1>4. GameTyped
  BY <1>1 DEF Init, GameTyped
<1>5. TypeOK
  BY <1>2, <1>3, <1>4, IdleLemma, Typed DEF Init
<1> QED BY <1>5, OperatedFits DEF Init, HooksInv

LEMMA HooksInvariant == Spec => []HooksInv
BY InitInv, NextInv, PTL DEF Spec

(* Every variable keeps its type. *)
THEOREM TypesKept == Spec => []TypeOK
<1>1. HooksInv => TypeOK
  BY DEF HooksInv
<1> QED BY <1>1, HooksInvariant, PTL

-----------------------------------------------------------------------------
(* The log of play sessions. *)

Recording == {"ended", "reading", "logging"}
logVars == <<pending, received, ended, twice, kept, lost>>

(* Steps that touch neither the log nor what is unpacked. *)
LEMMA CalmMoves ==
    ASSUME HooksInv, NEW p \in Procs,
           \/ Truncate(p) \/ Mark(p) \/ Unmark(p) \/ Survey(p) \/ Learn(p) \/ Remember(p)
           \/ Plan(p) \/ TryLock(p) \/ Upload(p) \/ TransferFails(p) \/ RecordFails(p)
    PROVE  \E me : /\ Becomes(p, me)
                   /\ me.pc \in {"idle", "marking", "surveying", "planning", "learning", "mapping",
                                 "locking", "uploading", "comparing", "consuming"}
                   /\ me.pc = "marking" => Truncate(p)
<1>1. TypeOK /\ Fit(proc[p]) /\ proc[p] \in Processes
  BY DEF HooksInv, TypeOK
<1>2. Operated.pc = "consuming" /\ Idle.pc = "idle"
  BY DEF Operated, Idle, Process
<1>3. CASE Truncate(p) \/ Mark(p) \/ Unmark(p)
  <2>1. proc[p].pc = "reading" => proc[p].s \in Sessions
    BY <1>1 DEF Fit
  <2> QED BY <1>1, <1>3, <2>1, RecordMoves
<1>4. CASE Survey(p)
  BY <1>1, <1>4, SurveyMoves
<1>5. CASE Learn(p) \/ Remember(p)
  <2>1. /\ proc[p].op # "none" => proc[p].op = "down"
        /\ Remember(p) => proc[p].dir \in Dirs
    BY <1>1, <1>5 DEF Learn, Remember, At, Fit, Processes
  <2>2. Learn(p) \/ (Remember(p) /\ proc[p].dir \in Dirs)
    BY <1>5, <2>1
  <2>3. PICK me : Becomes(p, me) /\ Learns(me, proc[p])
    BY <1>1, <2>1, <2>2, LearnMoves
  <2> QED BY <1>2, <2>3 DEF Learns
<1>6. CASE Plan(p)
  BY <1>1, <1>6, PlanMoves
<1>7. CASE TryLock(p)
  BY <1>1, <1>2, <1>7, LockMoves
<1>8. CASE Upload(p) \/ TransferFails(p)
  BY <1>1, <1>2, <1>8, IdleLemma, BecomeLemma DEF Upload, TransferFails
<1>9. CASE RecordFails(p)
  BY <1>1, <1>9, RecordFailsMoves
<1> QED BY <1>3, <1>4, <1>5, <1>6, <1>7, <1>8, <1>9

(* Most steps move between labels that are not about the log. *)
Plain(p) ==
    /\ UNCHANGED logVars
    /\ proc[p].pc \notin {"idle", "removing", "completing"}
    /\ \E me : /\ Becomes(p, me)
               /\ me.pc \notin Recording \cup {"truncating", "removing", "completing"}
               /\ me.pc = "marking" => Truncate(p)

LEMMA PlainMoves ==
    ASSUME HooksInv, NEW p \in Procs,
           \/ Truncate(p) \/ Mark(p) \/ Unmark(p) \/ Survey(p) \/ Learn(p) \/ Remember(p)
           \/ Plan(p) \/ TryLock(p) \/ Upload(p) \/ Compare(p) \/ Clear(p) \/ Extract(p)
           \/ Fill(p) \/ Swap(p) \/ BackUp(p) \/ Move(p) \/ TransferFails(p) \/ RecordFails(p)
    PROVE  Plain(p)
<1>1. TypeOK /\ Fit(proc[p]) /\ proc[p] \in Processes
  BY DEF HooksInv, TypeOK
<1>2. UNCHANGED logVars
  BY DEF Truncate, Mark, Unmark, Survey, Learn, Remember, Plan, TryLock, Upload, Compare, Clear,
         Extract, Fill, Swap, BackUp, Move, TransferFails, RecordFails, SetMarker, OnlyProc, OnlyDirs,
         sessionVars, logVars
<1>3. proc[p].pc \notin {"idle", "removing", "completing"}
  BY <1>1 DEF Truncate, Mark, Unmark, Survey, Learn, Remember, Plan, TryLock, Upload, Compare, Clear,
         Extract, Fill, Swap, BackUp, Move, TransferFails, RecordFails, Transferring, At
<1>4. Operated.pc = "consuming"
  BY DEF Operated, Process
<1> DEFINE Goal == \E me : /\ Becomes(p, me)
                           /\ me.pc \notin Recording \cup {"truncating", "removing", "completing"}
                           /\ me.pc = "marking" => Truncate(p)
<1> SUFFICES Goal
  BY <1>2, <1>3 DEF Plain
<1>5. CASE \/ Truncate(p) \/ Mark(p) \/ Unmark(p) \/ Survey(p) \/ Learn(p) \/ Remember(p)
           \/ Plan(p) \/ TryLock(p) \/ Upload(p) \/ TransferFails(p) \/ RecordFails(p)
  BY <1>5, CalmMoves DEF Recording
<1>6. ASSUME NEW me, Becomes(p, me),
             me.pc \in {"learning", "clearing", "extracting", "filling", "swapping", "backing",
                       "moving", "consuming"}
      PROVE  Goal
  BY <1>6 DEF Recording
<1>7. CASE Compare(p)
  <2>1. proc[p].g \in Games
    BY <1>1, <1>7 DEF Compare, At, Fit
  <2> QED BY <1>1, <1>4, <1>6, <1>7, <2>1, CompareMoves
<1>8. CASE Clear(p) \/ BackUp(p)
  <2>1. \E label \in {"extracting", "moving"} : Goto(p, label)
    BY <1>8 DEF Clear, BackUp
  <2>2. {"extracting", "moving"} \subseteq Labels
    BY DEF Labels
  <2> QED BY <1>1, <1>6, <2>1, <2>2, GotoLemma
<1>9. CASE Extract(p) \/ Fill(p)
  BY <1>1, <1>6, <1>9, ExtractMoves, FillMoves
<1>10. CASE Swap(p) \/ Move(p)
  BY <1>1, <1>4, <1>6, <1>10, SwapMoves, MoveMoves
<1> QED BY <1>5, <1>7, <1>8, <1>9, <1>10

(* A session that has not ended has no entry, and its hook has not run; a hook
   that is about to log logs an entry of its own, once. *)
NotEnded(e) == e > played \/ (e = played /\ phase # "between")

Fresh ==
    /\ phase # "starting" => proc[Starter].pc = "idle"
    /\ \A e \in Sessions : NotEnded(e) => /\ proc[e].pc = "idle"
                                          /\ \A x \in Sessions : <<x, e>> \notin ended
    /\ \A p \in Procs : proc[p].pc \in Recording =>
            p \in Sessions /\ proc[p].s = p /\ \A x \in Sessions : <<x, p>> \notin ended
    /\ \A p \in Procs : proc[p].pc = "logging" => \E x \in Sessions : proc[p].got = {<<x, p>>}

(* What is in the log, in RomM and in hands. *)
Accounts ==
    /\ pending \subseteq ended /\ received \subseteq ended
    /\ received \cap pending \subseteq kept
    /\ \A p \in Procs : proc[p].pc = "removing" => proc[p].got \subseteq pending
    /\ \A p \in Procs : proc[p].pc = "completing" =>
            proc[p].got \subseteq ended /\ proc[p].got \cap (received \cup pending) \subseteq kept
    /\ ReportedOnce
    /\ \A x \in ended : \/ x \in pending \cup received \cup lost
                        \/ \E p \in Procs : proc[p].pc = "completing" /\ x \in proc[p].got

LEMMA RecordingFresh ==
    ASSUME HooksInv, Fresh, NEW p \in Procs, ReadStart(p) \/ ReadMarker(p) \/ Log(p)
    PROVE  Fresh'
<1>1. /\ TypeOK /\ Fit(proc[p]) /\ UNCHANGED <<phase, played>>
      /\ p \in Sessions /\ proc[p].s = p /\ proc[p].pc # "idle" /\ p # Starter
      /\ \A x \in Sessions : <<x, p>> \notin ended
  BY HooksAssumption DEF HooksInv, Fresh, ReadStart, ReadMarker, Log, OnlyDirs, OnlyProc, OnlySessions, At, Recording
<1>2. proc[p].pc = "reading" => proc[p].s \in Sessions
  BY <1>1
<1>3. CASE Log(p)
  <2>1. PICK x \in Sessions : proc[p].got = {<<x, p>>}
    BY <1>3 DEF Log, At, Fresh
  <2>2. ended' = ended \cup {<<x, p>>}
    BY <1>3, <2>1 DEF Log, LogSession
  <2>3. PICK me : Becomes(p, me) /\ me.pc = "unmarking"
    BY <1>1, <1>2, <1>3, RecordMoves
  <2> QED BY <1>1, <2>2, <2>3 DEF Fresh, NotEnded, Becomes, Recording, Procs
<1>4. CASE ReadStart(p) \/ ReadMarker(p)
  <2>1. ended' = ended
    BY <1>4 DEF ReadStart, ReadMarker, OnlyDirs, OnlyProc, sessionVars
  <2>2. PICK me : /\ Becomes(p, me) /\ me.s = proc[p].s
                  /\ me.pc \in {"reading", "logging", "surveying", "unmarking"}
                  /\ me.pc = "logging" => \E x \in Sessions : me.got = {<<x, proc[p].s>>}
    BY <1>1, <1>2, <1>4, RecordMoves DEF Alike
  <2> QED BY <1>1, <2>1, <2>2 DEF Fresh, NotEnded, Becomes, Recording, Procs
<1> QED BY <1>3, <1>4

(* A step that records nothing and starts no recording. *)
LEMMA CalmFresh ==
    ASSUME HooksInv, Fresh, NEW p \in Procs, NEW me, Becomes(p, me), me.pc \notin Recording,
           ended' = ended, proc[p].pc # "idle", UNCHANGED <<phase, played>>
    PROVE  Fresh'
<1>1. p = Starter => phase = "starting"
  BY DEF Fresh
<1>2. Starter \in Procs /\ "logging" \in Recording /\ Sessions \subseteq Procs
  BY DEF Procs, Recording
<1> QED BY <1>1, <1>2 DEF Fresh, NotEnded, Becomes

(* What the steps about the log make of a process. *)
LEMMA CompletionMoves ==
    ASSUME HooksInv, NEW p \in Procs,
           \/ Consume(p) \/ RemoveLog(p) \/ RemoveLogFails(p)
           \/ Complete(p) \/ CompleteFails(p) \/ Crash(p)
    PROVE  /\ \E me : Becomes(p, me) /\ me.pc \notin Recording \cup {"truncating", "marking"}
           /\ ended' = ended /\ proc[p].pc # "idle" /\ UNCHANGED <<phase, played>>
<1>1. TypeOK /\ Idle.pc = "idle"
  BY DEF HooksInv, Idle, Process
<1>2. ended' = ended /\ proc[p].pc # "idle" /\ UNCHANGED <<phase, played>>
  BY DEF Consume, RemoveLog, RemoveLogFails, Complete, CompleteFails, Crash, At, LogRemoved,
         LogStays, Completed, GiveUp, OnlySessions, sessionVars
<1>3. Ends(p) \/ \E me : Becomes(p, me) /\ me.pc \in {"removing", "completing"}
  BY <1>1, ConsumeMoves DEF Complete, CompleteFails, Crash
<1> QED BY <1>1, <1>2, <1>3, EndsLemma DEF Recording

LEMMA StepFresh ==
    ASSUME HooksInv, Fresh, NEW p \in Procs, Step(p) \/ Fault(p)
    PROVE  Fresh'
<1>1. CASE ReadStart(p) \/ ReadMarker(p) \/ Log(p)
  BY <1>1, RecordingFresh
<1>2. CASE \/ Consume(p) \/ RemoveLog(p) \/ RemoveLogFails(p)
           \/ Complete(p) \/ CompleteFails(p) \/ Crash(p)
  BY <1>2, CompletionMoves, CalmFresh
<1>3. CASE Plain(p)
  <2>1. UNCHANGED <<phase, played>>
    BY StepGameTyped
  <2>2. ended' = ended /\ proc[p].pc # "idle"
    BY <1>3 DEF Plain, logVars
  <2>3. PICK me : Becomes(p, me) /\ me.pc \notin Recording
    BY <1>3 DEF Plain
  <2> QED BY <2>1, <2>2, <2>3, CalmFresh
<1> QED BY <1>1, <1>2, <1>3, PlainMoves DEF Step, Fault

(* Neither the start of a game nor the timer starts a recording. *)
LEMMA BeginFresh ==
    ASSUME Fresh, Sessions \subseteq Procs, NEW p \in Procs \ Sessions,
           proc'[p].pc \notin Recording, \A q \in Procs \ {p} : proc'[q] = proc[q],
           ended' = ended, \A e \in Sessions : NotEnded(e)' => NotEnded(e),
           phase' # "starting" => proc'[Starter].pc = "idle"
    PROVE  Fresh'
<1>1. ASSUME NEW e \in Sessions, NotEnded(e)'
      PROVE  proc'[e].pc = "idle" /\ \A x \in Sessions : <<x, e>> \notin ended'
  BY <1>1 DEF Fresh
<1>2. ASSUME NEW q \in Procs
      PROVE  /\ proc'[q].pc \in Recording => /\ q \in Sessions /\ proc'[q].s = q
                                             /\ \A x \in Sessions : <<x, q>> \notin ended'
             /\ proc'[q].pc = "logging" => \E x \in Sessions : proc'[q].got = {<<x, q>>}
  <2>1. CASE q = p
    BY <2>1 DEF Recording
  <2>2. CASE q # p
    BY <2>2 DEF Fresh
  <2> QED BY <2>1, <2>2
<1> QED BY <1>1, <1>2 DEF Fresh, Recording

LEMMA AroundFresh ==
    ASSUME HooksInv, Fresh,
           StartGame \/ Launch \/ Play \/ Quit \/ RunTimer \/ StoredElsewhere
    PROVE  Fresh'
<1>1. /\ ended' = ended /\ proc \in [Procs -> Processes] /\ Sessions \subseteq Nat
      /\ played \in Nat /\ {Starter, Timer} \cap Sessions = {} /\ Starter # Timer
      /\ Sessions \cup {Starter, Timer} = Procs
      /\ phase \in {"between", "starting", "playing"}
  <2>1. Cardinality(Sessions) \in Nat
    BY SessionsAssumption, FS_CardinalityType
  <2> QED BY <2>1, SessionsAssumption, HooksAssumption
          DEF StartGame, Launch, Play, Quit, RunTimer, StoredElsewhere, OnlyProc, sessionVars,
              HooksInv, TypeOK, Procs
<1>2. CASE StartGame
  <2>1. /\ played' = played + 1 /\ phase = "between" /\ phase' = "starting"
        /\ proc'[Starter].pc = "truncating"
        /\ \A q \in Procs \ {Starter} : proc'[q] = proc[q]
    BY <1>1, <1>2 DEF StartGame, Become, Process
  <2>2. ASSUME NEW e \in Sessions, NotEnded(e)' PROVE NotEnded(e)
    <3>1. e \in Nat /\ played \in Nat /\ (e > played + 1 \/ e = played + 1)
      BY <1>1, <2>1, <2>2 DEF NotEnded
    <3> HIDE DEF NotEnded
    <3>2. e > played
      BY <3>1
    <3> QED BY <3>2 DEF NotEnded
  <2>3. Starter \in Procs \ Sessions /\ "truncating" \notin Recording
    BY <1>1 DEF Recording
  <2> QED BY <1>1, <2>1, <2>2, <2>3, BeginFresh
<1>3. CASE Quit
  <2>1. played \in Sessions /\ played \in DOMAIN scene.plays
    BY <1>3, SceneLemma DEF Quit, HooksInv, TypeOK
  <2>2. /\ played' = played /\ phase = "playing" /\ phase' = "between"
        /\ proc'[played].pc = "ended" /\ proc'[played].s = played
        /\ \A q \in Procs \ {played} : proc'[q] = proc[q]
    BY <1>1, <1>3, <2>1 DEF Quit, Become, Process
  <2>3. /\ \A e \in Sessions : NotEnded(e)' => NotEnded(e) /\ e # played
        /\ NotEnded(played)
    BY <1>1, <2>1, <2>2 DEF NotEnded
  <2>4. proc'[Starter].pc = "idle"
    BY <1>1, <2>1, <2>2 DEF Fresh
  <2>5. ASSUME NEW e \in Sessions, NotEnded(e)'
        PROVE  proc'[e].pc = "idle" /\ \A x \in Sessions : <<x, e>> \notin ended'
    BY <1>1, <2>2, <2>3, <2>5 DEF Fresh
  <2>6. ASSUME NEW p \in Procs
        PROVE  /\ proc'[p].pc \in Recording => /\ p \in Sessions /\ proc'[p].s = p
                                               /\ \A x \in Sessions : <<x, p>> \notin ended'
               /\ proc'[p].pc = "logging" => \E x \in Sessions : proc'[p].got = {<<x, p>>}
    <3>1. CASE p = played
      BY <1>1, <2>1, <2>2, <2>3, <3>1 DEF Fresh
    <3>2. CASE p # played
      BY <1>1, <2>2, <3>2 DEF Fresh
    <3> QED BY <3>1, <3>2
  <2> QED BY <2>4, <2>5, <2>6 DEF Fresh, Recording
<1>4. CASE RunTimer
  <2>1. /\ UNCHANGED <<played, phase>> /\ proc'[Timer].pc = "surveying"
        /\ \A q \in Procs \ {Timer} : proc'[q] = proc[q]
    BY <1>1, <1>4 DEF RunTimer, OnlyProc, Become, Process
  <2>2. /\ Timer \in Procs \ Sessions /\ Starter # Timer /\ "surveying" \notin Recording
        /\ Starter \in Procs
    BY <1>1 DEF Recording
  <2>3. \A e \in Sessions : NotEnded(e)' => NotEnded(e)
    BY <2>1 DEF NotEnded
  <2>4. phase' # "starting" => proc'[Starter].pc = "idle"
    BY <2>1, <2>2 DEF Fresh
  <2> QED BY <1>1, <2>1, <2>2, <2>3, <2>4, BeginFresh
<1>5. CASE Launch \/ Play \/ StoredElsewhere
  <2>1. UNCHANGED <<played, proc>> /\ (phase' # "between" <=> phase # "between")
    BY <1>5 DEF Launch, Play, StoredElsewhere
  <2>2. phase' # "starting" => proc[Starter].pc = "idle"
    BY <1>5 DEF Launch, Play, StoredElsewhere, At, Fresh
  <2> QED BY <1>1, <2>1, <2>2 DEF Fresh, NotEnded, Recording
<1> QED BY <1>2, <1>3, <1>4, <1>5

(* The log, RomM and the hands of completions stay. *)
LEMMA CalmAccounts ==
    ASSUME Accounts, NEW p \in Procs, UNCHANGED logVars,
           proc[p].pc # "completing", proc'[p].pc \notin {"removing", "completing"},
           \A q \in Procs \ {p} : proc'[q] = proc[q]
    PROVE  Accounts'
<1>1. \A q \in Procs : proc'[q].pc \in {"removing", "completing"} => proc'[q] = proc[q]
  OBVIOUS
<1>2. \A q \in Procs : proc[q].pc = "completing" => proc'[q] = proc[q]
  OBVIOUS
<1> QED BY <1>1, <1>2 DEF Accounts, ReportedOnce, logVars

LEMMA LogAccounts ==
    ASSUME HooksInv, Fresh, Accounts, NEW p \in Procs, Log(p)
    PROVE  Accounts'
<1>1. TypeOK /\ p \in Sessions /\ proc[p].pc = "logging" /\ proc[p].s = p
      /\ \A x \in Sessions : <<x, p>> \notin ended
  BY DEF HooksInv, Fresh, Log, At, Recording
<1>2. PICK x \in Sessions : proc[p].got = {<<x, p>>}
  BY <1>1 DEF Fresh
<1>3. PICK new : new = <<x, p>> /\ new \notin ended
  BY <1>1
<1>4. /\ pending' = pending \cup {new} /\ ended' = ended \cup {new}
      /\ UNCHANGED <<received, twice, kept, lost>>
  BY <1>2, <1>3 DEF Log, LogSession
<1>5. PICK me : Becomes(p, me) /\ me.pc = "unmarking"
  BY <1>1, RecordMoves
<1>6. \A q \in Procs : proc'[q].pc \in {"removing", "completing"} => proc'[q] = proc[q]
  BY <1>5 DEF Becomes
<1>7. \A q \in Procs : proc[q].pc = "completing" => proc'[q] = proc[q]
  BY <1>1, <1>5 DEF Becomes
<1> QED BY <1>3, <1>4, <1>6, <1>7 DEF Accounts, ReportedOnce

(* The lock keeps others from taking or completing. *)
LEMMA AloneAtLog ==
    ASSUME HooksInv, NEW p \in Procs, Holds(proc[p])
    PROVE  \A q \in Procs \ {p} : proc[q].pc \notin {"removing", "completing"}
BY DEF HooksInv, Holds

LEMMA TakeAccounts ==
    ASSUME HooksInv, Accounts, NEW p \in Procs, Consume(p) \/ RemoveLog(p) \/ RemoveLogFails(p)
    PROVE  Accounts'
<1>1. TypeOK /\ proc[p].pc \in {"consuming", "removing"}
      /\ \A q \in Procs \ {p} : proc[q].pc \notin {"removing", "completing"}
  BY AloneAtLog DEF HooksInv, Consume, RemoveLog, RemoveLogFails, At, Holds
<1>2. CASE Consume(p)
  <2>1. UNCHANGED logVars
    BY <1>2 DEF Consume, sessionVars, logVars
  <2>2. CASE Ends(p)
    <3>1. Becomes(p, Idle) /\ Idle.pc = "idle"
      BY <1>1, <2>2, EndsLemma DEF Idle, Process
    <3> QED BY <1>1, <2>1, <3>1, CalmAccounts DEF Becomes
  <2>3. CASE ~Ends(p)
    <3>1. PICK me : Becomes(p, me) /\ me.pc = "removing" /\ me.got = pending
      BY <1>1, <1>2, <2>3, ConsumeMoves
    <3> QED BY <1>1, <2>1, <3>1 DEF Becomes, Accounts, ReportedOnce, logVars
  <2> QED BY <2>2, <2>3
<1>3. CASE RemoveLog(p) \/ RemoveLogFails(p)
  <2>1. PICK me : Becomes(p, me) /\ me.pc = "completing" /\ me.got = proc[p].got
    BY <1>1, <1>3, ConsumeMoves DEF Alike
  <2>2. proc[p].got \subseteq pending
    BY <1>3 DEF RemoveLog, RemoveLogFails, At, Accounts
  <2>3. CASE RemoveLog(p)
    <3>1. /\ pending' = {} /\ lost' = lost \cup (pending \ proc[p].got)
          /\ UNCHANGED <<received, ended, twice, kept>>
      BY <2>3 DEF RemoveLog, LogRemoved
    <3> QED BY <1>1, <2>1, <2>2, <3>1 DEF Becomes, Accounts, ReportedOnce
  <2>4. CASE RemoveLogFails(p)
    <3>1. kept' = kept \cup proc[p].got /\ UNCHANGED <<received, ended, pending, twice, lost>>
      BY <2>4 DEF RemoveLogFails, LogStays
    <3> QED BY <1>1, <2>1, <2>2, <3>1 DEF Becomes, Accounts, ReportedOnce
  <2> QED BY <1>3, <2>3, <2>4
<1> QED BY <1>2, <1>3

LEMMA CompleteAccounts ==
    ASSUME HooksInv, Accounts, NEW p \in Procs, Complete(p) \/ CompleteFails(p) \/ Crash(p)
    PROVE  Accounts'
<1>1. TypeOK /\ Becomes(p, Idle) /\ Idle.pc = "idle"
  BY EndsLemma DEF HooksInv, Complete, CompleteFails, Crash, Idle, Process
<1>2. CASE At(p, "completing")
  <2>1. \A q \in Procs \ {p} : proc[q].pc \notin {"removing", "completing"}
    BY <1>2, AloneAtLog DEF At, Holds
  <2>2. /\ proc[p].got \subseteq ended
        /\ proc[p].got \cap (received \cup pending) \subseteq kept
    BY <1>2 DEF At, Accounts
  <2>3. \/ /\ received' = received \cup proc[p].got
           /\ twice' = twice \cup (received \cap proc[p].got)
           /\ UNCHANGED <<pending, ended, kept, lost>>
        \/ lost' = lost \cup proc[p].got /\ UNCHANGED <<pending, received, ended, twice, kept>>
    BY <1>2 DEF Complete, CompleteFails, Crash, Completed, GiveUp
  <2> QED BY <1>1, <1>2, <2>1, <2>2, <2>3 DEF At, Becomes, Accounts, ReportedOnce
<1>3. CASE ~At(p, "completing")
  <2>1. UNCHANGED logVars
    BY <1>3 DEF Complete, CompleteFails, Crash, sessionVars, logVars
  <2> QED BY <1>1, <1>3, <2>1, CalmAccounts DEF Becomes, At
<1> QED BY <1>2, <1>3

LEMMA StepAccounts ==
    ASSUME HooksInv, Fresh, Accounts, NEW p \in Procs, Step(p) \/ Fault(p)
    PROVE  Accounts'
<1>1. CASE Plain(p)
  <2>1. UNCHANGED logVars /\ proc[p].pc \notin {"removing", "completing"}
    BY <1>1 DEF Plain
  <2>2. PICK me : Becomes(p, me) /\ me.pc \notin {"removing", "completing"}
    BY <1>1 DEF Plain
  <2> QED BY <2>1, <2>2, CalmAccounts DEF Becomes
<1>2. CASE ReadStart(p) \/ ReadMarker(p)
  <2>1. /\ TypeOK /\ UNCHANGED logVars /\ proc[p].pc \in {"ended", "reading"}
        /\ proc[p].pc = "reading" => proc[p].s \in Sessions
    BY <1>2 DEF HooksInv, Fit, ReadStart, ReadMarker, OnlyDirs, OnlyProc, sessionVars, logVars, At
  <2>2. PICK me : Becomes(p, me) /\ me.pc \in {"reading", "logging", "surveying", "unmarking"}
    BY <1>2, <2>1, RecordMoves
  <2> QED BY <2>1, <2>2, CalmAccounts DEF Becomes
<1> QED BY <1>1, <1>2, LogAccounts, TakeAccounts, CompleteAccounts, PlainMoves DEF Step, Fault

LEMMA AroundAccounts ==
    ASSUME HooksInv, Fresh, Accounts,
           StartGame \/ Launch \/ Play \/ Quit \/ RunTimer \/ StoredElsewhere
    PROVE  Accounts'
<1>1. UNCHANGED logVars /\ proc \in [Procs -> Processes]
  BY DEF StartGame, Launch, Play, Quit, RunTimer, StoredElsewhere, OnlyProc, sessionVars, logVars,
         HooksInv, TypeOK
<1>2. ASSUME NEW p \in Procs, NEW label \in {"truncating", "ended", "surveying"}, NEW s, NEW g,
             proc[p].pc = "idle", Become(p, Process(label, s, g))
      PROVE  Accounts'
  BY <1>1, <1>2, CalmAccounts DEF Become, Process
<1>3. CASE StartGame
  BY <1>2, <1>3 DEF StartGame, Fresh, Procs
<1>4. CASE Quit
  <2>1. played \in Sessions
    BY <1>4, SceneLemma DEF Quit, HooksInv, TypeOK
  <2>2. proc[played].pc = "idle"
    BY <1>4, <2>1 DEF Quit, Fresh, NotEnded
  <2> QED BY <1>2, <1>4, <2>1, <2>2 DEF Quit, Procs
<1>5. CASE RunTimer
  BY <1>2, <1>5 DEF RunTimer, At, Procs
<1>6. CASE Launch \/ Play \/ StoredElsewhere
  <2>1. UNCHANGED proc
    BY <1>6 DEF Launch, Play, StoredElsewhere
  <2> QED BY <1>1, <2>1 DEF Accounts, ReportedOnce, logVars
<1> QED BY <1>3, <1>4, <1>5, <1>6

LEMMA NextAccounts == HooksInv /\ Fresh /\ Accounts /\ [Next]_vars => Fresh' /\ Accounts'
<1> SUFFICES ASSUME HooksInv, Fresh, Accounts, [Next]_vars PROVE Fresh' /\ Accounts'
  OBVIOUS
<1>1. CASE UNCHANGED vars
  BY <1>1 DEF vars, sessionVars, Fresh, NotEnded, Accounts, ReportedOnce
<1>2. CASE Next
  BY <1>2, StepFresh, AroundFresh, StepAccounts, AroundAccounts DEF Next
<1> QED BY <1>1, <1>2

LEMMA InitAccounts == Init => Fresh /\ Accounts
BY OperatedFits DEF Init, SessionsInit, Fresh, NotEnded, Accounts, ReportedOnce, Recording, Idle,
                    Process, Procs

(* Two syncs never report the same play session, unless its log could not be
   removed (play_sessions.py:95-101, cli.py:1698-1700). *)
THEOREM SessionsReportedOnce == Spec => []ReportedOnce
<1>1. Accounts => ReportedOnce
  BY DEF Accounts
<1> QED BY <1>1, HooksInvariant, InitAccounts, NextAccounts, PTL DEF Spec

(* No play session that was logged disappears, but in the known windows. *)
THEOREM NoSessionDisappears == Spec => []SessionsKept
<1>1. Accounts => SessionsKept
  BY DEF Accounts, SessionsKept, At
<1> QED BY <1>1, HooksInvariant, InitAccounts, NextAccounts, PTL DEF Spec

-----------------------------------------------------------------------------
(* Whose the entries of the log are. *)

(* s is a session of the game g. *)
OfGame(g, s) == s \in DOMAIN scene.plays /\ scene.plays[s] = g

(* The session of a hook, the sessions it is about to log, are of its game. *)
Fitting(me) ==
    /\ me.pc \in {"truncating", "marking", "ended", "reading"} => OfGame(me.g, me.s)
    /\ me.pc = "logging" => \A x \in me.got : OfGame(me.g, x[1]) /\ OfGame(me.g, x[2])

EntriesInv ==
    /\ EntriesOfOneGame
    /\ \A g \in Games : marker[g] \in Sessions => OfGame(g, marker[g])
    /\ \A p \in Procs : Fitting(proc[p])

(* A step of one process. *)
LEMMA OneEntry ==
    ASSUME EntriesInv, NEW p \in Procs, NEW me, Becomes(p, me), Fitting(me),
           UNCHANGED scene, EntriesOfOneGame',
           \A g \in Games : marker'[g] \in Sessions => OfGame(g, marker'[g])
    PROVE  EntriesInv'
<1>1. \A q \in Procs : Fitting(proc'[q])
  BY DEF EntriesInv, Becomes
<1> QED BY <1>1 DEF EntriesInv, Fitting, OfGame

(* The hooks' records. *)
LEMMA RecordEntries ==
    ASSUME HooksInv, Fresh, EntriesInv, NEW p \in Procs,
           Truncate(p) \/ Mark(p) \/ ReadStart(p) \/ ReadMarker(p) \/ Log(p) \/ Unmark(p)
    PROVE  EntriesInv'
<1> DEFINE g == proc[p].g
           Marks == \A h \in Games : marker'[h] \in Sessions => OfGame(h, marker'[h])
<1>1. /\ TypeOK /\ Fitting(proc[p]) /\ UNCHANGED scene
      /\ marker \in [Games -> Sessions \cup {NoMarker, Torn}]
      /\ proc[p].pc = "reading" => proc[p].s \in Sessions
  BY StepGameTyped DEF HooksInv, TypeOK, EntriesInv, Step, Fit
<1>2. NoMarker \notin Sessions /\ Torn \notin Sessions
  BY SessionsAssumption
<1>3. ASSUME marker' = marker \/ \E v : marker' = [marker EXCEPT ![g] = v] /\ (v \in Sessions => OfGame(g, v))
      PROVE  Marks
  BY <1>1, <1>3 DEF EntriesInv
<1>4. Log(p) \/ EntriesOfOneGame'
  BY <1>1 DEF EntriesInv, EntriesOfOneGame, Truncate, Mark, ReadStart, ReadMarker, Unmark,
       SetMarker, OnlyProc, OnlyDirs, sessionVars
<1>5. CASE Truncate(p) \/ Mark(p) \/ Unmark(p)
  <2>1. PICK me : /\ Becomes(p, me) /\ me.pc \in {"marking", "surveying"} /\ Alike(me, proc[p])
                  /\ me.pc = "marking" => Truncate(p)
    BY <1>1, <1>5, RecordMoves
  <2>2. Fitting(me)
    BY <1>1, <2>1 DEF Truncate, At, Fitting, Alike
  <2>3. Marks
    <3>1. CASE Truncate(p) \/ Unmark(p)
      BY <1>2, <1>3, <3>1 DEF Truncate, Unmark, SetMarker
    <3>2. CASE Mark(p)
      BY <1>1, <1>3, <3>2 DEF Mark, At, Fitting, SetMarker, sessionVars
    <3> QED BY <1>5, <3>1, <3>2
  <2>4. ~Log(p)
    BY <1>5 DEF Truncate, Mark, Unmark, Log, At
  <2> QED BY <1>1, <1>4, <2>1, <2>2, <2>3, <2>4, OneEntry
<1>6. CASE ReadStart(p) \/ ReadMarker(p)
  <2>1. marker' = marker /\ proc[p].pc \in {"ended", "reading"}
    BY <1>6 DEF ReadStart, ReadMarker, OnlyProc, OnlyDirs, sessionVars, At
  <2>2. g \in Games
    BY <2>1 DEF HooksInv, Fit
  <2>3. PICK me : /\ Becomes(p, me) /\ me.s = proc[p].s /\ me.g = g
                  /\ me.pc \in {"reading", "logging", "surveying", "unmarking"}
                  /\ me.pc = "logging" => \E x \in Sessions : x = marker[g] /\ me.got = {<<x, me.s>>}
    BY <1>1, <1>6, RecordMoves DEF Alike
  <2>4. OfGame(g, proc[p].s) /\ (marker[g] \in Sessions => OfGame(g, marker[g]))
    BY <1>1, <2>1, <2>2 DEF Fitting, EntriesInv
  <2>5. Fitting(me)
    BY <2>3, <2>4 DEF Fitting
  <2>6. Marks
    BY <1>3, <2>1
  <2>7. ~Log(p)
    BY <2>1 DEF Log, At
  <2> QED BY <1>1, <1>4, <2>3, <2>5, <2>6, <2>7, OneEntry
<1>7. CASE Log(p)
  <2>1. PICK me : Becomes(p, me) /\ me.pc = "unmarking"
    BY <1>1, <1>7, RecordMoves
  <2>2. Fitting(me)
    BY <2>1 DEF Fitting
  <2>3. PICK x \in Sessions : proc[p].got = {<<x, p>>}
    BY <1>7 DEF Fresh, Log, At
  <2>4. /\ ended' = ended \cup {<<x, p>>} /\ marker' = marker
        /\ OfGame(g, x) /\ OfGame(g, p)
    BY <1>1, <1>7, <2>3 DEF Log, LogSession, At, Fitting
  <2>5. \A y \in Sessions : <<y, p>> \notin ended
    BY <1>7 DEF Fresh, Log, At, Recording
  <2>6. ended \subseteq Sessions \X Sessions
    BY <1>1 DEF TypeOK, Entries
  <2>7. EntriesOfOneGame'
    <3>1. \A y \in ended : y[2] # p
      BY <2>5, <2>6
    <3> QED BY <1>1, <2>4, <3>1 DEF EntriesInv, EntriesOfOneGame, OfGame
  <2>8. Marks
    BY <1>3, <2>4
  <2> QED BY <1>1, <2>1, <2>2, <2>7, <2>8, OneEntry
<1> QED BY <1>5, <1>6, <1>7

(* Every other step of a process. *)
LEMMA OtherEntries ==
    ASSUME HooksInv, EntriesInv, NEW p \in Procs, Step(p) \/ Fault(p),
           ~Truncate(p), ~Mark(p), ~ReadStart(p), ~ReadMarker(p), ~Log(p), ~Unmark(p)
    PROVE  EntriesInv'
<1>1. UNCHANGED <<scene, marker, ended>>
  BY StepGameTyped DEF Step, Fault, Survey, Learn, Remember, Plan, TryLock, Upload, Compare,
     Clear, Extract, Fill, Swap, BackUp, Move, TransferFails, RecordFails, Consume, RemoveLog,
     RemoveLogFails, Complete, CompleteFails, Crash, LogRemoved, LogStays, Completed, GiveUp,
     OnlyProc, OnlyDirs, OnlySessions, sessionVars
<1>2. PICK me : Becomes(p, me) /\ me.pc \notin Recording \cup {"truncating", "marking"}
  <2>1. CASE Plain(p)
    BY <2>1 DEF Plain
  <2>2. CASE \/ Consume(p) \/ RemoveLog(p) \/ RemoveLogFails(p)
             \/ Complete(p) \/ CompleteFails(p) \/ Crash(p)
    BY <2>2, CompletionMoves
  <2> QED BY <2>1, <2>2, PlainMoves DEF Step, Fault
<1>3. Fitting(me)
  BY <1>2 DEF Fitting, Recording
<1> QED BY <1>1, <1>2, <1>3, OneEntry DEF EntriesInv, EntriesOfOneGame

(* What happens around the processes. *)
LEMMA AroundEntries ==
    ASSUME HooksInv, EntriesInv,
           StartGame \/ Launch \/ Play \/ Quit \/ RunTimer \/ StoredElsewhere
    PROVE  EntriesInv'
<1>1. TypeOK /\ UNCHANGED <<scene, marker, ended>>
  BY DEF HooksInv, StartGame, Launch, Play, Quit, RunTimer, StoredElsewhere, OnlyProc, sessionVars
<1>2. EntriesOfOneGame' /\ \A g \in Games : marker'[g] \in Sessions => OfGame(g, marker'[g])
  BY <1>1 DEF EntriesInv, EntriesOfOneGame
<1>3. CASE StartGame \/ Quit \/ RunTimer
  <2>1. PICK p \in Procs : \E me : Become(p, me) /\ Fitting(me)
    <3>1. CASE StartGame
      <4> DEFINE me == Process("truncating", played + 1, scene.plays[played + 1])
      <4>1. Become(Starter, me) /\ Starter \in Procs /\ played + 1 \in DOMAIN scene.plays
        BY <3>1 DEF StartGame, Procs
      <4>2. Fitting(me)
        BY <4>1 DEF Fitting, Process, OfGame
      <4> QED BY <4>1, <4>2
    <3>2. CASE Quit
      <4> DEFINE me == Process("ended", played, scene.plays[played])
      <4>1. played \in DOMAIN scene.plays
        BY <3>2 DEF Quit, HooksInv
      <4>2. Become(played, me) /\ played \in Procs
        BY <1>1, <3>2, <4>1, SceneLemma DEF Quit, TypeOK, Procs
      <4>3. Fitting(me)
        BY <4>1 DEF Fitting, Process, OfGame
      <4> QED BY <4>2, <4>3
    <3>3. CASE RunTimer
      <4>1. PICK d \in Dirs : Become(Timer, Process("surveying", 0, scene.owner[d]))
        BY <3>3 DEF RunTimer
      <4>2. Timer \in Procs /\ Fitting(Process("surveying", 0, scene.owner[d]))
        BY DEF Procs, Fitting, Process
      <4> QED BY <4>1, <4>2
    <3> QED BY <1>3, <3>1, <3>2, <3>3
  <2>2. PICK me : Become(p, me) /\ Fitting(me)
    BY <2>1
  <2>3. \A q \in Procs : Fitting(proc'[q])
    BY <1>1, <2>2 DEF EntriesInv, Become, TypeOK
  <2> QED BY <1>1, <1>2, <2>3 DEF EntriesInv, Fitting, OfGame
<1>4. CASE Launch \/ Play \/ StoredElsewhere
  <2>1. proc' = proc
    BY <1>4 DEF Launch, Play, StoredElsewhere
  <2> QED BY <1>1, <1>2, <2>1 DEF EntriesInv, Fitting, OfGame
<1> QED BY <1>3, <1>4

LEMMA NextEntries == HooksInv /\ Fresh /\ EntriesInv /\ [Next]_vars => EntriesInv'
<1> SUFFICES ASSUME HooksInv, Fresh, EntriesInv, [Next]_vars PROVE EntriesInv'
  OBVIOUS
<1>1. CASE UNCHANGED vars
  BY <1>1 DEF vars, sessionVars, EntriesInv, EntriesOfOneGame, Fitting, OfGame
<1>2. CASE Next
  BY <1>2, RecordEntries, OtherEntries, AroundEntries DEF Next
<1> QED BY <1>1, <1>2

LEMMA InitEntries == Init => EntriesInv
<1> SUFFICES ASSUME Init PROVE EntriesInv
  OBVIOUS
<1>1. \A g \in Games : marker[g] \in Sessions => OfGame(g, marker[g])
  BY HooksAssumption DEF Init, SessionsInit, OfGame
<1>2. \A p \in Procs : Fitting(proc[p])
  BY DEF Init, Idle, Process, Fitting
<1> QED BY <1>1, <1>2 DEF Init, SessionsInit, EntriesInv, EntriesOfOneGame

(* However hooks overlap, one that reads or removes another's marker mixes only
   sessions of one game, and every end of a session is logged at most once
   (play_sessions.py:38-63). *)
THEOREM EntriesBelongTogether == Spec => []EntriesOfOneGame
<1>1. EntriesInv => EntriesOfOneGame
  BY DEF EntriesInv
<1> QED BY <1>1, HooksInvariant, InitAccounts, NextAccounts, InitEntries, NextEntries, PTL DEF Spec

-----------------------------------------------------------------------------
(* The directories. *)

Unpacking == {"clearing", "extracting", "filling", "swapping", "backing", "moving"}

Whole(archive) == \A d \in Dirs : archive[d] \notin {Partial, Mixed}

DirsInv ==
    /\ NeverNowhere
    /\ \A p \in Procs : proc[p].pc = "backing" => card[proc[p].dir] # NoDir
    /\ Whole(card) /\ Whole(bak) /\ \A g \in Games : Whole(bundles[g])
    /\ \A p \in Procs :
        /\ proc[p].pc \in {"clearing", "extracting", "filling"} => Whole(proc[p].blob)
        /\ proc[p].pc = "extracting" => staging = NoArchive
        /\ proc[p].pc = "filling" => \A d \in Dirs :
                staging[d] = NoDir \/ (staging[d] = Partial /\ d \in In(proc[p].blob))
        /\ proc[p].pc \in {"swapping", "backing", "moving"} => Whole(staging)

(* Whoever unpacks is alone. *)
LEMMA UnpacksAlone ==
    ASSUME HooksInv, NEW p \in Procs, Holds(proc[p])
    PROVE  \A q \in Procs \ {p} : proc[q].pc \notin Unpacking
BY DEF HooksInv, Holds, Unpacking

LEMMA NothingWhole == Whole(NoArchive) /\ (TypeOK => scene.card \in [Dirs -> {NoDir, 0}])
BY DirsAssumption, SceneLemma DEF Whole, NoArchive, TypeOK

(* Nothing on the card moves, and nobody starts to unpack. *)
LEMMA CalmDirs ==
    ASSUME HooksInv, DirsInv, NEW p \in Procs, NEW me, Becomes(p, me), me.pc \notin Unpacking,
           UNCHANGED <<card, bak, had>>, staging' = staging \/ Holds(proc[p]),
           \A g \in Games : Whole(bundles'[g])
    PROVE  DirsInv'
<1>1. \A q \in Procs : proc'[q].pc \in Unpacking => proc'[q] = proc[q] /\ q # p /\ staging' = staging
  BY UnpacksAlone DEF Becomes
<1> QED BY <1>1 DEF DirsInv, NeverNowhere, Whole, Unpacking

LEMMA OtherDirs ==
    ASSUME HooksInv, DirsInv, NEW p \in Procs, Step(p) \/ Fault(p),
           ~Compare(p), ~Clear(p), ~Extract(p), ~Fill(p), ~Swap(p), ~BackUp(p), ~Move(p)
    PROVE  DirsInv'
<1>1. TypeOK
  BY DEF HooksInv
<1>2. \E me : Becomes(p, me) /\ me.pc \notin Unpacking
  <2>1. CASE ReadStart(p) \/ ReadMarker(p) \/ Log(p)
    <3>1. proc[p].pc = "reading" => proc[p].s \in Sessions
      BY DEF HooksInv, Fit
    <3> QED BY <1>1, <2>1, <3>1, RecordMoves DEF Unpacking
  <2>2. CASE Consume(p) \/ RemoveLog(p) \/ RemoveLogFails(p)
    <3>1. Idle.pc = "idle"
      BY DEF Idle, Process
    <3> QED BY <1>1, <2>2, <3>1, ConsumeMoves, EndsLemma DEF Unpacking
  <2>3. CASE Complete(p) \/ CompleteFails(p) \/ Crash(p)
    <3>1. Ends(p) /\ Idle.pc = "idle"
      BY <2>3 DEF Complete, CompleteFails, Crash, Idle, Process
    <3> QED BY <1>1, <3>1, EndsLemma DEF Unpacking
  <2> QED BY <2>1, <2>2, <2>3, CalmMoves DEF Step, Fault, Unpacking
<1>3. UNCHANGED <<card, bak, had>> /\ (staging' = staging \/ Holds(proc[p]))
  BY DEF Step, Fault, Truncate, Mark, ReadStart, ReadMarker, Log, Unmark, Survey, Learn, Remember,
         Plan, TryLock, Upload, TransferFails, RecordFails, Transferring, Holds, Consume, RemoveLog,
         RemoveLogFails, Complete, CompleteFails, Crash, OnlyProc, OnlySessions, dirVars
<1>4. \A g \in Games : Whole(bundles'[g])
  <2>1. CASE UNCHANGED bundles
    BY <2>1 DEF DirsInv, Whole
  <2>2. CASE Upload(p)
    <3>1. Whole(Pack(proc[p].mine)) /\ bundles \in [Games -> Archives]
      BY DirsAssumption DEF DirsInv, Whole, Pack, HooksInv, TypeOK
    <3>2. bundles' \in {bundles, [bundles EXCEPT ![proc[p].g] = Pack(proc[p].mine)]}
      BY <2>2 DEF Upload
    <3> QED BY <3>1, <3>2 DEF DirsInv, Whole
  <2> QED BY <2>1, <2>2
       DEF Step, Fault, Truncate, Mark, ReadStart, ReadMarker, Log, Unmark, Survey, Learn, Remember,
           Plan, TryLock, TransferFails, RecordFails, Consume, RemoveLog,
           RemoveLogFails, Complete, CompleteFails, Crash, OnlyProc, OnlySessions, dirVars
<1> QED BY <1>2, <1>3, <1>4, CalmDirs

(* One process unpacks, the others do not. *)
LEMMA UnpackDirs ==
    ASSUME HooksInv, NEW p \in Procs, Holds(proc[p]), NEW me, Becomes(p, me),
           NeverNowhere', Whole(card'), Whole(bak'), \A g \in Games : Whole(bundles'[g]),
           me.pc = "backing" => card'[me.dir] # NoDir,
           me.pc \in {"clearing", "extracting", "filling"} => Whole(me.blob),
           me.pc = "extracting" => staging' = NoArchive,
           me.pc = "filling" => \A d \in Dirs :
                staging'[d] = NoDir \/ (staging'[d] = Partial /\ d \in In(me.blob)),
           me.pc \in {"swapping", "backing", "moving"} => Whole(staging')
    PROVE  DirsInv'
<1>1. \A q \in Procs \ {p} : proc'[q].pc \notin Unpacking
  BY UnpacksAlone DEF Becomes
<1>2. proc'[p] = me
  BY DEF Becomes
<1> QED BY <1>1, <1>2 DEF DirsInv, Whole, Unpacking, In

(* Fetching and extracting an archive. *)
LEMMA ExtractDirs ==
    ASSUME HooksInv, DirsInv, NEW p \in Procs, Compare(p) \/ Clear(p) \/ Extract(p) \/ Fill(p)
    PROVE  DirsInv'
<1> DEFINE blob == proc[p].blob
<1>1. /\ TypeOK /\ Holds(proc[p]) /\ proc[p].g \in Games
      /\ UNCHANGED <<card, bak, bundles, had>>
  BY DEF HooksInv, Fit, Holds, At, Compare, Clear, Extract, Fill, OnlyProc, dirVars
<1>2. /\ NeverNowhere' /\ Whole(card') /\ Whole(bak') /\ \A g \in Games : Whole(bundles'[g])
  BY <1>1 DEF DirsInv, NeverNowhere
<1>3. CASE Compare(p)
  <2>1. \/ Becomes(p, Operated) /\ Operated.pc = "consuming"
        \/ \E me : Becomes(p, me) /\ me.pc = "clearing" /\ Whole(me.blob)
    BY <1>1, <1>3, CompareMoves DEF DirsInv, Operated, Process
  <2> QED BY <1>1, <1>2, <2>1, UnpackDirs
<1>4. CASE Clear(p)
  <2>1. PICK me : Becomes(p, me) /\ me.pc = "extracting" /\ me.blob = blob
    <3>1. Goto(p, "extracting") /\ "extracting" \in Labels
      BY <1>4 DEF Clear, Labels
    <3> QED BY <1>1, <3>1, GotoLemma DEF Alike
  <2>2. staging' = NoArchive /\ Whole(blob)
    BY <1>4 DEF Clear, ClearStaging, DirsInv, At
  <2> QED BY <1>1, <1>2, <2>1, <2>2, UnpackDirs
<1>5. CASE Extract(p)
  <2>1. PICK me : Becomes(p, me) /\ me.pc = "filling" /\ me.blob = blob
    BY <1>1, <1>5, ExtractMoves DEF Alike
  <2>2. staging = NoArchive /\ Whole(blob)
    BY <1>5 DEF Extract, DirsInv, At
  <2>3. \A d \in Dirs : staging'[d] = NoDir \/ (staging'[d] = Partial /\ d \in In(blob))
    BY <1>5, <2>2 DEF Extract, Extracting, NoArchive
  <2> QED BY <1>1, <1>2, <2>1, <2>2, <2>3, UnpackDirs
<1>6. CASE Fill(p)
  <2>1. PICK me : Becomes(p, me) /\ me.pc = "swapping"
    BY <1>1, <1>6, FillMoves
  <2>2. /\ \A d \in Dirs : staging[d] = NoDir \/ (staging[d] = Partial /\ d \in In(blob))
        /\ Whole(blob)
    BY <1>6 DEF Fill, DirsInv, At
  <2>3. ASSUME NEW d \in Dirs PROVE staging'[d] \notin {Partial, Mixed}
    <3>1. staging'[d] = CASE staging[d] = Partial /\ d \in In(blob) -> blob[d]
                          [] OTHER -> staging[d]
      BY <1>6 DEF Fill, Extracted
    <3>2. staging'[d] = blob[d] \/ staging'[d] = NoDir
      BY <2>2, <3>1
    <3> QED BY <2>2, <3>2, DirsAssumption DEF Whole
  <2>4. Whole(staging')
    BY <2>3 DEF Whole
  <2> QED BY <1>1, <1>2, <2>1, <2>4, UnpackDirs
<1> QED BY <1>3, <1>4, <1>5, <1>6

(* Swapping the directories in. *)
LEMMA SwapDirs ==
    ASSUME HooksInv, DirsInv, NEW p \in Procs, Swap(p) \/ BackUp(p) \/ Move(p)
    PROVE  DirsInv'
<1>1. /\ TypeOK /\ Holds(proc[p]) /\ Whole(staging) /\ Whole(card) /\ Whole(bak)
      /\ UNCHANGED bundles
      /\ card \in Archives /\ bak \in Archives /\ staging \in Archives /\ had \subseteq Dirs
  BY DEF HooksInv, TypeOK, Holds, At, Swap, BackUp, Move, DirsInv
<1>2. \A g \in Games : Whole(bundles'[g])
  BY <1>1 DEF DirsInv
<1>3. CASE Swap(p)
  <2>1. PICK d \in Dirs, me \in Processes :
          /\ Becomes(p, me)
          /\ \/ card[d] = NoDir /\ me.pc = "moving" /\ UNCHANGED bak
             \/ card[d] # NoDir /\ me.pc = "backing" /\ RemoveBak(d)
          /\ me.dir = d
    BY <1>1, <1>3, SwapMoves DEF Becomes
  <2>2. UNCHANGED <<card, staging, had>>
    BY <1>3 DEF Swap
  <2>3. NeverNowhere' /\ Whole(bak')
    BY <1>1, <2>1, <2>2, DirsAssumption DEF NeverNowhere, DirsInv, RemoveBak, Whole, Archives
  <2> QED BY <1>1, <1>2, <2>1, <2>2, <2>3, UnpackDirs
<1>4. CASE BackUp(p)
  <2> DEFINE d == proc[p].dir
  <2>1. PICK me : Becomes(p, me) /\ me.pc = "moving"
    <3>1. Goto(p, "moving") /\ "moving" \in Labels
      BY <1>4 DEF BackUp, Labels
    <3> QED BY <1>1, <3>1, GotoLemma
  <2>2. d \in Dirs /\ card[d] # NoDir /\ UNCHANGED <<staging, had>>
    BY <1>4 DEF BackUp, At, HooksInv, Fit, DirsInv
  <2>3. bak' = [bak EXCEPT ![d] = card[d]] /\ card' = [card EXCEPT ![d] = NoDir]
    BY <1>4 DEF BackUp, MoveToBak
  <2>4. NeverNowhere' /\ Whole(bak') /\ Whole(card')
    BY <1>1, <2>2, <2>3, DirsAssumption DEF NeverNowhere, DirsInv, Whole, Archives
  <2> QED BY <1>1, <1>2, <2>1, <2>2, <2>4, UnpackDirs
<1>5. CASE Move(p)
  <2> DEFINE d == proc[p].dir
  <2>1. \E me : Becomes(p, me) /\ me.pc \in {"consuming", "swapping", "learning"}
    BY <1>1, <1>5, MoveMoves DEF Operated, Process
  <2>2. d \in Dirs /\ UNCHANGED bak
    BY <1>5 DEF Move, At, HooksInv, Fit
  <2>3. CASE card[d] = NoDir /\ staging[d] # NoDir
    <3>1. /\ card' = [card EXCEPT ![d] = staging[d]] /\ had' = had \cup {d}
          /\ staging' = [staging EXCEPT ![d] = NoDir]
      BY <1>5, <2>3 DEF Move, Movable, MoveIn
    <3>2. NeverNowhere' /\ Whole(card') /\ Whole(staging') /\ Whole(bak')
      BY <1>1, <2>2, <2>3, <3>1, DirsAssumption DEF NeverNowhere, DirsInv, Whole, Archives
    <3> QED BY <1>1, <1>2, <2>1, <3>2, UnpackDirs
  <2>4. CASE ~(card[d] = NoDir /\ staging[d] # NoDir)
    <3>1. UNCHANGED <<card, had>> /\ staging' = NoArchive
      BY <1>5, <2>4 DEF Move, Movable, ClearStaging
    <3>2. NeverNowhere' /\ Whole(card') /\ Whole(staging') /\ Whole(bak')
      BY <1>1, <2>2, <3>1, NothingWhole DEF NeverNowhere, DirsInv
    <3> QED BY <1>1, <1>2, <2>1, <3>2, UnpackDirs
  <2> QED BY <2>3, <2>4
<1> QED BY <1>3, <1>4, <1>5

LEMMA AroundDirs ==
    ASSUME HooksInv, DirsInv,
           StartGame \/ Launch \/ Play \/ Quit \/ RunTimer \/ StoredElsewhere
    PROVE  DirsInv'
<1>1. TypeOK /\ proc \in [Procs -> Processes]
  BY DEF HooksInv, TypeOK
<1>2. CASE StartGame \/ Quit \/ RunTimer
  <2>1. UNCHANGED <<card, bak, had, staging, bundles>>
    BY <1>2 DEF StartGame, Quit, RunTimer, OnlyProc, dirVars
  <2>2. \A q \in Procs : proc'[q].pc \in Unpacking => proc'[q] = proc[q]
    BY <1>1, <1>2 DEF StartGame, Quit, RunTimer, Become, Process, Unpacking
  <2> QED BY <2>1, <2>2 DEF DirsInv, NeverNowhere, Whole, Unpacking
<1>3. CASE Launch
  BY <1>3 DEF Launch, dirVars, DirsInv, NeverNowhere, Whole
<1>4. CASE Play
  <2>1. PICK d \in Dirs :
          card' = [card EXCEPT ![d] = played] /\ had' = had \cup {d}
    BY <1>4 DEF Play
  <2>2. /\ played \notin {NoDir, Partial, Mixed} /\ UNCHANGED <<proc, bak, staging, bundles>>
        /\ card \in Archives
    BY <1>1, <1>4, DirsAssumption DEF Play, TypeOK
  <2>3. NeverNowhere' /\ Whole(card')
    BY <1>1, <2>1, <2>2 DEF DirsInv, NeverNowhere, Whole, Archives
  <2>4. \A e \in Dirs : card[e] # NoDir => card'[e] # NoDir
    BY <2>1, <2>2 DEF Archives
  <2>5. \A p \in Procs : proc[p].pc = "backing" => proc[p].dir \in Dirs
    BY DEF HooksInv, Fit
  <2> QED BY <2>2, <2>3, <2>4, <2>5 DEF DirsInv, Whole
<1>5. CASE StoredElsewhere
  <2>1. UNCHANGED <<proc, card, bak, staging, had>>
    BY <1>5 DEF StoredElsewhere
  <2>2. PICK g \in Games :
          bundles' = [bundles EXCEPT ![g] = [d \in Dirs |-> IF scene.owner[d] = g THEN Far ELSE NoDir]]
    BY <1>5 DEF StoredElsewhere
  <2>3. Whole([d \in Dirs |-> IF scene.owner[d] = g THEN Far ELSE NoDir])
    BY DirsAssumption DEF Whole
  <2>4. \A h \in Games : Whole(bundles'[h])
    BY <1>1, <2>2, <2>3 DEF DirsInv, Whole, TypeOK
  <2> QED BY <2>1, <2>4 DEF DirsInv, NeverNowhere, Whole
<1> QED BY <1>2, <1>3, <1>4, <1>5

LEMMA NextDirs == HooksInv /\ DirsInv /\ [Next]_vars => DirsInv'
<1> SUFFICES ASSUME HooksInv, DirsInv, [Next]_vars PROVE DirsInv'
  OBVIOUS
<1>1. CASE UNCHANGED vars
  BY <1>1 DEF vars, dirVars, DirsInv, NeverNowhere, Whole
<1>2. CASE Next
  BY <1>2, ExtractDirs, SwapDirs, OtherDirs, AroundDirs DEF Next
<1> QED BY <1>1, <1>2

LEMMA InitDirs == Init => DirsInv
<1> SUFFICES ASSUME Init PROVE DirsInv
  OBVIOUS
<1>1. /\ card \in [Dirs -> {NoDir, 0}] /\ bak = NoArchive /\ had = In(card)
      /\ bundles = [g \in Games |-> NoArchive] /\ proc = [p \in Procs |-> Idle]
  BY SceneLemma DEF Init
<1>2. Idle.pc = "idle"
  BY DEF Idle, Process
<1> QED BY <1>1, <1>2, DirsAssumption, NothingWhole DEF DirsInv, NeverNowhere, Whole, In

(* Whatever fails between the renames, a directory that was on the card is
   there or in its .bak (folder_pack.py:111-119). *)
THEOREM DirectoriesSurvive == Spec => []NeverNowhere
<1>1. DirsInv => NeverNowhere
  BY DEF DirsInv
<1> QED BY <1>1, HooksInvariant, InitDirs, NextDirs, PTL DEF Spec

(* Nobody ever sees, backs up or uploads half an extraction
   (folder_pack.py:93-110). *)
THEOREM DirectoriesWhole == Spec => []DirsWhole
<1>1. DirsInv => DirsWhole
  BY DEF DirsInv, DirsWhole, Whole
<1> QED BY <1>1, HooksInvariant, InitDirs, NextDirs, PTL DEF Spec

-----------------------------------------------------------------------------
(* DirVault. *)

(* The session that DirVault sees. *)
Playing == IF phase = "playing" THEN played ELSE 0

(* What DirVault does not see. *)
Stutters == UNCHANGED <<card, bak, Playing>>

LEMMA StutterIsOne == Stutters => UNCHANGED DirsVault!vaultVars
BY DEF Stutters, Playing, DirsVault!vaultVars

(* The renames. *)
LEMMA SwapKeepsVault ==
    ASSUME HooksInv, DirsInv, NEW p \in Procs, Swap(p) \/ BackUp(p) \/ Move(p)
    PROVE  Stutters \/ DirsVault!VaultNext
<1>1. /\ TypeOK /\ Whole(staging) /\ staging \in Archives
      /\ UNCHANGED Playing
  BY DEF HooksInv, TypeOK, At, Swap, BackUp, Move, DirsInv, OnlyDirs, Playing
<1>2. CASE Swap(p)
  <2>1. PICK d \in Dirs :
          \/ UNCHANGED bak
          \/ card[d] # NoDir /\ RemoveBak(d)
    BY <1>1, <1>2, SwapMoves
  <2>2. UNCHANGED card
    BY <1>2 DEF Swap
  <2>3. CASE UNCHANGED bak
    BY <1>1, <2>2, <2>3 DEF Stutters
  <2>4. CASE card[d] # NoDir /\ RemoveBak(d)
    <3>1. DirsVault!Discard(d)
      BY <1>1, <2>2, <2>4 DEF RemoveBak, Playing, DirsVault!Discard
    <3> QED BY <3>1 DEF DirsVault!VaultNext
  <2> QED BY <2>1, <2>3, <2>4
<1>3. CASE BackUp(p)
  <2> DEFINE d == proc[p].dir
  <2>1. d \in Dirs /\ card[d] # NoDir
    BY <1>3 DEF BackUp, At, HooksInv, Fit, DirsInv
  <2>2. MoveToBak(d)
    BY <1>3 DEF BackUp
  <2>3. DirsVault!Spare(d)
    BY <1>1, <2>1, <2>2 DEF MoveToBak, Playing, DirsVault!Spare
  <2> QED BY <2>1, <2>3 DEF DirsVault!VaultNext
<1>4. CASE Move(p)
  <2> DEFINE d == proc[p].dir
  <2>1. d \in Dirs /\ UNCHANGED bak
    BY <1>4 DEF Move, At, HooksInv, Fit
  <2>2. CASE Movable(d)
    <3>1. card[d] = NoDir /\ card' = [card EXCEPT ![d] = staging[d]]
      BY <1>4, <2>2 DEF Move, MoveIn, Movable
    <3>2. staging[d] \in Sessions \cup {0, Far}
      BY <1>1, <2>1, <2>2 DEF Movable, Whole, Archives, Contents
    <3>3. DirsVault!Bring(d)
      BY <1>1, <2>1, <3>1, <3>2 DEF Playing, DirsVault!Bring
    <3> QED BY <2>1, <3>3 DEF DirsVault!VaultNext
  <2>3. CASE ~Movable(d)
    BY <1>1, <1>4, <2>1, <2>3 DEF Move, Stutters
  <2> QED BY <2>2, <2>3
<1> QED BY <1>2, <1>3, <1>4

(* Every other step of a process. *)
LEMMA OthersKeepVault ==
    ASSUME NEW p \in Procs, Step(p) \/ Fault(p), ~Swap(p), ~BackUp(p), ~Move(p)
    PROVE  Stutters
BY DEF Step, Fault, Truncate, Mark, ReadStart, ReadMarker, Log, Unmark, Survey, Learn, Remember,
       Plan, TryLock, Upload, Compare, Clear, Extract, Fill, TransferFails, RecordFails, Consume,
       RemoveLog, RemoveLogFails, Complete, CompleteFails, Crash, OnlyProc, OnlySessions, OnlyDirs,
       dirVars, Stutters, Playing

(* ES-DE, the game, and other devices. *)
LEMMA AroundKeepsVault ==
    ASSUME HooksInv, StartGame \/ Launch \/ Play \/ Quit \/ RunTimer \/ StoredElsewhere
    PROVE  Stutters \/ DirsVault!VaultNext
<1>1. phase # "between" => played \in Sessions
  BY SceneLemma DEF HooksInv, TypeOK
<1>2. 0 \notin Sessions
  BY SessionsAssumption, FS_CardinalityType
<1>3. CASE StartGame \/ RunTimer \/ StoredElsewhere
  BY <1>3 DEF StartGame, RunTimer, StoredElsewhere, OnlyProc, dirVars, Stutters, Playing
<1>4. CASE Launch
  <2>1. DirsVault!Begin
    BY <1>1, <1>4 DEF Launch, dirVars, DirsVault!Begin
  <2> QED BY <2>1 DEF DirsVault!VaultNext
<1>5. CASE Quit
  <2>1. DirsVault!End
    BY <1>1, <1>2, <1>5 DEF Quit, dirVars, DirsVault!End
  <2> QED BY <2>1 DEF DirsVault!VaultNext
<1>6. CASE Play
  <2>1. PICK d \in Dirs : card' = [card EXCEPT ![d] = played]
    BY <1>6 DEF Play
  <2>2. DirsVault!Write(d)
    BY <1>1, <1>2, <1>6, <2>1 DEF Play, DirsVault!Write
  <2> QED BY <2>2 DEF DirsVault!VaultNext
<1> QED BY <1>3, <1>4, <1>5, <1>6

LEMMA NextKeepsVault ==
    HooksInv /\ DirsInv /\ [Next]_vars => [DirsVault!VaultNext]_DirsVault!vaultVars
<1> SUFFICES ASSUME HooksInv, DirsInv, [Next]_vars
             PROVE  Stutters \/ DirsVault!VaultNext
  BY StutterIsOne
<1>1. CASE UNCHANGED vars
  BY <1>1 DEF vars, dirVars, Stutters, Playing
<1>2. CASE Next
  BY <1>2, SwapKeepsVault, OthersKeepVault, AroundKeepsVault DEF Next
<1> QED BY <1>1, <1>2

(* The hooks, the timer and the game, interleaved in any way and failing
   anywhere, change the directories of the card and their .bak only as DirVault
   does: no download writes over a directory that is in place, and no .bak is
   removed while its directory is not (folder_pack.py:111-119). *)
THEOREM ImplementsDirVault == Spec => KeepsDirVault
<1>1. Init => DirsVault!VaultInit
  BY SceneLemma DEF Init, NoArchive, DirsVault!VaultInit
<1> QED BY <1>1, HooksInvariant, InitDirs, NextDirs, NextKeepsVault, PTL
        DEF Spec, KeepsDirVault, DirsVault!VaultSpec

=============================================================================
