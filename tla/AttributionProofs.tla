------------------------- MODULE AttributionProofs -------------------------
(***************************************************************************)
(* Proof about GameHooks: outside the known windows no directory is taken  *)
(* for another game's.                                                     *)
(***************************************************************************)
EXTENDS GameHooksProofs

-----------------------------------------------------------------------------
(* The invariant. *)

(* d is the game's, unless it is among those that may be mistaken. *)
Right(d, g) == d \in blurred \/ scene.owner[d] = g

(* A hook may still attribute d, and must not be wrong about it. *)
Open(d) == d \in Dirs /\ d \notin blurred /\ dirMap[d] = NoGame

(* What a process has to do with directories concerns its own game; and those
   that changed since the session its hook is about, or will find when it reads
   the marker, are its game's. *)
Knows(p, me) ==
    /\ \A d \in me.learn \cup me.mine \cup In(me.blob) : Right(d, me.g)
    /\ me.pc = "mapping" => Right(me.dir, me.g)
    /\ me.pc \in {"truncating", "marking"} => me.start = 0
    /\ me.pc = "ended" => /\ me.g = scene.plays[p]
                          /\ \A d : Open(d) /\ changed[d] > p => scene.owner[d] = me.g
    /\ me.pc \in {"reading", "logging", "unmarking", "surveying"} /\ me.start # 0 =>
            /\ p \in Sessions
            /\ \A d : Open(d) /\ changed[d] >= me.start => scene.owner[d] = me.g

AttributionInv ==
    /\ \A d \in Dirs : d \in blurred \/ dirMap[d] \in {NoGame, scene.owner[d]}
    /\ \A g \in Games : \A d \in In(bundles[g]) : Right(d, g)
    /\ \A d : Open(d) /\ changed[d] # 0 =>
            changed[d] <= played /\ scene.plays[changed[d]] = scene.owner[d]
    /\ \A p \in Procs : Knows(p, proc[p])

-----------------------------------------------------------------------------
(* What the step of one process leaves to the others. *)

(* Nothing becomes open, and what is open does not change. *)
Tame ==
    /\ blurred \subseteq blurred' /\ UNCHANGED <<scene, played>>
    /\ \A d : Open(d)' => Open(d) /\ changed'[d] = changed[d]

LEMMA TameKnows ==
    ASSUME NEW p, NEW me, Tame, Knows(p, me)
    PROVE  Knows(p, me)'
BY DEF Tame, Knows, Right, In

LEMMA StepTame ==
    ASSUME HooksInv, AttributionInv, NEW p \in Procs, Step(p) \/ Fault(p)
    PROVE  /\ Tame
           /\ \A d \in Dirs : d \in blurred' \/ dirMap'[d] \in {NoGame, scene.owner[d]}
<1> DEFINE me == proc[p]
<1>1. /\ DirsTyped /\ Fit(me) /\ me \in Processes /\ UNCHANGED <<scene, played>>
      /\ NoGame \notin Games
  BY Typed, StepGameTyped, DirsAssumption DEF HooksInv, TypeOK
<1>2. CASE Remember(p)
  <2>1. me.dir \in Dirs /\ me.g \in Games /\ Right(me.dir, me.g) /\ me.mem \in Maps
    BY <1>1, <1>2 DEF Remember, At, Fit, AttributionInv, Knows, Processes
  <2>2. /\ dirMap' = [me.mem EXCEPT ![me.dir] = me.g]
        /\ blurred' = blurred \cup {d \in Dirs \ {me.dir} : dirMap'[d] # dirMap[d]}
        /\ UNCHANGED changed
    BY <1>2 DEF Remember
  <2>3. dirMap'[me.dir] = me.g
    BY <2>1, <2>2 DEF Maps
  <2>4. \A d \in Dirs : d \notin blurred' => d \notin blurred /\ (d = me.dir \/ dirMap'[d] = dirMap[d])
    BY <2>2
  <2> QED BY <1>1, <2>1, <2>2, <2>3, <2>4 DEF Tame, Open, Right, AttributionInv
<1>3. CASE Move(p)
  <2>1. UNCHANGED dirMap /\ me.dir \in Dirs
    BY <1>1, <1>3 DEF Move, At, Fit
  <2>2. \/ UNCHANGED <<changed, blurred>>
        \/ /\ changed' = [changed EXCEPT ![me.dir] = me.start]
           /\ blurred' = IF dirMap[me.dir] = NoGame THEN blurred \cup {me.dir} ELSE blurred
    BY <1>3 DEF Move
  <2>3. blurred \subseteq blurred'
    BY <2>2
  <2>4. \A d \in Dirs : changed'[d] = changed[d] \/ (d = me.dir /\ ~Open(d)')
    BY <1>1, <2>1, <2>2 DEF Open, DirsTyped
  <2> QED BY <1>1, <2>1, <2>3, <2>4 DEF Tame, Open, AttributionInv
<1>4. CASE ~Remember(p) /\ ~Move(p)
  <2>1. UNCHANGED <<dirMap, changed>> /\ blurred \subseteq blurred'
    BY <1>4 DEF Step, Fault, Truncate, Mark, ReadStart, ReadMarker, Log, Unmark, RecordFails, Survey,
         Learn, Plan, TryLock, Upload, Compare, Clear, Extract, Fill, Swap, BackUp, TransferFails,
         Consume, RemoveLog, RemoveLogFails, Complete, CompleteFails, Crash,
         OnlyProc, OnlySessions, dirVars
  <2> QED BY <1>1, <2>1 DEF Tame, Open, AttributionInv
<1> QED BY <1>2, <1>3, <1>4

-----------------------------------------------------------------------------
(* What a process makes of itself. *)
Turns(p, me) ==
    /\ proc'[p] = me
    /\ \A q \in Procs \ {p} : proc'[q] = proc[q]

LEMMA TurnsLemma ==
    ASSUME TypeOK, NEW p \in Procs, NEW me, Become(p, me)
    PROVE  Turns(p, me)
BY DEF TypeOK, Become, Turns

(* A process that is new, or has no operation left, knows nothing. *)
LEMMA NewKnows ==
    ASSUME NEW p, NEW label, NEW s, NEW g, label # "mapping",
           label = "ended" => /\ g = scene.plays[p]
                              /\ \A d : Open(d) /\ changed[d] > p => scene.owner[d] = g
    PROVE  Knows(p, Process(label, s, g))
BY DEF Knows, Process, NoArchive, In

LEMMA IdleKnows ==
    ASSUME NEW p
    PROVE  Knows(p, Idle) /\ Knows(p, Operated)
BY NewKnows DEF Idle, Operated

(* One that goes on with no more than it had. *)
LEMMA OnKnows ==
    ASSUME NEW p, Knows(p, proc[p]), NEW me,
           me.learn \subseteq proc[p].learn, me.mine \subseteq proc[p].mine,
           me.blob \in {proc[p].blob, NoArchive}, me.g = proc[p].g,
           \/ me.pc \notin {"truncating", "marking", "ended", "reading", "logging", "unmarking",
                            "surveying", "mapping"}
           \/ /\ me.start = proc[p].start
              /\ \/ /\ me.pc = "marking" /\ proc[p].pc = "truncating"
                 \/ /\ me.pc \in {"reading", "logging", "unmarking", "surveying"}
                    /\ proc[p].pc \in {"truncating", "marking", "reading", "logging", "unmarking",
                                       "surveying"}
    PROVE  Knows(p, me)
BY DEF Knows, NoArchive, In

LEMMA GotoKnows ==
    ASSUME TypeOK, AttributionInv, NEW p \in Procs, NEW label, Goto(p, label),
           \/ label \notin {"truncating", "marking", "ended", "reading", "logging", "unmarking",
                            "surveying", "mapping"}
           \/ label = "marking" /\ proc[p].pc = "truncating"
           \/ /\ label \in {"reading", "logging", "unmarking", "surveying"}
              /\ proc[p].pc \in {"truncating", "marking", "reading", "logging", "unmarking",
                                 "surveying"}
    PROVE  \E me : Turns(p, me) /\ Knows(p, me)
<1> DEFINE me == [proc[p] EXCEPT !.pc = label]
<1>1. proc[p] \in Processes /\ Become(p, me)
  BY DEF TypeOK, Goto, Become
<1>2. Turns(p, me)
  BY <1>1, TurnsLemma
<1>3. /\ me.pc = label /\ me.learn = proc[p].learn /\ me.mine = proc[p].mine
      /\ me.blob = proc[p].blob /\ me.g = proc[p].g /\ me.start = proc[p].start
  BY <1>1 DEF Processes
<1>4. Knows(p, proc[p])
  BY DEF AttributionInv
<1> HIDE DEF me
<1>5. Knows(p, me)
  BY <1>3, <1>4, OnKnows
<1> QED BY <1>2, <1>5

(* The hook's record of the session, after the marker is read. *)
LEMMA RecordKnows ==
    ASSUME HooksInv, AttributionInv, NEW p \in Procs,
           Truncate(p) \/ Mark(p) \/ ReadMarker(p) \/ Log(p) \/ Unmark(p) \/ RecordFails(p)
    PROVE  \E me : Turns(p, me) /\ Knows(p, me)
<1> DEFINE old == proc[p]
<1>1. TypeOK /\ old \in Processes /\ Knows(p, old)
  BY DEF HooksInv, TypeOK, AttributionInv
<1>2. ASSUME NEW label \in {"logging", "unmarking", "surveying"}, NEW got, NEW me,
             me = [old EXCEPT !.pc = label, !.got = got], Become(p, me),
             old.pc \in {"truncating", "marking", "reading", "logging", "unmarking"}
      PROVE  \E you : Turns(p, you) /\ Knows(p, you)
  <2>1. /\ me.pc = label /\ me.learn = old.learn /\ me.mine = old.mine
        /\ me.blob = old.blob /\ me.g = old.g /\ me.start = old.start
    BY <1>1, <1>2 DEF Processes
  <2>2. Turns(p, me)
    BY <1>1, <1>2, TurnsLemma
  <2>3. Knows(p, me)
    BY <1>1, <1>2, <2>1, OnKnows
  <2> QED BY <2>2, <2>3
<1>3. CASE Truncate(p) \/ Mark(p) \/ Unmark(p)
  <2>1. \/ Goto(p, "marking") /\ old.pc = "truncating"
        \/ Goto(p, "surveying") /\ old.pc \in {"marking", "unmarking"}
    BY <1>3 DEF Truncate, Mark, Unmark, At
  <2> QED BY <1>1, <2>1, GotoKnows
<1>4. CASE ReadMarker(p)
  <2> DEFINE got == {<<marker[old.g], old.s>>}
             me == [old EXCEPT !.pc = "logging", !.got = got]
  <2>1. old.pc = "reading" /\ (Goto(p, "surveying") \/ Goto(p, "unmarking") \/ Become(p, me))
    BY <1>4 DEF ReadMarker, At
  <2>2. CASE Goto(p, "surveying") \/ Goto(p, "unmarking")
    BY <1>1, <2>1, <2>2, GotoKnows
  <2>3. CASE Become(p, me)
    <3> HIDE DEF got
    <3>1. me = [old EXCEPT !.pc = "logging", !.got = got]
      OBVIOUS
    <3> HIDE DEF me
    <3> QED BY <1>2, <2>1, <2>3, <3>1
  <2> QED BY <2>1, <2>2, <2>3
<1>5. CASE Log(p)
  <2> DEFINE me == [old EXCEPT !.pc = "unmarking", !.got = {}]
  <2>1. Become(p, me) /\ me = [old EXCEPT !.pc = "unmarking", !.got = {}] /\ old.pc = "logging"
    BY <1>5 DEF Log, At
  <2> HIDE DEF me
  <2> QED BY <1>2, <2>1
<1>6. CASE RecordFails(p)
  <2> DEFINE me == [old EXCEPT !.pc = "surveying", !.got = {}]
  <2>1. /\ Become(p, me) /\ me = [old EXCEPT !.pc = "surveying", !.got = {}]
        /\ old.pc \in {"truncating", "marking", "reading", "logging", "unmarking"}
    BY <1>6 DEF RecordFails
  <2> HIDE DEF me
  <2> QED BY <1>2, <2>1
<1> QED BY <1>3, <1>4, <1>5, <1>6

(* The hook learns when the session began. *)
LEMMA ReadStartKnows ==
    ASSUME HooksInv, Fresh, AttributionInv, Tame, NEW p \in Procs, ReadStart(p)
    PROVE  \E me : Turns(p, me) /\ Knows(p, me)'
<1> DEFINE old == proc[p]
           start == SessionStart(old.g)
<1>1. /\ TypeOK /\ old \in Processes /\ Knows(p, old) /\ old.pc = "ended"
      /\ changed \in [Dirs -> Sessions \cup {0}]
  BY DEF HooksInv, TypeOK, AttributionInv, ReadStart, At
<1>2. p \in Sessions /\ Sessions \subseteq Nat
  <2>1. p \in Sessions
    BY <1>1 DEF Fresh, Recording
  <2>2. Cardinality(Sessions) \in Nat
    BY SessionsAssumption, FS_CardinalityType
  <2> QED BY <2>1, <2>2, SessionsAssumption
<1>3. /\ blurred' = blurred \cup Misdated(p, start) /\ UNCHANGED <<changed, dirMap, scene>>
      /\ Become(p, [old EXCEPT !.pc = "reading", !.start = start])
  BY DEF ReadStart, OnlyDirs
<1>4. PICK me : me = [old EXCEPT !.pc = "reading", !.start = start]
  OBVIOUS
<1>5. Turns(p, me)
  BY <1>1, <1>3, <1>4, TurnsLemma
<1>6. /\ me.pc = "reading" /\ me.learn = old.learn /\ me.mine = old.mine
      /\ me.blob = old.blob /\ me.g = old.g /\ me.start = start
  BY <1>1, <1>4 DEF Processes
<1>7. start \in Sessions \cup {0}
  BY DEF SessionStart
<1>8. ASSUME start # 0, NEW d, Open(d)', changed[d] >= start PROVE scene.owner[d] = old.g
  <2>1. Open(d) /\ d \in Dirs /\ d \notin Misdated(p, start) /\ changed[d] \in Nat
    BY <1>1, <1>2, <1>3, <1>8 DEF Open
  <2>2. CASE start # p
    BY <1>8, <2>1, <2>2 DEF Misdated, Open
  <2>3. CASE start = p /\ changed[d] > p
    BY <1>1, <2>1, <2>3 DEF Knows
  <2>4. CASE start = p /\ changed[d] = p
    <3>1. changed[d] # 0 /\ old.g = scene.plays[p]
      BY <1>1, <1>8, <2>4 DEF Knows
    <3> QED BY <2>1, <2>4, <3>1 DEF AttributionInv
  <2> QED BY <1>2, <1>8, <2>1, <2>2, <2>3, <2>4
<1> HIDE DEF start
<1>9. \A d \in me.learn \cup me.mine \cup In(me.blob) : Right(d, me.g)'
  BY <1>1, <1>3, <1>6 DEF Knows, Right
<1>10. \A d : Open(d)' /\ changed'[d] >= me.start /\ me.start # 0 => scene'.owner[d] = me.g
  BY <1>3, <1>6, <1>8
<1>11. Knows(p, me)'
  BY <1>2, <1>6, <1>9, <1>10 DEF Knows, In
<1> QED BY <1>5, <1>11

-----------------------------------------------------------------------------
(* The other steps. *)
LEMMA BecomeKnows ==
    ASSUME TypeOK, NEW p \in Procs, NEW me, Become(p, me), Knows(p, me)
    PROVE  \E you : Turns(p, you) /\ Knows(p, you)
BY TurnsLemma

(* Whoever takes a directory for its game's by the map or by its time is right. *)
LEMMA SurveyKnows ==
    ASSUME HooksInv, AttributionInv, NEW p \in Procs, Survey(p)
    PROVE  \E me : Turns(p, me) /\ Knows(p, me)
<1> DEFINE old == proc[p]
           new == ChangedSince(old.start)
           mine == new \cup {d \in In(card) : dirMap[d] = old.g}
           label == IF new = {} THEN "planning" ELSE "learning"
<1>1. /\ TypeOK /\ old \in Processes /\ Knows(p, old) /\ old.pc = "surveying"
      /\ old.g \in Games /\ NoGame \notin Games
  BY DirsAssumption DEF HooksInv, TypeOK, AttributionInv, Survey, At, Fit
<1>2. PICK me : me = [old EXCEPT !.pc = label, !.learn = new, !.mine = mine]
  OBVIOUS
<1>3. Become(p, me)
  BY <1>2 DEF Survey
<1>4. \A d \in new : Right(d, old.g)
  BY <1>1 DEF ChangedSince, In, Knows, Right, Open
<1>5. \A d \in mine : Right(d, old.g)
  BY <1>1, <1>4 DEF In, AttributionInv, Right
<1>6. label \in {"planning", "learning"}
  OBVIOUS
<1> HIDE DEF new, mine, label
<1>7. /\ me.pc = label /\ me.learn = new /\ me.mine = mine
      /\ me.blob = old.blob /\ me.g = old.g
  BY <1>1, <1>2 DEF Processes
<1>8. Knows(p, me)
  BY <1>1, <1>4, <1>5, <1>6, <1>7 DEF Knows
<1> QED BY <1>1, <1>3, <1>8, BecomeKnows

LEMMA LearnKnows ==
    ASSUME HooksInv, AttributionInv, NEW p \in Procs, Learn(p) \/ Remember(p)
    PROVE  \E me : Turns(p, me) /\ Knows(p, me)
<1> DEFINE old == proc[p]
<1>1. TypeOK /\ old \in Processes /\ Knows(p, old)
  BY DEF HooksInv, TypeOK, AttributionInv
<1>2. ASSUME NEW d PROVE Knows(p, Learnt(old, d))
  <2> DEFINE learn == old.learn \ {d}
             label == IF old.learn = {d} THEN "planning" ELSE "learning"
             me == [old EXCEPT !.learn = learn, !.dir = NoDir, !.mem = Idle.mem, !.pc = label]
  <2>1. Learnt(old, d) \in {Operated, me}
    BY DEF Learnt
  <2>2. learn \subseteq old.learn /\ label \in {"planning", "learning"}
    OBVIOUS
  <2>3. Knows(p, me)
    <3>1. PICK you : you = me
      OBVIOUS
    <3>2. /\ you.pc = label /\ you.learn = learn /\ you.mine = old.mine
          /\ you.blob = old.blob /\ you.g = old.g
      <4> HIDE DEF learn, label
      <4> QED BY <1>1, <3>1 DEF Processes
    <3>3. you.pc \notin {"truncating", "marking", "ended", "reading", "logging", "unmarking",
                         "surveying", "mapping"}
      BY <2>2, <3>2
    <3> HIDE DEF me, learn, label
    <3> QED BY <1>1, <2>2, <3>1, <3>2, <3>3, OnKnows
  <2> QED BY <2>1, <2>3, IdleKnows
<1>3. CASE Remember(p)
  <2>1. Become(p, Learnt(old, old.dir))
    BY <1>3 DEF Remember
  <2> QED BY <1>1, <1>2, <2>1, BecomeKnows
<1>4. CASE Learn(p)
  <2>1. PICK d \in old.learn :
          \/ Become(p, Learnt(old, d))
          \/ Become(p, [old EXCEPT !.dir = d, !.mem = dirMap, !.pc = "mapping"])
    BY <1>4 DEF Learn
  <2>2. PICK me : me = [old EXCEPT !.dir = d, !.mem = dirMap, !.pc = "mapping"]
    OBVIOUS
  <2>3. /\ me.pc = "mapping" /\ me.dir = d /\ me.learn = old.learn /\ me.mine = old.mine
        /\ me.blob = old.blob /\ me.g = old.g
    BY <1>1, <2>2 DEF Processes
  <2>4. Knows(p, me)
    BY <1>1, <2>1, <2>3 DEF Knows
  <2> QED BY <1>1, <1>2, <2>1, <2>2, <2>4, BecomeKnows
<1> QED BY <1>3, <1>4

LEMMA PlanKnows ==
    ASSUME HooksInv, AttributionInv, NEW p \in Procs, Plan(p) \/ TryLock(p)
    PROVE  \E me : Turns(p, me) /\ Knows(p, me)
<1> DEFINE old == proc[p]
<1>1. TypeOK /\ old \in Processes /\ Knows(p, old)
  BY DEF HooksInv, TypeOK, AttributionInv
<1>2. CASE Plan(p)
  <2>1. PICK op \in {"none", "up", "down"} :
          Become(p, [Process("locking", old.s, old.g) EXCEPT
                      !.op = op, !.mine = IF op = "up" THEN old.mine ELSE {}])
    BY <1>2 DEF Plan
  <2> DEFINE mine == IF op = "up" THEN old.mine ELSE {}
  <2>2. PICK me : me = [Process("locking", old.s, old.g) EXCEPT !.op = op, !.mine = mine]
    OBVIOUS
  <2>3. mine \subseteq old.mine
    OBVIOUS
  <2>4. /\ me.pc = "locking" /\ me.learn = {} /\ me.mine = mine
        /\ me.blob = NoArchive /\ me.g = old.g
    <3> HIDE DEF mine
    <3> QED BY <2>2 DEF Process
  <2>5. Knows(p, me)
    <3> HIDE DEF mine
    <3> QED BY <1>1, <2>3, <2>4, OnKnows
  <2> QED BY <1>1, <2>1, <2>2, <2>5, BecomeKnows
<1>3. CASE TryLock(p)
  <2>1. Become(p, Locked(old)) \/ Become(p, Idle)
    BY <1>3 DEF TryLock, Ends
  <2>2. Knows(p, Locked(old))
    <3>1. \/ Locked(old) = Operated
          \/ \E label \in {"uploading", "comparing"} : Locked(old) = [old EXCEPT !.pc = label]
      BY DEF Locked
    <3>2. ASSUME NEW label \in {"uploading", "comparing"},
                 NEW me, me = [old EXCEPT !.pc = label]
          PROVE  Knows(p, me)
      <4>1. /\ me.pc = label /\ me.learn = old.learn /\ me.mine = old.mine
            /\ me.blob = old.blob /\ me.g = old.g
        BY <1>1, <3>2 DEF Processes
      <4> QED BY <1>1, <4>1, OnKnows
    <3> QED BY <3>1, <3>2, IdleKnows
  <2> QED BY <1>1, <2>1, <2>2, IdleKnows, BecomeKnows
<1> QED BY <1>2, <1>3

(* Labels of a transfer. *)
LEMMA CarriesOn ==
    ASSUME HooksInv, AttributionInv, NEW p \in Procs, NEW me, Become(p, me),
           me.pc \in {"clearing", "extracting", "filling", "swapping", "backing", "moving", "learning"},
           me.learn \subseteq proc[p].learn, me.mine = proc[p].mine,
           me.blob = proc[p].blob, me.g = proc[p].g
    PROVE  \E you : Turns(p, you) /\ Knows(p, you)
<1>1. TypeOK /\ Knows(p, proc[p])
  BY DEF HooksInv, AttributionInv
<1>2. Knows(p, me)
  BY <1>1, OnKnows
<1> QED BY <1>1, <1>2, BecomeKnows

LEMMA TransferKnows ==
    ASSUME HooksInv, AttributionInv, NEW p \in Procs,
           \/ Upload(p) \/ Compare(p) \/ Clear(p) \/ Extract(p) \/ Fill(p)
           \/ Swap(p) \/ BackUp(p) \/ Move(p) \/ TransferFails(p)
    PROVE  \E me : Turns(p, me) /\ Knows(p, me)
<1> DEFINE old == proc[p]
<1>1. TypeOK /\ old \in Processes /\ Knows(p, old)
  BY DEF HooksInv, TypeOK, AttributionInv
<1>2. ASSUME Become(p, Operated) PROVE \E me : Turns(p, me) /\ Knows(p, me)
  BY <1>1, <1>2, IdleKnows, BecomeKnows
<1>3. ASSUME Goto(p, "extracting") \/ Goto(p, "moving")
      PROVE  \E me : Turns(p, me) /\ Knows(p, me)
  BY <1>1, <1>3, GotoKnows
<1>4. CASE Compare(p)
  <2> DEFINE blob == bundles[old.g]
  <2>1. PICK me : me = [old EXCEPT !.pc = "clearing", !.blob = blob]
    OBVIOUS
  <2>2. Become(p, Operated) \/ Become(p, me)
    BY <1>4, <2>1 DEF Compare
  <2>3. \A d \in In(blob) : Right(d, old.g)
    BY <1>4 DEF Compare, At, HooksInv, Fit, AttributionInv
  <2>4. /\ me.pc = "clearing" /\ me.learn = old.learn /\ me.mine = old.mine
        /\ me.blob = blob /\ me.g = old.g
    <3> HIDE DEF blob
    <3> QED BY <1>1, <2>1 DEF Processes
  <2>5. Knows(p, me)
    BY <1>1, <2>3, <2>4 DEF Knows
  <2> QED BY <1>1, <1>2, <2>2, <2>5, BecomeKnows
<1>5. CASE Extract(p)
  <2>1. PICK me : me = [old EXCEPT !.pc = "filling", !.start = played]
    OBVIOUS
  <2>2. /\ me.pc = "filling" /\ me.learn = old.learn /\ me.mine = old.mine
        /\ me.blob = old.blob /\ me.g = old.g
    BY <1>1, <2>1 DEF Processes
  <2>3. Become(p, me)
    BY <1>5, <2>1 DEF Extract
  <2> QED BY <2>2, <2>3, CarriesOn
<1>6. CASE Fill(p)
  <2> DEFINE dirs == In(old.blob)
  <2>1. PICK me : me = [old EXCEPT !.pc = "swapping", !.todo = dirs, !.learn = dirs,
                                   !.blob = NoArchive]
    OBVIOUS
  <2>2. Become(p, me)
    BY <1>6, <2>1 DEF Fill
  <2>3. \A d \in dirs : Right(d, old.g)
    BY <1>1 DEF Knows
  <2>4. /\ me.pc = "swapping" /\ me.learn = dirs /\ me.mine = old.mine
        /\ me.blob = NoArchive /\ me.g = old.g
    <3> HIDE DEF dirs
    <3> QED BY <1>1, <2>1 DEF Processes
  <2>5. Knows(p, me)
    <3> HIDE DEF dirs
    <3> QED BY <1>1, <2>3, <2>4 DEF Knows, In, NoArchive
  <2> QED BY <1>1, <2>2, <2>5, BecomeKnows
<1>7. CASE Swap(p)
  <2>1. PICK d \in old.todo :
          Become(p, [old EXCEPT !.dir = d, !.todo = @ \ {d},
                                !.pc = IF card[d] = NoDir THEN "moving" ELSE "backing"])
    BY <1>7 DEF Swap
  <2> DEFINE todo == old.todo \ {d}
             label == IF card[d] = NoDir THEN "moving" ELSE "backing"
  <2>2. PICK me : me = [old EXCEPT !.dir = d, !.todo = todo, !.pc = label]
    OBVIOUS
  <2>3. Become(p, me) /\ label \in {"moving", "backing"}
    BY <2>1, <2>2
  <2>4. /\ me.pc = label /\ me.learn = old.learn /\ me.mine = old.mine
        /\ me.blob = old.blob /\ me.g = old.g
    <3> HIDE DEF todo, label
    <3> QED BY <1>1, <2>2 DEF Processes
  <2> HIDE DEF label
  <2> QED BY <2>3, <2>4, CarriesOn
<1>8. CASE Move(p)
  <2> DEFINE label == IF old.todo = {} THEN "learning" ELSE "swapping"
  <2>1. PICK me : me = [old EXCEPT !.dir = NoDir, !.pc = label]
    OBVIOUS
  <2>2. Become(p, Operated) \/ Become(p, me)
    BY <1>8, <2>1 DEF Move
  <2>3. label \in {"learning", "swapping"}
    OBVIOUS
  <2>4. /\ me.pc = label /\ me.learn = old.learn /\ me.mine = old.mine
        /\ me.blob = old.blob /\ me.g = old.g
    <3> HIDE DEF label
    <3> QED BY <1>1, <2>1 DEF Processes
  <2> HIDE DEF label
  <2> QED BY <1>2, <2>2, <2>3, <2>4, CarriesOn
<1> QED BY <1>2, <1>3, <1>4, <1>5, <1>6, <1>7, <1>8 DEF Upload, TransferFails, Clear, BackUp

(* The completion and the end. *)
LEMMA CompletionKnows ==
    ASSUME HooksInv, AttributionInv, NEW p \in Procs,
           \/ Consume(p) \/ RemoveLog(p) \/ RemoveLogFails(p)
           \/ Complete(p) \/ CompleteFails(p) \/ Crash(p)
    PROVE  \E me : Turns(p, me) /\ Knows(p, me)
<1>1. TypeOK
  BY DEF HooksInv
<1>2. CASE Ends(p)
  BY <1>1, <1>2, IdleKnows, BecomeKnows DEF Ends
<1>3. CASE RemoveLog(p) \/ RemoveLogFails(p)
  BY <1>1, <1>3, GotoKnows DEF RemoveLog, RemoveLogFails
<1>4. CASE Consume(p) /\ ~Ends(p)
  <2>1. PICK me : me = [Process("removing", 0, NoGame) EXCEPT !.got = pending]
    OBVIOUS
  <2>2. Become(p, me)
    BY <1>4, <2>1 DEF Consume
  <2>3. me.pc = "removing" /\ me.learn = {} /\ me.mine = {} /\ me.blob = NoArchive
    BY <2>1 DEF Process
  <2>4. Knows(p, me)
    BY <2>3 DEF Knows, In, NoArchive
  <2> QED BY <1>1, <2>2, <2>4, BecomeKnows
<1> QED BY <1>2, <1>3, <1>4 DEF Complete, CompleteFails, Crash

LEMMA StepKnows ==
    ASSUME HooksInv, Fresh, AttributionInv, Tame, NEW p \in Procs, Step(p) \/ Fault(p)
    PROVE  \E me : Turns(p, me) /\ Knows(p, me)'
<1>1. CASE ReadStart(p)
  BY <1>1, ReadStartKnows
<1>2. CASE ~ReadStart(p)
  <2>1. \E me : Turns(p, me) /\ Knows(p, me)
    BY <1>2, RecordKnows, SurveyKnows, LearnKnows, PlanKnows, TransferKnows, CompletionKnows
       DEF Step, Fault
  <2> QED BY <2>1, TameKnows
<1> QED BY <1>1, <1>2

LEMMA StepAttribution ==
    ASSUME HooksInv, Fresh, AttributionInv, NEW p \in Procs, Step(p) \/ Fault(p)
    PROVE  AttributionInv'
<1>1. /\ Tame /\ TypeOK
      /\ \A d \in Dirs : d \in blurred' \/ dirMap'[d] \in {NoGame, scene'.owner[d]}
  BY StepTame DEF HooksInv, Tame
<1>2. PICK me : Turns(p, me) /\ Knows(p, me)'
  BY <1>1, StepKnows
<1>3. \A q \in Procs : Knows(q, proc[q])'
  <2>1. Knows(p, proc[p])'
    BY <1>2 DEF Turns
  <2>2. ASSUME NEW q \in Procs \ {p} PROVE Knows(q, proc[q])'
    <3>1. PICK you : you = proc[q]
      OBVIOUS
    <3>2. Knows(q, you)'
      BY <1>1, <3>1, TameKnows DEF AttributionInv
    <3>3. proc'[q] = you
      BY <1>2, <3>1 DEF Turns
    <3> QED BY <3>2, <3>3
  <2> QED BY <2>1, <2>2
<1>4. \A d : Open(d)' /\ changed'[d] # 0 =>
            changed'[d] <= played' /\ scene'.plays[changed'[d]] = scene'.owner[d]
  BY <1>1 DEF Tame, AttributionInv
<1>5. \A g \in Games : \A d \in In(bundles'[g]) : Right(d, g)'
  <2>1. CASE UNCHANGED bundles
    BY <1>1, <2>1 DEF AttributionInv, Tame, Right, In
  <2>2. CASE Upload(p)
    <3>1. \A d \in In(Pack(proc[p].mine)) : Right(d, proc[p].g)
      BY DEF AttributionInv, Knows, In, Pack
    <3>2. /\ bundles' \in {bundles, [bundles EXCEPT ![proc[p].g] = Pack(proc[p].mine)]}
          /\ bundles \in [Games -> Archives]
      BY <1>1, <2>2 DEF Upload, TypeOK
    <3>3. \A g \in Games : \A d \in In(bundles'[g]) : Right(d, g)
      BY <3>1, <3>2 DEF AttributionInv
    <3> QED BY <1>1, <3>3 DEF Tame, Right
  <2> QED BY <2>1, <2>2
       DEF Step, Fault, Truncate, Mark, ReadStart, ReadMarker, Log, Unmark, Survey, Learn, Remember,
           Plan, TryLock, Compare, Clear, Extract, Fill, Swap, BackUp, Move,
           TransferFails, RecordFails, Consume, RemoveLog,
           RemoveLogFails, Complete, CompleteFails, Crash, OnlyProc, OnlySessions, dirVars
<1> QED BY <1>1, <1>3, <1>4, <1>5 DEF AttributionInv

-----------------------------------------------------------------------------
(* The games. *)
LEMMA AroundAttribution ==
    ASSUME HooksInv, Fresh, AttributionInv,
           StartGame \/ Launch \/ Play \/ Quit \/ RunTimer \/ StoredElsewhere
    PROVE  AttributionInv'
<1>1. /\ TypeOK /\ scene.owner \in [Dirs -> Games] /\ UNCHANGED scene
      /\ played \in Nat /\ \A d : Open(d) => changed[d] \in Nat
  <2>1. /\ TypeOK /\ played \in Sessions \cup {0} /\ changed \in [Dirs -> Sessions \cup {0}]
        /\ scene \in Scene
    BY HooksAssumption DEF HooksInv, TypeOK
  <2>2. Sessions \subseteq Nat
    BY SessionsAssumption, FS_CardinalityType
  <2>3. scene.owner \in [Dirs -> Games]
    BY <2>1 DEF Scene
  <2>4. UNCHANGED scene
    BY DEF StartGame, Launch, Play, Quit, RunTimer, StoredElsewhere, OnlyProc
  <2>5. \A d : Open(d) => changed[d] \in Nat
    <3>1. \A d \in Dirs : changed[d] \in Sessions \cup {0}
      BY <2>1
    <3>2. 0 \in Nat
      OBVIOUS
    <3>3. Sessions \cup {0} \subseteq Nat
      BY <2>2, <3>2
    <3> QED BY <3>1, <3>3 DEF Open
  <2> QED BY <2>1, <2>2, <2>3, <2>4, <2>5
<1>2. CASE StartGame \/ Quit \/ RunTimer
  <2>1. /\ UNCHANGED <<blurred, dirMap, changed, bundles>> /\ played <= played'
        /\ played' \in Nat
    BY <1>1, <1>2 DEF StartGame, Quit, RunTimer, OnlyProc, dirVars
  <2>2. /\ \A d : Open(d)' <=> Open(d)
        /\ \A d \in Dirs : d \in blurred' \/ dirMap'[d] \in {NoGame, scene'.owner[d]}
        /\ \A g \in Games : \A d \in In(bundles'[g]) : Right(d, g)'
        /\ \A d : Open(d)' /\ changed'[d] # 0 =>
              changed'[d] <= played' /\ scene'.plays[changed'[d]] = scene'.owner[d]
    BY <1>1, <2>1 DEF Open, Right, In, AttributionInv
  <2>3. \E p \in Procs : \E me : Turns(p, me) /\ Knows(p, me)
    <3>1. CASE StartGame
      <4>1. Become(Starter, Process("truncating", played', scene.plays[played'])) /\ Starter \in Procs
        BY <3>1 DEF StartGame, Procs
      <4>2. Knows(Starter, Process("truncating", played', scene.plays[played']))
        BY NewKnows
      <4> QED BY <1>1, <4>1, <4>2, TurnsLemma
    <3>2. CASE Quit
      <4>1. Become(played, Process("ended", played, scene.plays[played])) /\ played \in Procs
        BY <3>2, SceneLemma DEF Quit, HooksInv, Procs, TypeOK
      <4>2. \A d : Open(d) /\ changed[d] > played => scene.owner[d] = scene.plays[played]
        BY <1>1 DEF AttributionInv
      <4>3. Knows(played, Process("ended", played, scene.plays[played]))
        BY <4>2, NewKnows
      <4> QED BY <1>1, <4>1, <4>3, TurnsLemma
    <3>3. CASE RunTimer
      <4>1. PICK d \in Dirs : Become(Timer, Process("surveying", 0, scene.owner[d]))
        BY <3>3 DEF RunTimer
      <4>2. Timer \in Procs /\ Knows(Timer, Process("surveying", 0, scene.owner[d]))
        BY NewKnows DEF Procs
      <4> QED BY <1>1, <4>1, <4>2, TurnsLemma
    <3> QED BY <1>2, <3>1, <3>2, <3>3
  <2>4. \A q, you : Knows(q, you) => Knows(q, you)'
    BY <1>1, <2>1, <2>2 DEF Knows, Right, In
  <2>5. \A q \in Procs : Knows(q, proc'[q])
    BY <2>3 DEF Turns, AttributionInv
  <2>6. \A q \in Procs : Knows(q, proc[q])'
    BY <2>4, <2>5
  <2> QED BY <2>2, <2>6 DEF AttributionInv
<1>3. CASE Launch \/ StoredElsewhere
  <2>1. UNCHANGED <<proc, blurred, dirMap, changed, played>>
    BY <1>3 DEF Launch, StoredElsewhere, dirVars
  <2>2. \A g \in Games : \A d \in In(bundles'[g]) : Right(d, g)
    <3>1. CASE Launch
      BY <3>1 DEF Launch, dirVars, AttributionInv
    <3>2. CASE StoredElsewhere
      <4>1. PICK g \in Games :
              bundles' = [bundles EXCEPT ![g] =
                            [d \in Dirs |-> IF scene.owner[d] = g THEN Far ELSE NoDir]]
        BY <3>2 DEF StoredElsewhere
      <4>2. bundles \in [Games -> Archives]
        BY <1>1 DEF TypeOK
      <4>3. \A d \in In([e \in Dirs |-> IF scene.owner[e] = g THEN Far ELSE NoDir]) : Right(d, g)
        BY DEF In, Right
      <4> QED BY <4>1, <4>2, <4>3 DEF AttributionInv
    <3> QED BY <1>3, <3>1, <3>2
  <2> QED BY <1>1, <2>1, <2>2 DEF AttributionInv, Open, Right, Knows, In
<1>4. CASE Play
  <2>1. PICK d \in Dirs :
          /\ scene.owner[d] = scene.plays[played]
          /\ changed' = [changed EXCEPT ![d] = played]
          /\ blurred' = IF dirMap[d] = NoGame /\ \E p \in Procs : Blurs(p, scene.owner[d])
                        THEN blurred \cup {d} ELSE blurred
    BY <1>4 DEF Play
  <2>2. UNCHANGED <<proc, dirMap, played, bundles>> /\ changed \in [Dirs -> Sessions \cup {0}]
    BY <1>1, <1>4 DEF Play, TypeOK
  <2>3. /\ blurred \subseteq blurred' /\ \A e : Open(e)' => Open(e)
        /\ \A e : Open(e)' => changed'[e] = changed[e] \/ e = d
        /\ changed'[d] = played
    BY <2>1, <2>2 DEF Open
  <2>4. \A e : Open(e)' /\ changed'[e] # 0 =>
            changed'[e] <= played' /\ scene'.plays[changed'[e]] = scene'.owner[e]
    BY <1>1, <2>1, <2>2, <2>3 DEF AttributionInv
  <2>5. ASSUME NEW q \in Procs PROVE Knows(q, proc[q])'
    <3>1. Knows(q, proc[q]) /\ proc'[q] = proc[q]
      BY <2>2 DEF AttributionInv
    <3>2. Open(d)' => ~Blurs(q, scene.owner[d])
      BY <2>1, <2>2 DEF Open
    <3>3. proc[q].pc = "ended" => q \in Sessions
      BY DEF Fresh, Recording
    <3>4. Open(d)' /\ q \in Sessions
              /\ proc[q].pc \in {"ended", "reading", "logging", "unmarking", "surveying"}
            => scene.owner[d] = proc[q].g
      BY <3>2 DEF Blurs
    <3> QED BY <1>1, <2>3, <3>1, <3>3, <3>4 DEF Knows, Right, In
  <2> QED BY <1>1, <2>2, <2>3, <2>4, <2>5 DEF AttributionInv, Right, In
<1> QED BY <1>2, <1>3, <1>4

LEMMA NextAttribution == HooksInv /\ Fresh /\ AttributionInv /\ [Next]_vars => AttributionInv'
<1> SUFFICES ASSUME HooksInv, Fresh, AttributionInv, [Next]_vars PROVE AttributionInv'
  OBVIOUS
<1>1. CASE UNCHANGED vars
  BY <1>1 DEF vars, dirVars, AttributionInv, Open, Right, Knows, In
<1>2. CASE Next
  BY <1>2, StepAttribution, AroundAttribution DEF Next
<1> QED BY <1>1, <1>2

LEMMA InitAttribution == Init => AttributionInv
<1> SUFFICES ASSUME Init PROVE AttributionInv
  OBVIOUS
<1>1. /\ changed = [d \in Dirs |-> 0] /\ bundles = [g \in Games |-> NoArchive]
      /\ proc = [p \in Procs |-> Idle] /\ dirMap = scene.map
      /\ \A d \in Dirs : scene.map[d] \in {NoGame, scene.owner[d]}
  BY HooksAssumption DEF Init
<1>2. \A p \in Procs : Knows(p, proc[p])
  BY <1>1, IdleKnows
<1> QED BY <1>1, <1>2 DEF AttributionInv, Open, In, NoArchive

(* A directory that two games' sessions could not be confused over is never
   uploaded, downloaded or remembered as another game's: the survey takes an
   unknown one only if it changed since the session began
   (save_sync.py:812-819), and what is fetched was stored as the game's. *)
THEOREM AttributionRight == Spec => []AttributedRight
<1>1. AttributionInv => AttributedRight
  BY DEF AttributionInv, AttributedRight
<1> QED
  BY <1>1, HooksInvariant, InitAccounts, NextAccounts, InitAttribution, NextAttribution, PTL DEF Spec
=============================================================================
