---------------------------- MODULE WatcherProofs ----------------------------
(***************************************************************************)
(* What holds of Watcher for any number of threads and changes, and any    *)
(* length of the quiet window and the cooldown.                            *)
(*                                                                         *)
(* That a change is not forgotten needs to know of the timers only that a  *)
(* thread which is off was cancelled by the one that set the next timer,   *)
(* or left by a way that records it; the quiet window needs that the timer *)
(* waiting is the last one set (TimerInv).                                 *)
(***************************************************************************)
EXTENDS Watcher, TLAPS

(* Everything the theorems below need of a reachable state. *)
WatchInv == TimerInv /\ NothingForgotten /\ TransfersExclude

(* The bound of the types that follows from the assumptions. *)
LEMMA Bounds == MaxChanges \in Nat /\ Debounce \in Nat /\ Cooldown \in Nat
  BY ConstantsAssumption

(* The first state: nothing happened and nothing waits. *)
LEMMA InitWatch == Init => WatchInv
  BY ConstantsAssumption
  DEF Init, WatchInv, TimerInv, TypeOK, NothingForgotten, TransfersExclude, At, Off, Labels

-----------------------------------------------------------------------------
(* Types. *)
LEMMA TypeStep ==
  ASSUME TimerInv, [Next]_vars
  PROVE  TypeOK'
<1> USE Bounds DEF TimerInv, TypeOK, Labels, At, Goto, Off, Armed
<1>1. CASE Change
  BY <1>1 DEF Change
<1>2. CASE Notice
  <2>1. PICK t \in Threads : Trigger(t)
    BY <1>2 DEF Notice
  <2>2. threads' \in [Threads -> [pc : Labels, left : 0..Debounce, saw : 0..changes]]
    <3> DEFINE thread == [pc : Labels, left : 0..Debounce, saw : 0..changes]
               cancelled == [u \in Threads |->
                               IF u = timer /\ At(u, "armed") THEN Off ELSE threads[u]]
    <3>1. Off \in thread /\ Armed \in thread
      OBVIOUS
    <3>2. cancelled \in [Threads -> thread]
      BY <3>1
    <3>3. threads' = [cancelled EXCEPT ![t] = Armed]
      BY <2>1 DEF Trigger
    <3> HIDE DEF thread, cancelled
    <3> QED
      BY <3>1, <3>2, <3>3 DEF thread
  <2>3. noted' \in 0..changes /\ given_up \in 0..noted'
    BY <1>2 DEF Notice
  <2>4. timer' \in Threads
    BY <2>1 DEF Trigger
  <2> QED
    BY <1>2, <2>2, <2>3, <2>4 DEF Notice
<1>3. CASE Tick
  <2>1. threads' \in [Threads -> [pc : Labels, left : 0..Debounce, saw : 0..changes]]
    <3> DEFINE thread == [pc : Labels, left : 0..Debounce, saw : 0..changes]
               later(t) == IF threads[t].left = 0 THEN threads[t]
                           ELSE [threads[t] EXCEPT !.left = @ - 1]
    <3>1. \A t \in Threads : later(t) \in thread
      OBVIOUS
    <3>2. threads' = [t \in Threads |-> later(t)]
      BY <1>3 DEF Tick
    <3> HIDE DEF thread, later
    <3> QED
      BY <3>1, <3>2 DEF thread
  <2>2. cool' \in 0..Cooldown /\ quiet' \in 0..Debounce
    BY <1>3 DEF Tick
  <2> QED
    BY <1>3, <2>1, <2>2 DEF Tick
<1>4. CASE Restart
  BY <1>4 DEF Restart
<1>5. CASE OtherLocks \/ OtherUnlocks
  BY <1>5 DEF OtherLocks, OtherUnlocks
<1>6. ASSUME NEW t \in Threads, Ring(t) \/ Run(t) \/ FailRun(t)
      PROVE  TypeOK'
  <2>1. CASE Ring(t)
    BY <2>1 DEF Ring
  <2>2. CASE Check(t)
    BY <2>2 DEF Check
  <2>3. CASE StartRun(t)
    BY <2>3 DEF StartRun
  <2>4. CASE Scan(t)
    BY <2>4 DEF Scan
  <2>5. CASE Lock(t)
    BY <2>5 DEF Lock, EndRun
  <2>6. CASE Transfer(t)
    BY <2>6 DEF Transfer, EndRun
  <2>7. CASE Stamp(t)
    BY <2>7 DEF Stamp
  <2>8. CASE FailRun(t)
    BY <2>8 DEF FailRun, EndRun
  <2> QED
    BY <1>6, <2>1, <2>2, <2>3, <2>4, <2>5, <2>6, <2>7, <2>8 DEF Run
<1>7. CASE UNCHANGED vars
  BY <1>7 DEF vars
<1> QED
  BY <1>1, <1>2, <1>3, <1>4, <1>5, <1>6, <1>7 DEF Next

(* Setting a timer ends the wait of the one before, and time brings the timer
   that waits and the quiet window forward together. *)
LEMMA TimerStep ==
  ASSUME TimerInv, [Next]_vars
  PROVE  TimerInv'
<1>1. TypeOK'
  BY TypeStep
<1>2. ASSUME NEW u \in Threads, threads'[u].pc = "armed"
      PROVE  u = timer' /\ threads'[u].left + quiet' = Debounce
  <2> USE Bounds DEF TimerInv, TypeOK, At, Goto, Off, Armed
  <2>1. CASE Change \/ OtherLocks \/ OtherUnlocks \/ UNCHANGED vars
    BY <1>2, <2>1 DEF Change, OtherLocks, OtherUnlocks, vars
  <2>2. CASE Notice
    <3>1. PICK t \in Threads : Trigger(t)
      BY <2>2 DEF Notice
    <3>2. u = t
      BY <1>2, <3>1 DEF Trigger
    <3>3. timer' = t /\ threads'[t].left = Debounce
      BY <3>1 DEF Trigger
    <3> QED
      BY <2>2, <3>2, <3>3 DEF Notice
  <2>3. CASE Tick
    <3>1. threads[u].pc = "armed"
      BY <1>2, <2>3 DEF Tick
    <3>2. threads'[u].left = IF threads[u].left = 0 THEN 0 ELSE threads[u].left - 1
      BY <2>3 DEF Tick
    <3> QED
      BY <2>3, <3>1, <3>2 DEF Tick
  <2>4. CASE Restart
    BY <1>2, <2>4 DEF Restart
  <2>5. ASSUME NEW t \in Threads, Ring(t) \/ Run(t) \/ FailRun(t)
        PROVE  /\ threads[u].pc = "armed" /\ threads'[u] = threads[u]
               /\ timer' = timer /\ quiet' = quiet
    BY <1>2, <2>5
    DEF Ring, Run, Check, StartRun, Scan, Lock, Transfer, Stamp, FailRun, EndRun
  <2>6. CASE \E t \in Threads : Ring(t) \/ Run(t) \/ FailRun(t)
    BY <2>5, <2>6
  <2> QED
    BY <2>1, <2>2, <2>3, <2>4, <2>6 DEF Next
<1> QED
  BY <1>1, <1>2 DEF TimerInv, At

-----------------------------------------------------------------------------
(* Only a sync that takes the free lock goes on to its transfers, and it gives
   the lock back when it ends. *)
LEMMA ExcludeStep ==
  ASSUME TimerInv, TransfersExclude, [Next]_vars
  PROVE  TransfersExclude'
<1> USE DEF TimerInv, TypeOK, At, Goto, Off, Armed, TransfersExclude
<1>1. CASE Change \/ Tick \/ UNCHANGED vars
  BY <1>1 DEF Change, Tick, vars
<1>2. CASE Notice
  BY <1>2 DEF Notice, Trigger
<1>3. CASE Restart
  BY <1>3 DEF Restart
<1>4. CASE OtherLocks \/ OtherUnlocks
  BY <1>4, ConstantsAssumption DEF OtherLocks, OtherUnlocks
<1>5. ASSUME NEW t \in Threads, Ring(t) \/ Run(t) \/ FailRun(t)
      PROVE  TransfersExclude'
  <2>1. CASE Lock(t)
    BY <2>1, ConstantsAssumption DEF Lock, EndRun
  <2>2. CASE Transfer(t) \/ FailRun(t)
    BY <2>2, ConstantsAssumption DEF Transfer, FailRun, EndRun
  <2>3. CASE Ring(t) \/ Check(t) \/ StartRun(t) \/ Scan(t) \/ Stamp(t)
    BY <2>3 DEF Ring, Check, StartRun, Scan, Stamp
  <2> QED
    BY <1>5, <2>1, <2>2, <2>3 DEF Run
<1> QED
  BY <1>1, <1>2, <1>3, <1>4, <1>5 DEF Next

(* A thread that will carry the last change goes on until it has, or the step
   that stops it records what was noted by then. *)
LEMMA ForgetStep ==
  ASSUME TimerInv, NothingForgotten, [Next]_vars
  PROVE  NothingForgotten'
<1> USE Bounds DEF TimerInv, TypeOK, At, Goto, Off, Armed
<1> SUFFICES ASSUME synced' < changes', ~(noted' < changes'), given_up' # changes'
             PROVE  \E u \in Threads : WillCarry(u)'
  BY DEF NothingForgotten
<1>0. TypeOK'
  BY TypeStep
<1>1. CASE Change
  BY <1>1 DEF Change
<1>2. CASE Notice
  <2>1. PICK t \in Threads : Trigger(t)
    BY <1>2 DEF Notice
  <2>2. threads'[t].pc = "armed"
    BY <2>1 DEF Trigger
  <2> QED
    BY <2>2 DEF WillCarry
<1>3. CASE Restart
  BY <1>3 DEF Restart
<1>4. ASSUME UNCHANGED <<changes, noted, given_up>>, synced <= synced'
      PROVE  \E u \in Threads : WillCarry(u)
  BY <1>0, <1>4 DEF NothingForgotten
<1>5. CASE Tick \/ OtherLocks \/ OtherUnlocks \/ UNCHANGED vars
  <2>1. PICK u \in Threads : WillCarry(u)
    BY <1>4, <1>5 DEF Tick, OtherLocks, OtherUnlocks, vars
  <2>2. threads'[u].pc = threads[u].pc /\ threads'[u].saw = threads[u].saw /\ changes' = changes
    BY <1>5 DEF Tick, OtherLocks, OtherUnlocks, vars
  <2> QED
    BY <2>1, <2>2 DEF WillCarry
<1>6. ASSUME NEW t \in Threads, Ring(t) \/ Run(t) \/ FailRun(t)
      PROVE  \E u \in Threads : WillCarry(u)'
  <2>1. changes' = changes /\ noted' = noted /\ noted = changes /\ given_up' # noted
    BY <1>0, <1>6
    DEF Ring, Run, Check, StartRun, Scan, Lock, Transfer, Stamp, FailRun, EndRun
  <2>2. given_up' = given_up
    BY <1>6, <2>1
    DEF Ring, Run, Check, StartRun, Scan, Lock, Transfer, Stamp, FailRun, EndRun
  <2>3. synced <= synced'
    BY <1>6
    DEF Ring, Run, Check, StartRun, Scan, Lock, Transfer, Stamp, FailRun, EndRun
  <2>4. PICK u \in Threads : WillCarry(u)
    BY <1>4, <2>1, <2>2, <2>3
  <2>5. CASE u # t
    <3>1. threads'[u] = threads[u]
      BY <1>6, <2>5
      DEF Ring, Run, Check, StartRun, Scan, Lock, Transfer, Stamp, FailRun, EndRun
    <3> QED
      BY <2>1, <2>4, <3>1 DEF WillCarry
  <2>6. CASE u = t
    <3>1. CASE Ring(t)
      BY <3>1 DEF Ring, WillCarry
    <3>2. CASE Check(t)
      BY <2>1, <3>2 DEF Check, WillCarry
    <3>3. CASE StartRun(t)
      BY <2>1, <3>3 DEF StartRun, WillCarry
    <3>4. CASE Scan(t)
      BY <3>4 DEF Scan, WillCarry
    <3>5. CASE Lock(t)
      BY <2>1, <2>4, <2>6, <3>5 DEF Lock, WillCarry
    <3>6. CASE Transfer(t)
      <4>1. threads[t].saw = changes
        BY <2>4, <2>6, <3>6 DEF Transfer, WillCarry
      <4>2. synced' = changes
        BY <3>6, <4>1 DEF Transfer
      <4> QED
        BY <2>1, <4>2
    <3>7. CASE Stamp(t)
      BY <2>4, <2>6, <3>7 DEF Stamp, WillCarry
    <3>8. CASE FailRun(t)
      BY <2>1, <3>8 DEF FailRun
    <3> QED
      BY <1>6, <3>1, <3>2, <3>3, <3>4, <3>5, <3>6, <3>7, <3>8 DEF Run
  <2> QED
    BY <2>5, <2>6
<1> QED
  BY <1>1, <1>2, <1>3, <1>5, <1>6 DEF Next

-----------------------------------------------------------------------------
(* WatchInv holds throughout. *)
THEOREM WatchSafe == Spec => []WatchInv
<1>1. ASSUME WatchInv, [Next]_vars
      PROVE  WatchInv'
  BY <1>1, TimerStep, ExcludeStep, ForgetStep DEF WatchInv
<1> QED
  BY InitWatch, <1>1, PTL DEF Spec

(* The timers of the watcher are in order: one waits at a time. *)
THEOREM TimersInOrder == Spec => []TimerInv
  BY WatchSafe, PTL DEF WatchInv

(* Cancelling timers loses no change, however runs and changes overlap. *)
THEOREM ForgetsNothing == Spec => []NothingForgotten
  BY WatchSafe, PTL DEF WatchInv

(* Overlapping runs never transfer at the same time. *)
THEOREM OneTransfers == Spec => []TransfersExclude
  BY WatchSafe, PTL DEF WatchInv

(* No timer rings before the quiet window is over. *)
THEOREM RingsWhenQuiet == Spec => Debounced
<1>1. ASSUME TimerInv, [Next]_vars
      PROVE  [\A t \in Threads : At(t, "armed") /\ At(t, "rung")' => quiet = Debounce]_vars
  <2> SUFFICES ASSUME NEW u \in Threads, Next, threads[u].pc = "armed", threads'[u].pc = "rung"
               PROVE  quiet = Debounce
    BY <1>1 DEF At
  <2> USE DEF TimerInv, TypeOK, At, Goto, Off, Armed
  <2>1. ~Change /\ ~Tick /\ ~Restart /\ ~OtherLocks /\ ~OtherUnlocks
    BY <1>1 DEF Change, Tick, Restart, OtherLocks, OtherUnlocks
  <2>2. ~Notice
    <3>1. ASSUME NEW t \in Threads, Trigger(t)
          PROVE  FALSE
      BY <1>1, <3>1 DEF Trigger
    <3> QED
      BY <3>1 DEF Notice
  <2>3. PICK t \in Threads : Ring(t) \/ Run(t) \/ FailRun(t)
    BY <2>1, <2>2 DEF Next
  <2>4. u = t /\ Ring(t)
    BY <1>1, <2>3 DEF Ring, Run, Check, StartRun, Scan, Lock, Transfer, Stamp, FailRun, EndRun
  <2> QED
    BY <1>1, <2>4, Bounds DEF Ring
<1> QED
  BY <1>1, TimersInOrder, PTL DEF Spec, Debounced
=============================================================================
