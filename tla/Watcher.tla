------------------------------- MODULE Watcher -------------------------------
(***************************************************************************)
(* `bifrost save watch`: a daemon that runs `bifrost save sync --apply`    *)
(* once the save directory has been quiet for a while.                     *)
(*                                                                         *)
(* The observer thread gives every change to a debounce timer; the timer   *)
(* is a thread that, when it rings, runs the sync itself and waits for it. *)
(* Cancelling a timer that rang already does nothing: a change during a    *)
(* run starts another thread beside it.  Time is counted down in ticks, so *)
(* that only the waits matter and never the date.                          *)
(***************************************************************************)
EXTENDS Naturals

CONSTANTS
    Threads,      \* timer threads: a bound on how many are alive at a time
    None,
    Other,        \* any other process that takes the save-sync lock
    Debounce,     \* _DEBOUNCE_SECONDS, in ticks
    Cooldown,     \* _COOLDOWN_SECONDS, in ticks
    Faults,       \* what may go wrong in this instance
    MaxChanges    \* bound on the changes of save files, restarts among them

ASSUME ConstantsAssumption ==
    /\ None \notin Threads /\ Other \notin Threads /\ None # Other
    /\ Debounce \in Nat /\ Cooldown \in Nat /\ MaxChanges \in Nat
    /\ Faults \subseteq {"run", "command", "restart", "lock"}

VARIABLES
    changes,   \* the number of changes of save files so far
    noted,     \* how many of them the observer has seen
    synced,    \* how many of them a sync of the watcher has carried to RomM
    threads,   \* the timer threads
    timer,     \* the debouncer's _timer
    cool,      \* ticks until a run is allowed again (from _last_sync_time)
    lock,      \* the holder of the save-sync flock
    given_up,  \* history: changes noted when a run was refused or failed
    quiet      \* history: ticks since the last noted change

vars == <<changes, noted, synced, threads, timer, cool, lock, given_up, quiet>>

(* A thread waits, has rung, starts the command, is in a sync that scans the
   files, locks and transfers, has seen the sync end. *)
Labels == {"off", "armed", "rung", "starting", "scanning", "locking", "syncing", "ended"}
Running == {"scanning", "locking", "syncing"}

Off == [pc |-> "off", left |-> 0, saw |-> 0]
Armed == [pc |-> "armed", left |-> Debounce, saw |-> 0]

(* time.monotonic() counts from the boot and _last_sync_time from 0: within
   the first minute the watcher takes itself for cooling. *)
Init ==
    /\ changes = 0 /\ noted = 0 /\ synced = 0 /\ given_up = 0
    /\ threads = [t \in Threads |-> Off]
    /\ timer = None
    /\ cool \in 0..Cooldown
    /\ lock = None
    /\ quiet = 0

-----------------------------------------------------------------------------
At(t, label) == threads[t].pc = label
Goto(t, label) == threads' = [threads EXCEPT ![t].pc = label]

(* The sync of a thread is over, its lock released. *)
EndRun(t) ==
    /\ Goto(t, "ended")
    /\ lock' = IF lock = t THEN None ELSE lock

(* The emulator writes a save, or a sync puts a download in place. *)
Change ==
    /\ changes < MaxChanges
    /\ changes' = changes + 1
    /\ UNCHANGED <<noted, synced, threads, timer, cool, lock, given_up, quiet>>

(* Mutant: a timer that is set is left alone, even once it rang. *)
TriggerOnce(t) ==
    /\ At(t, "off")
    /\ IF timer # None /\ ~At(timer, "off")
       THEN UNCHANGED <<threads, timer>>
       ELSE /\ threads' = [threads EXCEPT ![t] = Armed]
            /\ timer' = t

(* Mutant: the timer set before is not cancelled. *)
TriggerMore(t) ==
    /\ At(t, "off")
    /\ threads' = [threads EXCEPT ![t] = Armed]
    /\ timer' = t

(* Cancel the timer, if it still waits, and set a new one on thread t. *)
Trigger(t) ==
    LET cancelled == [u \in Threads |->
                        IF u = timer /\ At(u, "armed") THEN Off ELSE threads[u]]
    IN /\ cancelled[t].pc = "off"
       /\ threads' = [cancelled EXCEPT ![t] = Armed]
       /\ timer' = t

(* inotify tells of a change, or of some that came close together; a poll (where
   watchdog is not installed) tells once of all since the last. *)
Notice ==
    /\ noted' \in (noted + 1)..changes
    /\ \E t \in Threads : Trigger(t)
    /\ quiet' = 0
    /\ UNCHANGED <<changes, synced, cool, lock, given_up>>

Tick ==
    /\ cool' = IF cool = 0 THEN 0 ELSE cool - 1
    /\ quiet' = IF quiet = Debounce THEN quiet ELSE quiet + 1
    /\ threads' = [t \in Threads |->
                     IF threads[t].left = 0 THEN threads[t]
                     ELSE [threads[t] EXCEPT !.left = @ - 1]]
    /\ UNCHANGED <<changes, noted, synced, timer, lock, given_up>>

(* The wait of a timer is over: from now on it cannot be cancelled. *)
Ring(t) ==
    /\ At(t, "armed") /\ threads[t].left = 0
    /\ Goto(t, "rung")
    /\ UNCHANGED <<changes, noted, synced, timer, cool, lock, given_up, quiet>>

(* _run_sync: within the cooldown nothing is run, nor rescheduled. *)
Check(t) ==
    /\ At(t, "rung")
    /\ IF cool > 0
       THEN threads' = [threads EXCEPT ![t] = Off] /\ given_up' = noted
       ELSE Goto(t, "starting") /\ UNCHANGED given_up
    /\ UNCHANGED <<changes, noted, synced, timer, cool, lock, quiet>>

(* The command starts; when it is not there, not even the cooldown does. *)
StartRun(t) ==
    /\ At(t, "starting")
    /\ \/ Goto(t, "scanning") /\ UNCHANGED given_up
       \/ /\ "command" \in Faults
          /\ threads' = [threads EXCEPT ![t] = Off] /\ given_up' = noted
    /\ UNCHANGED <<changes, noted, synced, timer, cool, lock, quiet>>

(* The sync scans the save files, then takes the lock or gives up. *)
Scan(t) ==
    /\ At(t, "scanning")
    /\ threads' = [threads EXCEPT ![t] = [pc |-> "locking", left |-> 0, saw |-> changes]]
    /\ UNCHANGED <<changes, noted, synced, timer, cool, lock, given_up, quiet>>

(* Mutant: a refused lock is no failure of the sync. *)
LockShared(t) ==
    /\ At(t, "locking")
    /\ Goto(t, "syncing")
    /\ IF lock = None THEN lock' = t ELSE UNCHANGED lock
    /\ UNCHANGED <<changes, noted, synced, timer, cool, given_up, quiet>>

Lock(t) ==
    /\ At(t, "locking")
    /\ IF lock = None
       THEN Goto(t, "syncing") /\ lock' = t /\ UNCHANGED given_up
       ELSE EndRun(t) /\ given_up' = noted
    /\ UNCHANGED <<changes, noted, synced, timer, cool, quiet>>

Transfer(t) ==
    /\ At(t, "syncing")
    /\ synced' = IF threads[t].saw > synced THEN threads[t].saw ELSE synced
    /\ EndRun(t)
    /\ UNCHANGED <<changes, noted, timer, cool, given_up, quiet>>

(* The sync exits with an error, or hangs and is killed after 300 s. *)
FailRun(t) ==
    /\ "run" \in Faults
    /\ threads[t].pc \in Running
    /\ EndRun(t)
    /\ given_up' = noted
    /\ UNCHANGED <<changes, noted, synced, timer, cool, quiet>>

(* _last_sync_time, whatever came of the run. *)
Stamp(t) ==
    /\ At(t, "ended")
    /\ threads' = [threads EXCEPT ![t] = Off]
    /\ cool' = Cooldown
    /\ UNCHANGED <<changes, noted, synced, timer, lock, given_up, quiet>>

(* The service is restarted: its threads and their sync end with it, and the
   new one watches for what changes from now on.  (With the machine's restart
   the clock starts again as well.) *)
Restart ==
    /\ "restart" \in Faults
    /\ changes < MaxChanges
    /\ changes' = changes + 1 /\ noted' = changes + 1 /\ given_up' = changes + 1
    /\ threads' = [t \in Threads |-> Off]
    /\ timer' = None
    /\ cool' \in 0..Cooldown
    /\ lock' = IF lock \in Threads THEN None ELSE lock
    /\ UNCHANGED <<synced, quiet>>

(* Another process syncs: the hooks, the timer unit, the user. *)
OtherLocks ==
    /\ "lock" \in Faults
    /\ lock = None /\ lock' = Other
    /\ UNCHANGED <<changes, noted, synced, threads, timer, cool, given_up, quiet>>

OtherUnlocks ==
    /\ lock = Other /\ lock' = None
    /\ UNCHANGED <<changes, noted, synced, threads, timer, cool, given_up, quiet>>

Run(t) == Check(t) \/ StartRun(t) \/ Scan(t) \/ Lock(t) \/ Transfer(t) \/ Stamp(t)

Next ==
    \/ Change \/ Notice \/ Tick \/ Restart \/ OtherLocks \/ OtherUnlocks
    \/ \E t \in Threads : Ring(t) \/ Run(t) \/ FailRun(t)

Spec == Init /\ [][Next]_vars

(* Time passes, the observer is told, and threads run. *)
Fairness ==
    /\ WF_vars(Tick) /\ WF_vars(Notice)
    /\ \A t \in Threads : WF_vars(Ring(t)) /\ WF_vars(Run(t))

FairSpec == Spec /\ Fairness

-----------------------------------------------------------------------------
TypeOK ==
    /\ changes \in 0..MaxChanges
    /\ noted \in 0..changes /\ synced \in 0..changes /\ given_up \in 0..noted
    /\ threads \in [Threads -> [pc : Labels, left : 0..Debounce, saw : 0..changes]]
    /\ timer \in Threads \cup {None}
    /\ cool \in 0..Cooldown /\ quiet \in 0..Debounce
    /\ lock \in Threads \cup {None, Other}

(* Well typed; and of all timer threads only the debouncer's own still waits, for
   what the quiet window lacks: every other was cancelled or rang. *)
TimerInv ==
    /\ TypeOK
    /\ \A t \in Threads :
          At(t, "armed") => t = timer /\ threads[t].left + quiet = Debounce

(* Thread t is yet to look at all changes there are, or it has and is about
   to transfer them. *)
WillCarry(t) ==
    \/ threads[t].pc \in {"armed", "rung", "starting", "scanning"}
    \/ threads[t].pc \in {"locking", "syncing"} /\ threads[t].saw = changes

(* A change is never simply forgotten.  While RomM lacks the last change, the
   observer has not told of it yet, or a timer or a sync is still going to carry
   it, or a run was refused or failed after it: cancelling a timer, whatever
   its thread is doing, never loses the change that had set it. *)
NothingForgotten ==
    synced < changes =>
        \/ noted < changes
        \/ given_up = changes
        \/ \E t \in Threads : WillCarry(t)

(* The runs of the watcher may overlap, their transfers never do: of the
   threads whose command is past the lock there is one, the lock's holder. *)
TransfersExclude == \A t \in Threads : At(t, "syncing") => lock = t

(* "a 15-second quiet window after the last event before triggering"
   (watcher.py:4): no timer rings sooner, not even one set before the last. *)
Debounced ==
    [][\A t \in Threads : At(t, "armed") /\ At(t, "rung")' => quiet = Debounce]_vars

(* Every change is dealt with: carried to RomM, or dropped by a run that was
   refused (cooldown, lock, no command) or that failed. *)
DealtWith == synced < changes ~> (synced = changes \/ given_up = changes)

(* "saves reach RomM within seconds of an emulator writing them" (README.md:311):
   where nothing fails and nobody else syncs, a sync of the watcher carries
   every change, sooner or later. *)
SavesReach == synced < changes ~> synced = changes
=============================================================================
