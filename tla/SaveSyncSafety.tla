--------------------------- MODULE SaveSyncSafety ---------------------------
(***************************************************************************)
(* More about SaveSync, on top of its inductive invariant: hooks keep      *)
(* their direction, backups cover, and SaveVault is implemented.           *)
(***************************************************************************)
EXTENDS SaveSyncProofs

-----------------------------------------------------------------------------
(* Hooks. *)

(* Direction(p): what is planned and under way goes the way of the hook. *)
OneWay(p) ==
    LET me == proc[p]
    IN /\ me.pc \in {"idle", "survey", "negotiate"} => me.todo = {}
       /\ me.kind \in DownloadOnly =>
            /\ me.pc \notin Sending
            /\ \A op \in me.todo : op.act \in {"download", "conflict"}
       /\ me.kind \in UploadOnly =>
            /\ me.pc \notin Fetching
            /\ \A op \in me.todo : op.act \in {"upload", "conflict"}

(* A process that keeps its kind, drops operations and begins nothing that
   it was not at keeps its direction. *)
LEMMA StaysOneWay ==
    ASSUME NEW p \in Procs, OneWay(p),
           proc'[p].kind = proc[p].kind, proc'[p].todo \subseteq proc[p].todo,
           proc'[p].pc \in {"idle", "survey", "negotiate"} => proc[p].todo = {},
           proc'[p].pc \in Sending => proc[p].pc \in Sending,
           proc'[p].pc \in Fetching => proc[p].pc \in Fetching
    PROVE  OneWay(p)'
BY DEF OneWay

(* A process that is over has none. *)
LEMMA ExitOneWay ==
    ASSUME SafeInv, NEW p \in Procs, Exit(p)
    PROVE  OneWay(p)' /\ \A q \in Procs \ {p} : proc'[q] = proc[q]
<1>1. proc'[p] = IdleProc /\ \A q \in Procs \ {p} : proc'[q] = proc[q]
  BY ExitLemma
<1> QED BY <1>1, ConstantsAssumption DEF OneWay, IdleProc, Sending, Fetching,
           DownloadOnly, UploadOnly

(* Starting plans nothing yet. *)
LEMMA StartOneWay ==
    ASSUME SafeInv, NEW p \in Procs, OneWay(p), NEW kind, NEW scope, Start(p, kind, scope)
    PROVE  OneWay(p)' /\ \A q \in Procs \ {p} : proc'[q] = proc[q]
<1>1. proc \in [Procs -> ProcState] /\ proc[p].pc = "idle"
  BY DEF SafeInv, TypeOK, Start, At
<1>2. proc' = [proc EXCEPT ![p] =
                 [proc[p] EXCEPT !.pc = "survey", !.kind = kind, !.scope = scope]]
  BY DEF Start
<1>3. proc'[p].pc = "survey" /\ proc'[p].todo = proc[p].todo
      /\ \A q \in Procs \ {p} : proc'[q] = proc[q]
  BY <1>1, <1>2 DEF ProcState
<1> QED BY <1>1, <1>3 DEF OneWay, Sending, Fetching

(* Planning keeps what goes the hook's way. *)
LEMMA NegotiateOneWay ==
    ASSUME SafeInv, NEW p \in Procs, OneWay(p), Negotiate(p)
    PROVE  OneWay(p)' /\ \A q \in Procs \ {p} : proc'[q] = proc[q]
<1>1. PICK answer \in [proc[p].scope -> [act : Act, row : File]] :
        proc' = [proc EXCEPT
              ![p].pc = "lock",
              ![p].view = NoView,
              ![p].todo = {[save |-> s, act |-> answer[s].act, row |-> answer[s].row] :
                             s \in {t \in proc[p].scope : Kept(p, t, answer[t])}}]
  BY DEF Negotiate
<1> DEFINE todo == {[save |-> s, act |-> answer[s].act, row |-> answer[s].row] :
                      s \in {t \in proc[p].scope : Kept(p, t, answer[t])}}
<1>2. /\ proc[p].kind \in DownloadOnly => \A op \in todo : op.act \in {"download", "conflict"}
      /\ proc[p].kind \in UploadOnly => \A op \in todo : op.act \in {"upload", "conflict"}
  BY DEF Kept
<1>3. proc \in [Procs -> ProcState]
  BY DEF SafeInv, TypeOK
<1>4. proc' = [proc EXCEPT ![p] =
                 [proc[p] EXCEPT !.pc = "lock", !.view = NoView, !.todo = todo]]
  BY <1>1
<1> HIDE DEF todo
<1>5. proc'[p].pc = "lock" /\ proc'[p].kind = proc[p].kind /\ proc'[p].todo = todo
      /\ \A q \in Procs \ {p} : proc'[q] = proc[q]
  BY <1>3, <1>4 DEF ProcState
<1> QED BY <1>2, <1>5 DEF OneWay, Sending, Fetching

(* So do taking an operation up, whose resolution follows the hook, *)
LEMMA BeginOneWay ==
    ASSUME SafeInv, NEW p \in Procs, OneWay(p),
           BeginUpload(p) \/ BeginDownload(p) \/ SkipConflict(p)
    PROVE  OneWay(p)' /\ \A q \in Procs \ {p} : proc'[q] = proc[q]
<1>1. /\ proc \in [Procs -> ProcState] /\ proc[p] \in ProcState /\ At(p, "next")
  BY DEF SafeInv, TypeOK, BeginUpload, BeginDownload, SkipConflict
<1>2. ASSUME NEW op \in proc[p].todo, Drop(p, op)
      PROVE  OneWay(p)' /\ \A q \in Procs \ {p} : proc'[q] = proc[q]
  <2>1. proc' = [proc EXCEPT ![p] = [proc[p] EXCEPT !.todo = @ \ {op}]]
    BY <1>2 DEF Drop
  <2>2. /\ proc'[p].kind = proc[p].kind /\ proc'[p].pc = proc[p].pc
        /\ proc'[p].todo \subseteq proc[p].todo
        /\ \A q \in Procs \ {p} : proc'[q] = proc[q]
    BY <1>1, <2>1 DEF ProcState
  <2>3. proc[p].pc = "next"
    BY <1>1 DEF At
  <2> QED BY <2>2, <2>3, StaysOneWay
<1>3. ASSUME NEW op \in proc[p].todo, NEW label, NEW buf, TakeUp(p, op, label, buf),
             \/ label \in Sending /\ proc[p].kind \notin DownloadOnly
             \/ label = "get" /\ proc[p].kind \notin UploadOnly
      PROVE  OneWay(p)' /\ \A q \in Procs \ {p} : proc'[q] = proc[q]
  <2>1. proc' = [proc EXCEPT ![p] = [proc[p] EXCEPT !.pc = label, !.cur = op, !.buf = buf,
                                                    !.todo = @ \ {op}]]
    BY <1>3 DEF TakeUp
  <2>2. /\ proc'[p].kind = proc[p].kind /\ proc'[p].pc = label
        /\ proc'[p].todo \subseteq proc[p].todo
        /\ \A q \in Procs \ {p} : proc'[q] = proc[q]
    BY <1>1, <2>1 DEF ProcState
  <2> QED BY <1>3, <2>2 DEF OneWay, Sending, Fetching, DownloadOnly, UploadOnly
<1>4. CASE BeginUpload(p)
  <2>1. PICK op \in proc[p].todo :
          /\ "upload" \in Resolve(p, op)
          /\ \/ Drop(p, op)
             \/ \E label \in {"post", "lookup"} : \E buf : TakeUp(p, op, label, buf)
    BY <1>4 DEF BeginUpload
  <2>2. proc[p].kind \notin DownloadOnly
    BY <2>1 DEF Resolve, OneWay
  <2> QED BY <1>2, <1>3, <2>1, <2>2 DEF Sending
<1>5. CASE BeginDownload(p)
  <2>1. PICK op \in proc[p].todo :
          /\ "download" \in Resolve(p, op)
          /\ Drop(p, op) \/ TakeUp(p, op, "get", None)
    BY <1>5 DEF BeginDownload
  <2>2. proc[p].kind \notin UploadOnly
    BY <2>1 DEF Resolve, OneWay, DownloadOnly, UploadOnly
  <2> QED BY <1>2, <1>3, <2>1, <2>2
<1>6. CASE SkipConflict(p)
  BY <1>2, <1>6 DEF SkipConflict
<1> QED BY <1>4, <1>5, <1>6

(* and whatever else a process does. *)
LEMMA OtherOneWay ==
    ASSUME SafeInv, NEW p \in Procs, OneWay(p),
           \/ Survey(p) \/ LookUp(p) \/ Link(p) \/ Post(p) \/ Get(p) \/ Backup(p)
           \/ WritePart(p) \/ Replace(p) \/ Confirm(p)
           \/ TimeoutFailsOperation(p) \/ TimeoutInBackup(p) \/ TimeoutRetried(p)
    PROVE  OneWay(p)' /\ \A q \in Procs \ {p} : proc'[q] = proc[q]
<1>1. proc \in [Procs -> ProcState] /\ proc[p] \in ProcState
  BY DEF SafeInv, TypeOK
<1> DEFINE Moves(label) ==
             /\ proc'[p].kind = proc[p].kind /\ proc'[p].pc = label
             /\ proc'[p].todo = proc[p].todo
             /\ \A q \in Procs \ {p} : proc'[q] = proc[q]
<1>2. Advance(p) => Moves("next")
  BY <1>1 DEF Advance, ProcState
<1>3. \A label : Goto(p, label) => Moves(label)
  BY <1>1 DEF Goto, ProcState
<1>4. CASE Survey(p)
  <2>1. PICK snap, view :
          proc' = [proc EXCEPT ![p].pc = "negotiate", ![p].snap = snap, ![p].view = view]
    BY <1>4 DEF Survey
  <2>2. Moves("negotiate")
    BY <1>1, <2>1 DEF ProcState
  <2>3. proc[p].todo = {}
    BY <1>4 DEF Survey, At, OneWay
  <2> QED BY <2>2, <2>3, StaysOneWay DEF Sending, Fetching
<1>5. CASE LookUp(p)
  <2>1. \E label \in {"next", "link", "post"} : Moves(label)
    BY <1>2, <1>3, <1>5 DEF LookUp
  <2>2. proc[p].pc \in Sending
    BY <1>5 DEF LookUp, At, Sending
  <2> QED BY <2>1, <2>2, StaysOneWay DEF Sending, Fetching
<1>6. CASE Link(p) \/ Post(p) \/ Confirm(p)
  <2>1. Moves("next")
    BY <1>2, <1>6 DEF Link, Post, Confirm, Request
  <2> QED BY <2>1, StaysOneWay DEF Sending, Fetching
<1>7. CASE Get(p)
  <2>1. \/ Advance(p)
        \/ proc' = [proc EXCEPT ![p].pc = "backup", ![p].buf = proc[p].cur.row]
    BY <1>7 DEF Get, Request
  <2>2. Moves("next") \/ Moves("backup")
    BY <1>1, <1>2, <2>1 DEF ProcState
  <2>3. proc[p].pc \in Fetching
    BY <1>7 DEF Get, At, Fetching
  <2> QED BY <2>2, <2>3, StaysOneWay DEF Sending, Fetching
<1>8. CASE Backup(p) \/ WritePart(p) \/ Replace(p)
  <2>1. \E label \in {"next", "part", "replace", "confirm"} : Moves(label)
    BY <1>2, <1>3, <1>8 DEF Backup, WritePart, Replace
  <2>2. proc[p].pc \in Fetching
    BY <1>8 DEF Backup, WritePart, Replace, At, Fetching
  <2> QED BY <2>1, <2>2, StaysOneWay DEF Sending, Fetching
<1>9. CASE TimeoutFailsOperation(p)
  <2>1. Moves("next")
    BY <1>1, <1>9 DEF TimeoutFailsOperation, ProcState
  <2> QED BY <2>1, StaysOneWay DEF Sending, Fetching
<1>10. CASE TimeoutInBackup(p)
  <2>1. Moves("part") /\ proc[p].pc = "backup"
    BY <1>1, <1>10 DEF TimeoutInBackup, At, ProcState
  <2> QED BY <2>1, StaysOneWay DEF Sending, Fetching
<1>11. CASE TimeoutRetried(p)
  <2>1. Moves(proc[p].pc)
    BY <1>1, <1>11 DEF TimeoutRetried, ProcState
  <2> QED BY <2>1, StaysOneWay DEF OneWay
<1> QED BY <1>4, <1>5, <1>6, <1>7, <1>8, <1>9, <1>10, <1>11

(* Locking changes no plan. *)
LEMMA LockOneWay ==
    ASSUME SafeInv, NEW p \in Procs, OneWay(p), TryLock(p) \/ TimeoutInScan(p)
    PROVE  OneWay(p)' /\ \A q \in Procs \ {p} : proc'[q] = proc[q]
<1>1. proc \in [Procs -> ProcState] /\ proc[p] \in ProcState
  BY DEF SafeInv, TypeOK
<1>2. CASE TryLock(p) /\ lock # None
  BY <1>2, ExitOneWay DEF TryLock
<1>3. CASE TryLock(p) /\ lock = None
  <2>1. proc' = [proc EXCEPT ![p] = [proc[p] EXCEPT !.pc = "next", !.snap = local]]
    BY <1>3 DEF TryLock
  <2>2. /\ proc'[p].kind = proc[p].kind /\ proc'[p].pc = "next"
        /\ proc'[p].todo = proc[p].todo
        /\ \A q \in Procs \ {p} : proc'[q] = proc[q]
    BY <1>1, <2>1 DEF ProcState
  <2> QED BY <2>2, StaysOneWay DEF Sending, Fetching
<1>4. CASE TimeoutInScan(p)
  <2>1. PICK snap :
          \/ At(p, "negotiate") /\ proc' = [proc EXCEPT ![p].timed_out = TRUE, ![p].snap = snap]
          \/ At(p, "lock") /\ proc' = [proc EXCEPT ![p].pc = "next", ![p].timed_out = TRUE,
                                                   ![p].snap = snap]
    BY <1>4 DEF TimeoutInScan
  <2>2. /\ proc'[p].kind = proc[p].kind /\ proc'[p].todo = proc[p].todo
        /\ proc'[p].pc = proc[p].pc \/ proc'[p].pc = "next"
        /\ \A q \in Procs \ {p} : proc'[q] = proc[q]
    BY <1>1, <2>1 DEF ProcState
  <2> QED BY <2>2, StaysOneWay DEF Sending, Fetching, OneWay
<1> QED BY <1>2, <1>3, <1>4

(* Every step keeps every process's direction. *)
LEMMA NextOneWay ==
    SafeInv /\ (\A p \in Procs : OneWay(p)) /\ [Next]_vars => (\A p \in Procs : OneWay(p))'
<1> SUFFICES ASSUME SafeInv, \A p \in Procs : OneWay(p), [Next]_vars
             PROVE  \A q \in Procs : OneWay(q)'
  OBVIOUS
<1>1. CASE UNCHANGED proc
  BY <1>1 DEF OneWay
<1>2. ASSUME NEW p \in Procs, OneWay(p)' /\ \A q \in Procs \ {p} : proc'[q] = proc[q]
      PROVE  \A q \in Procs : OneWay(q)'
  BY <1>2 DEF OneWay
<1>3. ASSUME NEW p \in Procs, NEW kind \in AllKinds, NEW scope \in SUBSET Saves,
             Start(p, kind, scope)
      PROVE  \A q \in Procs : OneWay(q)'
  BY <1>2, <1>3, StartOneWay
<1>4. ASSUME NEW p \in Procs, Step(p) \/ Failure(p)
      PROVE  \A q \in Procs : OneWay(q)'
  <2>1. CASE Finish(p) \/ Abort(p) \/ Crash(p) \/ TimeoutEndsCommand(p)
    BY <1>2, <2>1, ExitOneWay DEF Finish, Abort, Crash, TimeoutEndsCommand
  <2>2. CASE Negotiate(p)
    BY <1>2, <2>2, NegotiateOneWay
  <2>3. CASE TryLock(p) \/ TimeoutInScan(p)
    BY <1>2, <2>3, LockOneWay
  <2>4. CASE BeginUpload(p) \/ BeginDownload(p) \/ SkipConflict(p)
    BY <1>2, <2>4, BeginOneWay
  <2>5. CASE \/ Survey(p) \/ LookUp(p) \/ Link(p) \/ Post(p) \/ Get(p) \/ Backup(p)
             \/ WritePart(p) \/ Replace(p) \/ Confirm(p)
             \/ TimeoutFailsOperation(p) \/ TimeoutInBackup(p) \/ TimeoutRetried(p)
    BY <1>2, <2>5, OtherOneWay
  <2> QED BY <1>4, <2>1, <2>2, <2>3, <2>4, <2>5 DEF Step, Failure
<1>5. ASSUME NEW s \in Saves, Environment(s) PROVE UNCHANGED proc
  BY <1>5 DEF Environment, Play, DeleteFile, Untrack, OtherDevice
<1> QED BY <1>1, <1>3, <1>4, <1>5 DEF Next, vars

(* A game-start sync never stores, a game-end, quit or suspend sync never
   fetches, whatever goes wrong on the way (cli.py:1689-1713). *)
THEOREM HooksKeepDirection == Spec => []HooksOneWay
<1>1. Init => \A p \in Procs : OneWay(p)
  BY ConstantsAssumption DEF Init, IdleProc, OneWay, Sending, Fetching, DownloadOnly, UploadOnly
<1>2. (\A p \in Procs : OneWay(p)) => HooksOneWay
  BY DEF OneWay, HooksOneWay
<1> QED BY <1>1, <1>2, NextOneWay, Safe, PTL DEF Spec

-----------------------------------------------------------------------------
(* Backups.  They cover when no backup fails and no alarm cuts one short. *)

BackupsSucceed == {"backup", "alarm"} \cap Faults = {}

(* The process moves to `label`, the others stay where they are. *)
PcMove(p, label) ==
    proc'[p].pc = label /\ \A q \in Procs \ {p} : proc'[q] = proc[q]

(* Where the steps of the preview lead, *)
LEMMA PreviewMoves ==
    ASSUME SafeInv, NEW p \in Procs
    PROVE  /\ \A kind, scope : Start(p, kind, scope) => PcMove(p, "survey")
           /\ Survey(p) => PcMove(p, "negotiate")
           /\ Negotiate(p) => PcMove(p, "lock")
           /\ Exit(p) => PcMove(p, "idle")
           /\ TryLock(p) => PcMove(p, "idle") \/ PcMove(p, "next")
<1>1. proc \in [Procs -> ProcState] /\ proc[p] \in ProcState
  BY DEF SafeInv, TypeOK
<1>2. ASSUME NEW kind, NEW scope, Start(p, kind, scope) PROVE PcMove(p, "survey")
  BY <1>1, <1>2 DEF Start, PcMove, ProcState
<1>3. ASSUME Survey(p) PROVE PcMove(p, "negotiate")
  <2>1. PICK snap, view :
          proc' = [proc EXCEPT ![p].pc = "negotiate", ![p].snap = snap, ![p].view = view]
    BY <1>3 DEF Survey
  <2> QED BY <1>1, <2>1 DEF PcMove, ProcState
<1>4. ASSUME Negotiate(p) PROVE PcMove(p, "lock")
  <2>1. PICK todo :
          proc' = [proc EXCEPT ![p].pc = "lock", ![p].view = NoView, ![p].todo = todo]
    BY <1>4 DEF Negotiate
  <2> QED BY <1>1, <2>1 DEF PcMove, ProcState
<1>5. ASSUME Exit(p) PROVE PcMove(p, "idle")
  BY <1>5, ExitLemma DEF PcMove, IdleProc
<1>6. ASSUME TryLock(p) PROVE PcMove(p, "idle") \/ PcMove(p, "next")
  BY <1>1, <1>5, <1>6 DEF TryLock, PcMove, ProcState
<1> QED BY <1>2, <1>3, <1>4, <1>5, <1>6

(* and those of the execution, other than its file operations. *)
LEMMA TransferMoves ==
    ASSUME SafeInv, NEW p \in Procs,
           \/ BeginUpload(p) \/ BeginDownload(p) \/ SkipConflict(p)
           \/ LookUp(p) \/ Link(p) \/ Post(p) \/ Get(p) \/ Confirm(p)
    PROVE  \E label \in {"next", "lookup", "link", "post", "get", "backup"} : PcMove(p, label)
<1>1. proc \in [Procs -> ProcState] /\ proc[p] \in ProcState
  BY DEF SafeInv, TypeOK
<1>2. Advance(p) => PcMove(p, "next")
  BY <1>1 DEF Advance, PcMove, ProcState
<1>3. \A label : Goto(p, label) => PcMove(p, label)
  BY <1>1 DEF Goto, PcMove, ProcState
<1>4. ASSUME NEW op, NEW label, NEW buf, TakeUp(p, op, label, buf) PROVE PcMove(p, label)
  BY <1>1, <1>4 DEF TakeUp, PcMove, ProcState
<1>5. ASSUME NEW op, Drop(p, op), At(p, "next") PROVE PcMove(p, "next")
  BY <1>1, <1>5 DEF Drop, At, PcMove, ProcState
<1>6. CASE BeginUpload(p)
  <2>1. \E op : Drop(p, op) \/ \E label \in {"post", "lookup"} : \E buf : TakeUp(p, op, label, buf)
    BY <1>6 DEF BeginUpload
  <2> QED BY <1>4, <1>5, <1>6, <2>1 DEF BeginUpload
<1>7. CASE BeginDownload(p)
  <2>1. \E op : Drop(p, op) \/ TakeUp(p, op, "get", None)
    BY <1>7 DEF BeginDownload
  <2> QED BY <1>4, <1>5, <1>7, <2>1 DEF BeginDownload
<1>8. CASE SkipConflict(p)
  BY <1>5, <1>8 DEF SkipConflict
<1>9. CASE LookUp(p)
  <2>1. Advance(p) \/ Goto(p, "link") \/ Goto(p, "post")
    BY <1>9 DEF LookUp
  <2> QED BY <1>2, <1>3, <2>1
<1>10. CASE Link(p) \/ Post(p) \/ Confirm(p)
  BY <1>2, <1>10 DEF Link, Post, Confirm, Request
<1>11. CASE Get(p)
  <2>1. \/ Advance(p)
        \/ proc' = [proc EXCEPT ![p].pc = "backup", ![p].buf = proc[p].cur.row]
    BY <1>11 DEF Get, Request
  <2>2. proc' = [proc EXCEPT ![p].pc = "backup", ![p].buf = proc[p].cur.row]
          => PcMove(p, "backup")
    BY <1>1 DEF PcMove, ProcState
  <2> QED BY <1>2, <2>1, <2>2
<1> QED BY <1>6, <1>7, <1>8, <1>9, <1>10, <1>11

(* Nothing of the files changes, and nobody gets to where it writes them. *)
LEMMA QuietCovers ==
    ASSUME BackupCovers, NEW p \in Procs, NEW label \in Labels \ {"part", "replace"},
           PcMove(p, label), UNCHANGED <<local, bak, fresh>>
    PROVE  BackupCovers'
BY DEF BackupCovers, InWindow, PcMove

(* Only the lock's holder is between its backup and its rename. *)
LEMMA WindowIsOne ==
    ASSUME SafeInv, NEW p \in Procs, NEW q \in Procs, InWindow(q), proc[p].pc \in Executing
    PROVE  p = q
BY DEF SafeInv, LockHeld, InWindow, Executing, Sending, Fetching

(* A backup covers, *)
LEMMA BackupCoversStep ==
    ASSUME BackupsSucceed, SafeInv, BackupCovers, NEW p \in Procs, Backup(p)
    PROVE  BackupCovers'
<1> DEFINE s == proc[p].cur.save
<1>1. /\ proc \in [Procs -> ProcState] /\ proc[p] \in ProcState /\ proc[p].pc = "backup"
      /\ s \in Saves
  BY DEF Backup, At, SafeInv, TypeOK, TransferReady, Fetching, Op
<1>2. /\ proc' = [proc EXCEPT ![p] = [proc[p] EXCEPT !.pc = "part"]]
      /\ bak' = IF local[s] = None THEN bak ELSE [bak EXCEPT ![s] = local[s]]
      /\ local' = local
  BY DEF Backup, Goto, BackupsSucceed
<1>3. /\ proc'[p].cur = proc[p].cur
      /\ \A q \in Procs \ {p} : proc'[q] = proc[q] /\ ~InWindow(q)
  BY <1>1, <1>2, WindowIsOne DEF ProcState, Executing, Fetching
<1>4. local'[s] \in {None, bak'[s]}
  BY <1>1, <1>2 DEF SafeInv, TypeOK
<1> QED BY <1>3, <1>4 DEF BackupCovers, InWindow

(* writing the .part takes nothing from it, *)
LEMMA WritePartCoversStep ==
    ASSUME SafeInv, BackupCovers, NEW p \in Procs, WritePart(p)
    PROVE  BackupCovers'
<1>1. proc \in [Procs -> ProcState] /\ proc[p] \in ProcState /\ InWindow(p)
      /\ UNCHANGED <<local, bak, fresh>>
  BY DEF WritePart, At, InWindow, SafeInv, TypeOK
<1>2. CASE Goto(p, "replace")
  <2>1. proc' = [proc EXCEPT ![p] = [proc[p] EXCEPT !.pc = "replace"]]
    BY <1>2 DEF Goto
  <2>2. proc'[p].cur = proc[p].cur /\ \A q \in Procs \ {p} : proc'[q] = proc[q]
    BY <1>1, <2>1 DEF ProcState
  <2> QED BY <1>1, <2>2 DEF BackupCovers, InWindow
<1>3. CASE Advance(p)
  <2>1. PcMove(p, "next")
    BY <1>1, <1>3 DEF Advance, PcMove, ProcState
  <2> QED BY <1>1, <2>1, QuietCovers DEF Labels
<1> QED BY <1>2, <1>3 DEF WritePart

(* and the rename ends the need for it, no other download being under way. *)
LEMMA ReplaceCoversStep ==
    ASSUME SafeInv, BackupCovers, NEW p \in Procs, Replace(p)
    PROVE  BackupCovers'
<1>1. proc \in [Procs -> ProcState] /\ proc[p] \in ProcState /\ proc[p].pc = "replace"
  BY DEF Replace, At, SafeInv, TypeOK
<1>2. Advance(p) \/ Goto(p, "confirm")
  BY DEF Replace
<1>3. PcMove(p, "next") \/ PcMove(p, "confirm")
  BY <1>1, <1>2 DEF Advance, Goto, PcMove, ProcState
<1>4. \A q \in Procs \ {p} : ~InWindow(q)
  BY <1>1, WindowIsOne DEF Executing, Fetching
<1> QED BY <1>3, <1>4 DEF BackupCovers, InWindow, PcMove

(* What happens outside the processes leaves a file covered, gone or fresh. *)
LEMMA OutsideCoversStep ==
    ASSUME SafeInv, BackupCovers, NEW s \in Saves, Environment(s)
    PROVE  BackupCovers'
<1>1. CASE Play(s)
  BY <1>1 DEF Play, BackupCovers, InWindow, SafeInv, TypeOK
<1>2. CASE DeleteFile(s)
  BY <1>2 DEF DeleteFile, BackupCovers, InWindow, SafeInv, TypeOK
<1>3. CASE Untrack(s) \/ OtherDevice(s)
  BY <1>3 DEF Untrack, OtherDevice, diskVars, BackupCovers, InWindow
<1> QED BY <1>1, <1>2, <1>3 DEF Environment

(* Every step keeps backups covering. *)
LEMMA NextCovers ==
    ASSUME BackupsSucceed
    PROVE  SafeInv /\ BackupCovers /\ [Next]_vars => BackupCovers'
<1> SUFFICES ASSUME SafeInv, BackupCovers, [Next]_vars PROVE BackupCovers'
  OBVIOUS
<1>1. CASE UNCHANGED vars
  BY <1>1 DEF vars, BackupCovers, InWindow
<1>2. ASSUME NEW p \in Procs, NEW kind \in AllKinds, NEW scope \in SUBSET Saves,
             Start(p, kind, scope)
      PROVE  BackupCovers'
  <2>1. PcMove(p, "survey") /\ UNCHANGED <<local, bak, fresh>>
    BY <1>2, PreviewMoves DEF Start, diskVars
  <2> QED BY <2>1, QuietCovers DEF Labels
<1>3. ASSUME NEW p \in Procs, Step(p) PROVE BackupCovers'
  <2>1. CASE Survey(p) \/ Negotiate(p) \/ TryLock(p) \/ Finish(p)
    <3>1. \E label \in {"negotiate", "lock", "idle", "next"} : PcMove(p, label)
      BY <2>1, PreviewMoves DEF Finish
    <3>2. UNCHANGED <<local, bak, fresh>>
      BY <2>1 DEF Survey, Negotiate, TryLock, Finish, diskVars
    <3> QED BY <3>1, <3>2, QuietCovers DEF Labels
  <2>2. CASE \/ BeginUpload(p) \/ BeginDownload(p) \/ SkipConflict(p)
             \/ LookUp(p) \/ Link(p) \/ Post(p) \/ Get(p) \/ Confirm(p)
    <3>1. \E label \in {"next", "lookup", "link", "post", "get", "backup"} : PcMove(p, label)
      BY <2>2, TransferMoves
    <3>2. UNCHANGED <<local, bak, fresh>>
      BY <2>2 DEF BeginUpload, BeginDownload, SkipConflict, LookUp, Link, Post, Get,
                  Confirm, diskVars
    <3> QED BY <3>1, <3>2, QuietCovers DEF Labels
  <2> QED BY <1>3, <2>1, <2>2, BackupCoversStep, WritePartCoversStep, ReplaceCoversStep
          DEF Step
<1>4. ASSUME NEW p \in Procs, Failure(p) PROVE BackupCovers'
  <2>1. Abort(p) \/ Crash(p)
    BY <1>4 DEF Failure, TimeoutEndsCommand, TimeoutFailsOperation, TimeoutInBackup,
                TimeoutRetried, TimeoutInScan, Timeout, BackupsSucceed
  <2>2. PcMove(p, "idle") /\ UNCHANGED <<local, bak, fresh>>
    BY <2>1, PreviewMoves DEF Abort, Crash, diskVars
  <2> QED BY <2>2, QuietCovers DEF Labels
<1> QED BY <1>1, <1>2, <1>3, <1>4, OutsideCoversStep DEF Next

(* Unless a backup fails or the alarm cuts one short, no download replaces a
   file that is not in .bak, whoever else syncs (save_sync.py:1336-1340). *)
THEOREM BackupsCover == ASSUME BackupsSucceed PROVE Spec => []BackupCovers
<1>1. Init => BackupCovers
  BY DEF Init, IdleProc, BackupCovers, InWindow
<1> QED BY <1>1, NextCovers, Safe, PTL DEF Spec

-----------------------------------------------------------------------------
(* SaveVault. *)

shelf == [s \in Saves |-> server[s].rows]

(* Nothing that a vault shows changes. *)
Stutters == UNCHANGED <<local, bak, fresh, shelf>>

LEMMA StutterIsOne == Stutters => UNCHANGED Vault!vaultVars
BY DEF Stutters, shelf, Vault!vaultVars

(* What the device's record of a row becomes leaves the rows alone, *)
LEMMA RowsStay ==
    ASSUME NEW slot \in Slot, NEW c \in Content, NEW set
    PROVE  /\ LinkSave(slot, c).rows = slot.rows
           /\ MarkDownloaded(slot, c).rows = slot.rows
           /\ UntrackSave(slot, c).rows = slot.rows
           /\ TrackSaves(slot, set).rows = slot.rows
BY DEF Slot, LinkSave, MarkDownloaded, UntrackSave, TrackSaves

(* and a POST or another device adds one. *)
LEMMA RowsGrow ==
    ASSUME NEW slot \in Slot, NEW c \in Content, NEW links
    PROVE  /\ PostSave(slot, c, links).rows = slot.rows \cup {c}
           /\ OtherDevicePosts(slot, c).rows = slot.rows \cup {c}
BY DEF Slot, PostSave, OtherDevicePosts

(* A slot is replaced by one with the same rows, *)
LEMMA SameRows ==
    ASSUME TypeOK, NEW s \in Saves, NEW slot, slot.rows = server[s].rows,
           server' = [server EXCEPT ![s] = slot]
    PROVE  shelf' = shelf
BY DEF TypeOK, shelf

(* or by one with a row more. *)
LEMMA OneMoreRow ==
    ASSUME TypeOK, NEW s \in Saves, NEW slot, NEW c \in Content,
           slot.rows = server[s].rows \cup {c},
           server' = [server EXCEPT ![s] = slot], UNCHANGED <<local, bak, fresh>>
    PROVE  Vault!Shelve(s)
BY DEF TypeOK, shelf, Vault!Shelve

(* A pending request shelves the file's content or changes no row. *)
LEMMA RequestShelves ==
    ASSUME SafeInv, NEW p \in Procs, proc[p].pc \in {"link", "post", "get", "confirm"},
           NEW s \in Saves, s = proc[p].cur.save,
           At(p, "post") => local[s] # None,
           NEW slot \in ServerAfter(p),
           server' = [server EXCEPT ![s] = slot],
           UNCHANGED <<local, bak, fresh>>
    PROVE  Stutters \/ Vault!Shelve(s)
<1>1. /\ TypeOK /\ server[s] \in Slot
      /\ proc[p].pc \in {"get", "confirm"} => proc[p].cur.row \in server[s].rows
      /\ proc[p].pc = "link" => proc[p].buf \in Content
  BY DEF SafeInv, TypeOK, TransferReady, Op, Sending, Fetching
<1>2. CASE proc[p].pc = "post"
  <2>1. local[s] \in Content
    BY <1>1, <1>2 DEF At, SafeInv, TypeOK, NoTornSave, Bytes, File
  <2>2. PICK links : slot = PostSave(server[s], local[s], links)
    BY <1>2 DEF ServerAfter, At
  <2>3. slot.rows = server[s].rows \cup {local[s]}
    BY <1>1, <2>1, <2>2, RowsGrow
  <2> QED BY <1>1, <2>1, <2>3, OneMoreRow
<1>3. CASE proc[p].pc # "post"
  <2>1. server[s].rows \subseteq Content
    BY <1>1 DEF Slot
  <2>2. \/ slot = server[s]
        \/ \E c \in Content : slot = LinkSave(server[s], c) \/ slot = MarkDownloaded(server[s], c)
    <3>1. CASE proc[p].pc = "link"
      BY <1>1, <3>1 DEF ServerAfter, At
    <3>2. CASE proc[p].pc = "get"
      BY <1>1, <2>1, <3>2 DEF ServerAfter, At
    <3>3. CASE proc[p].pc = "confirm"
      BY <1>1, <2>1, <3>3 DEF ServerAfter, At
    <3> QED BY <1>3, <3>1, <3>2, <3>3
  <2>3. slot.rows = server[s].rows
    BY <1>1, <2>2, RowsStay
  <2> QED BY <1>1, <2>3, SameRows DEF Stutters
<1> QED BY <1>2, <1>3

(* So does a request that may be lost. *)
LEMMA TransfersShelve ==
    ASSUME SafeInv, NEW p \in Procs, Link(p) \/ Post(p) \/ Get(p) \/ Confirm(p)
    PROVE  Stutters \/ \E s \in Saves : Vault!Shelve(s)
<1>1. /\ UNCHANGED <<local, bak, fresh>>
      /\ proc[p].pc \in {"link", "post", "get", "confirm"}
      /\ proc[p].cur.save \in Saves
  BY DEF Link, Post, Get, Confirm, diskVars, At, SafeInv, TransferReady, Sending, Fetching, Op
<1>2. PICK s \in Saves : s = proc[p].cur.save
  BY <1>1
<1>3. \/ UNCHANGED server
      \/ /\ At(p, "post") => local[s] # None
         /\ \E slot \in ServerAfter(p) : server' = [server EXCEPT ![s] = slot]
  BY <1>2 DEF Link, Post, Get, Confirm, Request, At
<1>4. CASE UNCHANGED server
  BY <1>1, <1>4 DEF Stutters, shelf
<1>5. CASE ~UNCHANGED server
  <2>1. Stutters \/ Vault!Shelve(s)
    BY <1>1, <1>2, <1>3, <1>5, RequestShelves
  <2> QED BY <2>1
<1> QED BY <1>4, <1>5

(* A download lands a copy of the shelf on a file that is spared. *)
LEMMA ReplaceFetches ==
    ASSUME SafeInv, BackupCovers, NEW p \in Procs, Replace(p)
    PROVE  Vault!Fetch(proc[p].cur.save) /\ proc[p].cur.save \in Saves
<1> DEFINE s == proc[p].cur.save
<1>1. /\ proc[p].pc = "replace" /\ s \in Saves /\ TypeOK
      /\ part[s] = proc[p].cur.row /\ proc[p].cur.row \in server[s].rows
  BY DEF Replace, At, SafeInv, TransferReady, Fetching, Op
<1>2. part[s] # None
  BY <1>1, ConstantsAssumption DEF TypeOK, Slot
<1>3. local' = [local EXCEPT ![s] = part[s]] /\ UNCHANGED <<server, bak, fresh>>
  BY <1>2 DEF Replace
<1>4. local[s] \in {None, bak[s]} \/ s \in fresh
  BY <1>1 DEF BackupCovers, InWindow
<1> QED BY <1>1, <1>3, <1>4 DEF Vault!Fetch

(* The other steps of a process show nothing, *)
LEMMA PreviewStutters ==
    ASSUME SafeInv, NEW p \in Procs,
           \/ \E kind \in AllKinds, scope \in SUBSET Saves : Start(p, kind, scope)
           \/ Survey(p) \/ Negotiate(p) \/ TryLock(p)
           \/ BeginUpload(p) \/ BeginDownload(p) \/ SkipConflict(p)
           \/ LookUp(p) \/ WritePart(p) \/ Finish(p) \/ Abort(p) \/ Crash(p)
    PROVE  Stutters
<1>1. CASE Survey(p)
  <2>1. PICK failed \in SUBSET Saves :
          server' = [s \in Saves |-> IF s \in failed THEN server[s]
                                     ELSE TrackSaves(server[s], Orphans(server[s]))]
    BY <1>1 DEF Survey
  <2>2. ASSUME NEW s \in Saves PROVE server'[s].rows = server[s].rows
    <3>1. server[s] \in Slot
      BY DEF SafeInv, TypeOK
    <3> QED BY <2>1, <3>1 DEF TrackSaves, Slot
  <2>3. shelf' = shelf
    BY <2>2 DEF shelf
  <2> QED BY <1>1, <2>3 DEF Survey, diskVars, Stutters
<1>2. CASE ~Survey(p)
  <2>1. UNCHANGED <<server, local, bak, fresh>>
    BY <1>2 DEF Start, Negotiate, TryLock, BeginUpload, BeginDownload, SkipConflict, LookUp,
                WritePart, Finish, Abort, Crash, diskVars
  <2> QED BY <2>1 DEF Stutters, shelf
<1> QED BY <1>1, <1>2

(* and the environment writes, deletes, shelves or untracks. *)
LEMMA EnvironmentShows ==
    ASSUME SafeInv, NEW s \in Saves, Environment(s)
    PROVE  Stutters \/ Vault!Write(s) \/ Vault!Delete(s) \/ Vault!Shelve(s)
<1>1. TypeOK /\ server[s] \in Slot /\ HeadExists
  BY DEF SafeInv, TypeOK
<1>2. CASE Play(s)
  BY <1>2 DEF Play, Vault!Write, shelf
<1>3. CASE DeleteFile(s)
  BY <1>3 DEF DeleteFile, Vault!Delete, shelf
<1>4. CASE Untrack(s)
  <2>1. PICK c \in server[s].rows : server' = [server EXCEPT ![s] = UntrackSave(server[s], c)]
    BY <1>4 DEF Untrack
  <2>2. UntrackSave(server[s], c).rows = server[s].rows
    BY <1>1, <2>1, RowsStay DEF Slot
  <2> QED BY <1>1, <1>4, <2>1, <2>2, SameRows DEF Untrack, diskVars, Stutters
<1>5. CASE OtherDevice(s)
  <2>1. PICK c \in Content : server' = [server EXCEPT ![s] = OtherDevicePosts(server[s], c)]
    BY <1>5 DEF OtherDevice
  <2>2. OtherDevicePosts(server[s], c).rows = server[s].rows \cup {c}
    BY <1>1, RowsGrow
  <2> QED BY <1>1, <1>5, <2>1, <2>2, OneMoreRow DEF OtherDevice, diskVars
<1> QED BY <1>2, <1>3, <1>4, <1>5 DEF Environment

(* Every step is a vault's, or shows nothing. *)
LEMMA NextKeepsVault ==
    ASSUME BackupsSucceed
    PROVE  SafeInv /\ BackupCovers /\ [Next]_vars => [Vault!VaultNext]_Vault!vaultVars
<1> SUFFICES ASSUME SafeInv, BackupCovers, [Next]_vars
             PROVE  Stutters \/ Vault!VaultNext
  BY StutterIsOne
<1>1. CASE UNCHANGED vars
  BY <1>1 DEF vars, Stutters, shelf
<1>2. ASSUME NEW p \in Procs, NEW kind \in AllKinds, NEW scope \in SUBSET Saves,
             Start(p, kind, scope)
      PROVE  Stutters
  BY <1>2, PreviewStutters
<1>3. ASSUME NEW p \in Procs, Step(p) PROVE Stutters \/ Vault!VaultNext
  <2>1. CASE \/ Survey(p) \/ Negotiate(p) \/ TryLock(p) \/ BeginUpload(p) \/ BeginDownload(p)
             \/ SkipConflict(p) \/ LookUp(p) \/ WritePart(p) \/ Finish(p)
    BY <2>1, PreviewStutters
  <2>2. CASE Link(p) \/ Post(p) \/ Get(p) \/ Confirm(p)
    BY <2>2, TransfersShelve DEF Vault!VaultNext
  <2>3. CASE Backup(p)
    <3>1. proc[p].cur.save \in Saves
      BY <2>3 DEF Backup, At, SafeInv, TransferReady, Fetching, Op
    <3>2. Vault!Spare(proc[p].cur.save)
      BY <2>3 DEF Backup, BackupsSucceed, Vault!Spare, shelf
    <3> QED BY <3>1, <3>2 DEF Vault!VaultNext
  <2>4. CASE Replace(p)
    BY <2>4, ReplaceFetches DEF Vault!VaultNext
  <2> QED BY <1>3, <2>1, <2>2, <2>3, <2>4 DEF Step
<1>4. ASSUME NEW p \in Procs, Failure(p) PROVE Stutters
  <2>1. Abort(p) \/ Crash(p)
    BY <1>4 DEF Failure, TimeoutEndsCommand, TimeoutFailsOperation, TimeoutInBackup,
                TimeoutRetried, TimeoutInScan, Timeout, BackupsSucceed
  <2> QED BY <2>1, PreviewStutters
<1>5. ASSUME NEW s \in Saves, Environment(s) PROVE Stutters \/ Vault!VaultNext
  BY <1>5, EnvironmentShows DEF Vault!VaultNext
<1> QED BY <1>1, <1>2, <1>3, <1>4, <1>5 DEF Next

(* However its processes, crashes and lost answers interleave, a sync changes
   files, backups and server rows only as SaveVault does, as long as backups
   succeed (save_sync.py:1294-1348). *)
THEOREM ImplementsVault == ASSUME BackupsSucceed PROVE Spec => KeepsVault
<1>1. Init => Vault!VaultInit
  BY DEF Init, EmptySlot, Vault!VaultInit
<1> QED BY <1>1, NextKeepsVault, BackupsCover, Safe, PTL DEF Spec, KeepsVault, Vault!VaultSpec

=============================================================================
