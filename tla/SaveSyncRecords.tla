-------------------------- MODULE SaveSyncRecords --------------------------
(***************************************************************************)
(* What the server records of this device never runs ahead of its disk,    *)
(* as long as downloads are not optimistic.                                *)
(***************************************************************************)
EXTENDS SaveSyncSafety

-----------------------------------------------------------------------------
(* The invariant.  `had` is what the save file held at some time. *)

SlotHeld(slot, had) ==
    /\ \A c \in Content : slot.sync[c] \in {"current", "stale"} => c \in had
    /\ slot.mine \subseteq had

(* What a process scanned was held, and so is what it is about to link or to
   confirm. *)
ProcHeld(p) ==
    LET me == proc[p]
        s == me.cur.save
    IN /\ \A t \in Saves : me.snap[t] \in held[t] \cup {None}
       /\ me.pc \in Sending => me.buf \in held[s]
       /\ me.pc = "confirm" => me.cur.row \in held[s]

HeldInv ==
    /\ \A s \in Saves : local[s] \in held[s] \cup {None} /\ SlotHeld(server[s], held[s])
    /\ \A p \in Procs : ProcHeld(p)

HeldGrows == \A s \in Saves : held[s] \subseteq held'[s]

-----------------------------------------------------------------------------
(* Slots. *)

(* Linking, storing and confirming content that was held, *)
LEMMA HeldRequests ==
    ASSUME NEW slot \in Slot, NEW had, SlotHeld(slot, had), NEW c \in Content \cap had,
           NEW links \in BOOLEAN
    PROVE  /\ SlotHeld(LinkSave(slot, c), had)
           /\ SlotHeld(MarkDownloaded(slot, c), had)
           /\ SlotHeld(PostSave(slot, c, links), had)
<1>1. SlotHeld(LinkSave(slot, c), had)
  BY DEF SlotHeld, Slot, LinkSave
<1>2. SlotHeld(MarkDownloaded(slot, c), had)
  BY DEF SlotHeld, Slot, MarkDownloaded
<1>3. SlotHeld(PostSave(slot, c, links), had)
  BY DEF SlotHeld, Slot, PostSave
<1> QED BY <1>1, <1>2, <1>3

(* tracking this device's own rows, untracking one, *)
LEMMA HeldRepairs ==
    ASSUME NEW slot \in Slot, NEW had, SlotHeld(slot, had)
    PROVE  SlotHeld(TrackSaves(slot, Orphans(slot)), had)
BY DEF SlotHeld, Slot, TrackSaves, Orphans

LEMMA HeldUntracks ==
    ASSUME NEW slot \in Slot, NEW had, SlotHeld(slot, had), NEW c \in Content
    PROVE  SlotHeld(UntrackSave(slot, c), had)
BY DEF SlotHeld, Slot, UntrackSave

(* and another device's rows record nothing that was not held here. *)
LEMMA HeldOthers ==
    ASSUME NEW slot \in Slot, NEW had, SlotHeld(slot, had), NEW c \in Content
    PROVE  SlotHeld(OtherDevicePosts(slot, c), had)
BY DEF SlotHeld, Slot, OtherDevicePosts

-----------------------------------------------------------------------------
(* Processes. *)

(* The other processes keep what they had, whatever more was held. *)
LEMMA OthersHeld ==
    ASSUME SafeInv, HeldInv, HeldGrows, NEW p \in Procs, ProcHeld(p)',
           \A q \in Procs \ {p} : proc'[q] = proc[q]
    PROVE  \A q \in Procs : ProcHeld(q)'
<1> SUFFICES ASSUME NEW q \in Procs \ {p} PROVE ProcHeld(q)'
  OBVIOUS
<1>1. ProcHeld(q) /\ proc'[q] = proc[q]
  BY DEF HeldInv
<1>2. proc[q].pc \in Sending \cup Fetching => proc[q].cur.save \in Saves
  BY DEF SafeInv, TransferReady, Op
<1> QED BY <1>1, <1>2 DEF ProcHeld, HeldGrows, Fetching

(* Nothing is sent or confirmed anew, nothing is scanned anew. *)
LEMMA CalmHeld ==
    ASSUME SafeInv, HeldInv, HeldGrows, NEW p \in Procs,
           proc'[p].snap = proc[p].snap,
           proc'[p].pc \notin Sending \cup {"confirm"},
           \A q \in Procs \ {p} : proc'[q] = proc[q]
    PROVE  \A q \in Procs : ProcHeld(q)'
<1>1. ProcHeld(p)'
  BY DEF HeldInv, ProcHeld, HeldGrows
<1> QED BY <1>1, OthersHeld

(* Going on to the next operation is calm, and so is the end of a process. *)
LEMMA AdvanceHeld ==
    ASSUME SafeInv, HeldInv, HeldGrows, NEW p \in Procs, Advance(p) \/ Exit(p)
    PROVE  \A q \in Procs : ProcHeld(q)'
<1>1. proc \in [Procs -> ProcState] /\ proc[p] \in ProcState
  BY DEF SafeInv, TypeOK
<1>2. CASE Advance(p)
  <2>1. /\ proc'[p].snap = proc[p].snap /\ proc'[p].pc = "next"
        /\ \A q \in Procs \ {p} : proc'[q] = proc[q]
    BY <1>1, <1>2 DEF Advance, ProcState
  <2> QED BY <2>1, CalmHeld DEF Sending
<1>3. CASE Exit(p)
  <2>1. proc'[p] = IdleProc /\ \A q \in Procs \ {p} : proc'[q] = proc[q]
    BY <1>3, ExitLemma
  <2>2. ProcHeld(p)'
    BY <2>1 DEF ProcHeld, IdleProc, NoSurvey, Sending
  <2> QED BY <2>1, <2>2, OthersHeld
<1> QED BY <1>2, <1>3

(* Slots, files and history stay: only processes moved. *)
LEMMA OnlyProcs ==
    ASSUME HeldInv, UNCHANGED <<server, local, held>>, \A q \in Procs : ProcHeld(q)'
    PROVE  HeldInv'
BY DEF HeldInv, SlotHeld

(* One slot moved, the files and history stay. *)
LEMMA OneSlot ==
    ASSUME SafeInv, HeldInv, UNCHANGED <<local, held>>, \A q \in Procs : ProcHeld(q)',
           NEW s \in Saves, NEW slot, SlotHeld(slot, held[s]),
           server' = [server EXCEPT ![s] = slot]
    PROVE  HeldInv'
<1>1. ASSUME NEW t \in Saves PROVE SlotHeld(server'[t], held[t])
  BY DEF HeldInv, SafeInv, TypeOK
<1> QED BY <1>1 DEF HeldInv, SlotHeld

-----------------------------------------------------------------------------
(* The steps. *)

(* What a pending request makes of its slot. *)
LEMMA AnswersHeld ==
    ASSUME ~Optimistic, SafeInv, HeldInv, NEW p \in Procs,
           proc[p].pc \in {"link", "post", "get", "confirm"},
           NEW s \in Saves, s = proc[p].cur.save,
           At(p, "post") => local[s] # None,
           NEW slot \in ServerAfter(p)
    PROVE  SlotHeld(slot, held[s])
<1>1. /\ server[s] \in Slot /\ SlotHeld(server[s], held[s])
      /\ ProcHeld(p) /\ TransferReady(p)
      /\ local[s] \in held[s] \cup {None} /\ held[s] \subseteq Content
  BY DEF SafeInv, TypeOK, HeldInv
<1>2. CASE proc[p].pc = "link"
  <2>1. slot = LinkSave(server[s], proc[p].buf) /\ proc[p].buf \in Content \cap held[s]
    BY <1>1, <1>2 DEF ServerAfter, At, ProcHeld, Sending
  <2> QED BY <1>1, <2>1, HeldRequests
<1>3. CASE proc[p].pc = "post"
  <2>1. PICK links \in BOOLEAN : slot = PostSave(server[s], local[s], links)
    BY <1>3 DEF ServerAfter, At
  <2>2. local[s] \in Content \cap held[s]
    BY <1>1, <1>3 DEF At
  <2> QED BY <1>1, <2>1, <2>2, HeldRequests
<1>4. CASE proc[p].pc = "get"
  <2>1. slot = server[s]
    BY <1>4 DEF ServerAfter, At
  <2> QED BY <1>1, <2>1
<1>5. CASE proc[p].pc = "confirm"
  <2>1. slot = MarkDownloaded(server[s], proc[p].cur.row)
        /\ proc[p].cur.row \in Content \cap held[s]
    BY <1>1, <1>5 DEF ServerAfter, At, ProcHeld
  <2> QED BY <1>1, <2>1, HeldRequests
<1> QED BY <1>2, <1>3, <1>4, <1>5

(* A request, answered or lost; a timeout that fails one is the same. *)
LEMMA TransfersHeld ==
    ASSUME ~Optimistic, SafeInv, HeldInv, NEW p \in Procs,
           Link(p) \/ Post(p) \/ Get(p) \/ Confirm(p) \/ TimeoutFailsOperation(p)
    PROVE  HeldInv'
<1>1. /\ UNCHANGED <<local, held>> /\ HeldGrows
      /\ proc[p].cur.save \in Saves
      /\ proc \in [Procs -> ProcState] /\ proc[p] \in ProcState
  BY DEF Link, Post, Get, Confirm, TimeoutFailsOperation, diskVars, At, HeldGrows,
         SafeInv, TypeOK, TransferReady, Sending, Fetching, Op
<1>2. PICK s \in Saves : s = proc[p].cur.save
  BY <1>1
<1>3. \A q \in Procs : ProcHeld(q)'
  <2>1. \/ Advance(p)
        \/ proc' = [proc EXCEPT ![p].pc = "backup", ![p].buf = proc[p].cur.row]
        \/ proc' = [proc EXCEPT ![p].pc = "next", ![p].cur = NoOp, ![p].buf = None,
                                ![p].timed_out = TRUE]
    BY DEF Link, Post, Get, Confirm, Request, TimeoutFailsOperation
  <2>2. CASE Advance(p)
    BY <1>1, <2>2, AdvanceHeld
  <2>3. CASE ~Advance(p)
    <3>1. /\ proc'[p].snap = proc[p].snap /\ proc'[p].pc \in {"backup", "next"}
          /\ \A q \in Procs \ {p} : proc'[q] = proc[q]
      BY <1>1, <2>1, <2>3 DEF ProcState
    <3> QED BY <1>1, <3>1, CalmHeld DEF Sending
  <2> QED BY <2>2, <2>3
<1>4. \/ UNCHANGED server
      \/ /\ proc[p].pc \in {"link", "post", "get", "confirm"}
         /\ At(p, "post") => local[s] # None
         /\ \E slot \in ServerAfter(p) : server' = [server EXCEPT ![s] = slot]
  <2>1. CASE Link(p) \/ Post(p) \/ Get(p) \/ Confirm(p)
    BY <1>2, <2>1 DEF Link, Post, Get, Confirm, Request, At
  <2>2. CASE TimeoutFailsOperation(p)
    BY <1>2, <2>2 DEF TimeoutFailsOperation, At
  <2> QED BY <2>1, <2>2
<1>5. CASE UNCHANGED server
  BY <1>1, <1>3, <1>5, OnlyProcs
<1>6. CASE ~UNCHANGED server
  <2>1. PICK slot \in ServerAfter(p) : server' = [server EXCEPT ![s] = slot]
    BY <1>4, <1>6
  <2>2. SlotHeld(slot, held[s])
    BY <1>2, <1>4, <1>6, AnswersHeld
  <2> QED BY <1>1, <1>3, <2>1, <2>2, OneSlot
<1> QED BY <1>5, <1>6

(* A scan reads what the file holds; the survey repairs this device's rows. *)
LEMMA SurveyHeld ==
    ASSUME SafeInv, HeldInv, NEW p \in Procs, Survey(p)
    PROVE  HeldInv'
<1>1. PICK failed \in SUBSET Saves :
        server' = [s \in Saves |-> IF s \in failed THEN server[s]
                                   ELSE TrackSaves(server[s], Orphans(server[s]))]
  BY DEF Survey
<1>2. UNCHANGED <<local, held>> /\ HeldGrows
  BY DEF Survey, diskVars, HeldGrows
<1>3. ASSUME NEW s \in Saves PROVE SlotHeld(server'[s], held[s])
  <2>1. server[s] \in Slot /\ SlotHeld(server[s], held[s])
    BY DEF SafeInv, TypeOK, HeldInv
  <2>2. SlotHeld(TrackSaves(server[s], Orphans(server[s])), held[s])
    BY <2>1, HeldRepairs
  <2> QED BY <1>1, <2>1, <2>2
<1>4. PICK view :
        proc' = [proc EXCEPT
          ![p].pc = "negotiate",
          ![p].snap = [s \in Saves |-> IF s \in proc[p].scope THEN local[s] ELSE None],
          ![p].view = view]
  BY DEF Survey
<1> DEFINE snap == [s \in Saves |-> IF s \in proc[p].scope THEN local[s] ELSE None]
<1>5. /\ proc'[p].pc = "negotiate" /\ proc'[p].snap = snap
      /\ \A q \in Procs \ {p} : proc'[q] = proc[q]
  BY <1>4 DEF SafeInv, TypeOK, ProcState
<1>6. \A t \in Saves : snap[t] \in held[t] \cup {None}
  BY DEF HeldInv
<1>7. ProcHeld(p)'
  BY <1>2, <1>5, <1>6 DEF ProcHeld, Sending
<1>8. \A q \in Procs : ProcHeld(q)'
  BY <1>2, <1>5, <1>7, OthersHeld
<1> QED BY <1>2, <1>3, <1>8 DEF HeldInv, SlotHeld

(* So does the scan under the lock, or it passes over a file. *)
LEMMA ScanHeld ==
    ASSUME SafeInv, HeldInv, NEW p \in Procs, TryLock(p) \/ TimeoutInScan(p)
    PROVE  HeldInv'
<1>1. /\ proc \in [Procs -> ProcState] /\ proc[p] \in ProcState
      /\ UNCHANGED <<server, local, held>> /\ HeldGrows
  BY DEF SafeInv, TypeOK, TryLock, TimeoutInScan, diskVars, HeldGrows
<1>2. CASE TryLock(p) /\ lock # None
  BY <1>1, <1>2, AdvanceHeld, OnlyProcs DEF TryLock
<1>3. CASE TryLock(p) /\ lock = None
  <2>1. proc' = [proc EXCEPT ![p].pc = "next", ![p].snap = local]
    BY <1>3 DEF TryLock
  <2>2. /\ proc'[p].pc = "next" /\ proc'[p].snap = local
        /\ \A q \in Procs \ {p} : proc'[q] = proc[q]
    BY <1>1, <2>1 DEF ProcState
  <2>3. ProcHeld(p)'
    BY <1>1, <2>2 DEF ProcHeld, HeldInv, Sending
  <2> QED BY <1>1, <2>2, <2>3, OthersHeld, OnlyProcs
<1>4. CASE TimeoutInScan(p)
  <2>1. PICK missed \in SUBSET Saves :
          LET seen(files) == [s \in Saves |-> IF s \in missed THEN None ELSE files[s]]
          IN \/ /\ At(p, "negotiate")
                /\ proc' = [proc EXCEPT ![p].timed_out = TRUE, ![p].snap = seen(proc[p].snap)]
             \/ proc' = [proc EXCEPT ![p].pc = "next", ![p].timed_out = TRUE,
                                     ![p].snap = seen(local)]
    BY <1>4 DEF TimeoutInScan
  <2>2. /\ proc'[p].pc \in {"negotiate", "next"}
        /\ \/ proc'[p].snap = [s \in Saves |-> IF s \in missed THEN None ELSE proc[p].snap[s]]
           \/ proc'[p].snap = [s \in Saves |-> IF s \in missed THEN None ELSE local[s]]
        /\ \A q \in Procs \ {p} : proc'[q] = proc[q]
    BY <1>1, <2>1 DEF At, ProcState
  <2>3. \A t \in Saves : local[t] \in held[t] \cup {None}
                         /\ proc[p].snap[t] \in held[t] \cup {None}
    BY DEF HeldInv, ProcHeld
  <2>4. \A t \in Saves : proc'[p].snap[t] \in held[t] \cup {None}
    BY <2>2, <2>3
  <2>5. ProcHeld(p)'
    BY <1>1, <2>2, <2>4 DEF ProcHeld, Sending
  <2> QED BY <1>1, <2>2, <2>5, OthersHeld, OnlyProcs
<1> QED BY <1>2, <1>3, <1>4

(* An upload sends what was scanned. *)
LEMMA BeginHeld ==
    ASSUME SafeInv, HeldInv, NEW p \in Procs,
           BeginUpload(p) \/ BeginDownload(p) \/ SkipConflict(p)
    PROVE  HeldInv'
<1>1. /\ proc \in [Procs -> ProcState] /\ proc[p] \in ProcState /\ proc[p].pc = "next"
      /\ UNCHANGED <<server, local, held>> /\ HeldGrows
  BY DEF SafeInv, TypeOK, BeginUpload, BeginDownload, SkipConflict, At, diskVars, HeldGrows
<1>2. ASSUME NEW op, Drop(p, op) PROVE HeldInv'
  <2>1. /\ proc'[p].snap = proc[p].snap /\ proc'[p].pc = "next"
        /\ \A q \in Procs \ {p} : proc'[q] = proc[q]
    BY <1>1, <1>2 DEF Drop, ProcState
  <2>2. \A q \in Procs : ProcHeld(q)'
    BY <1>1, <2>1, CalmHeld DEF Sending
  <2> QED BY <1>1, <2>2, OnlyProcs
<1>3. ASSUME NEW op, NEW label, NEW buf, TakeUp(p, op, label, buf)
      PROVE  /\ proc'[p].snap = proc[p].snap /\ proc'[p].pc = label
             /\ proc'[p].cur = op /\ proc'[p].buf = buf
             /\ \A q \in Procs \ {p} : proc'[q] = proc[q]
  BY <1>1, <1>3 DEF TakeUp, ProcState
<1>4. CASE BeginUpload(p)
  <2>1. PICK op \in proc[p].todo :
          \/ Drop(p, op)
          \/ /\ proc[p].snap[op.save] # None
             /\ \E label \in {"post", "lookup"} : TakeUp(p, op, label, proc[p].snap[op.save])
    BY <1>4 DEF BeginUpload
  <2>2. CASE Drop(p, op)
    BY <1>2, <2>2
  <2>3. CASE ~Drop(p, op)
    <3>1. PICK label \in {"post", "lookup"} : TakeUp(p, op, label, proc[p].snap[op.save])
      BY <2>1, <2>3
    <3>2. op.save \in Saves
      BY <1>1 DEF ProcState, Op
    <3>3. proc[p].snap[op.save] \in held[op.save]
      BY <2>1, <2>3, <3>2 DEF HeldInv, ProcHeld
    <3>4. ProcHeld(p) /\ ProcHeld(p)'
      BY <1>1, <1>3, <3>1, <3>3 DEF HeldInv, ProcHeld
    <3> QED BY <1>1, <1>3, <3>1, <3>4, OthersHeld, OnlyProcs
  <2> QED BY <2>2, <2>3
<1>5. CASE BeginDownload(p)
  <2>1. PICK op \in proc[p].todo : Drop(p, op) \/ TakeUp(p, op, "get", None)
    BY <1>5 DEF BeginDownload
  <2>2. TakeUp(p, op, "get", None) => \A q \in Procs : ProcHeld(q)'
    BY <1>1, <1>3, CalmHeld DEF Sending
  <2> QED BY <1>1, <1>2, <2>1, <2>2, OnlyProcs
<1>6. CASE SkipConflict(p)
  BY <1>2, <1>6 DEF SkipConflict
<1> QED BY <1>4, <1>5, <1>6

(* What is looked up is still the same content. *)
LEMMA LookUpHeld ==
    ASSUME SafeInv, HeldInv, NEW p \in Procs, LookUp(p) \/ TimeoutRetried(p)
    PROVE  HeldInv'
<1>1. /\ proc \in [Procs -> ProcState] /\ proc[p] \in ProcState
      /\ UNCHANGED <<server, local, held>> /\ HeldGrows
  BY DEF SafeInv, TypeOK, LookUp, TimeoutRetried, diskVars, HeldGrows
<1>2. CASE Advance(p)
  BY <1>1, <1>2, AdvanceHeld, OnlyProcs
<1>3. CASE ~Advance(p)
  <2>1. \/ proc[p].pc \in Sending /\ \E label \in {"link", "post"} : Goto(p, label)
        \/ proc' = [proc EXCEPT ![p].timed_out = TRUE]
    BY <1>3 DEF LookUp, TimeoutRetried, At, Sending
  <2>2. /\ proc'[p].snap = proc[p].snap /\ proc'[p].cur = proc[p].cur
        /\ proc'[p].buf = proc[p].buf
        /\ proc'[p].pc \in Sending => proc[p].pc \in Sending
        /\ proc'[p].pc = "confirm" => proc[p].pc = "confirm"
        /\ \A q \in Procs \ {p} : proc'[q] = proc[q]
    BY <1>1, <2>1 DEF Goto, ProcState
  <2>3. ProcHeld(p)'
    BY <1>1, <2>2 DEF ProcHeld, HeldInv
  <2> QED BY <1>1, <2>2, <2>3, OthersHeld, OnlyProcs
<1> QED BY <1>2, <1>3

(* Backing up, writing the .part, planning, starting and ending show the
   server nothing. *)
LEMMA CalmStep ==
    ASSUME SafeInv, HeldInv, NEW p \in Procs,
           \/ \E kind \in AllKinds, scope \in SUBSET Saves : Start(p, kind, scope)
           \/ Negotiate(p) \/ Backup(p) \/ WritePart(p) \/ TimeoutInBackup(p)
           \/ Finish(p) \/ Abort(p) \/ Crash(p) \/ TimeoutEndsCommand(p)
    PROVE  HeldInv'
<1>1. /\ proc \in [Procs -> ProcState] /\ proc[p] \in ProcState
      /\ UNCHANGED <<server, local, held>> /\ HeldGrows
  BY DEF SafeInv, TypeOK, Start, Negotiate, Backup, WritePart, TimeoutInBackup, Finish,
         Abort, Crash, TimeoutEndsCommand, diskVars, HeldGrows
<1>2. CASE Exit(p) \/ Advance(p)
  BY <1>1, <1>2, AdvanceHeld, OnlyProcs
<1>3. CASE \E label \in {"part", "replace"} : Goto(p, label)
  <2>1. /\ proc'[p].snap = proc[p].snap /\ proc'[p].pc \in {"part", "replace"}
        /\ \A q \in Procs \ {p} : proc'[q] = proc[q]
    BY <1>1, <1>3 DEF Goto, ProcState
  <2> QED BY <1>1, <2>1, CalmHeld, OnlyProcs DEF Sending
<1>4. CASE TimeoutInBackup(p)
  <2>1. /\ proc'[p].snap = proc[p].snap /\ proc'[p].pc = "part"
        /\ \A q \in Procs \ {p} : proc'[q] = proc[q]
    BY <1>1, <1>4 DEF TimeoutInBackup, ProcState
  <2> QED BY <1>1, <2>1, CalmHeld, OnlyProcs DEF Sending
<1>5. CASE \E kind \in AllKinds, scope \in SUBSET Saves : Start(p, kind, scope)
  <2> PICK kind \in AllKinds, scope \in SUBSET Saves : Start(p, kind, scope)
    BY <1>5
  <2>0. proc' = [proc EXCEPT ![p] =
                   [proc[p] EXCEPT !.pc = "survey", !.kind = kind, !.scope = scope]]
    BY DEF Start
  <2>1. /\ proc'[p].snap = proc[p].snap /\ proc'[p].pc = "survey"
        /\ \A q \in Procs \ {p} : proc'[q] = proc[q]
    BY <1>1, <2>0 DEF ProcState
  <2> QED BY <1>1, <2>1, CalmHeld, OnlyProcs DEF Sending
<1>6. CASE Negotiate(p)
  <2>1. PICK todo :
          proc' = [proc EXCEPT ![p].pc = "lock", ![p].view = NoView, ![p].todo = todo]
    BY <1>6 DEF Negotiate
  <2>2. /\ proc'[p].snap = proc[p].snap /\ proc'[p].pc = "lock"
        /\ \A q \in Procs \ {p} : proc'[q] = proc[q]
    BY <1>1, <2>1 DEF ProcState
  <2> QED BY <1>1, <2>2, CalmHeld, OnlyProcs DEF Sending
<1> QED BY <1>2, <1>3, <1>4, <1>5, <1>6
        DEF Backup, WritePart, Finish, Abort, Crash, TimeoutEndsCommand

(* A rename makes the fetched row one that was held: only then is it
   confirmed. *)
LEMMA ReplaceHeld ==
    ASSUME ~Optimistic, SafeInv, HeldInv, NEW p \in Procs, Replace(p)
    PROVE  HeldInv'
<1>1. PICK s \in Saves : s = proc[p].cur.save
  BY DEF Replace, At, SafeInv, TransferReady, Fetching, Op
<1>2. /\ TypeOK /\ proc[p] \in ProcState /\ proc[p].pc = "replace"
      /\ part[s] = proc[p].cur.row /\ proc[p].cur.row \in server[s].rows
  BY <1>1 DEF Replace, At, SafeInv, TypeOK, TransferReady, Fetching
<1>3. part[s] \in Content /\ part[s] # None
  BY <1>2, ConstantsAssumption DEF TypeOK, Slot
<1>4. /\ local' = [local EXCEPT ![s] = part[s]]
      /\ held' = [held EXCEPT ![s] = held[s] \cup {part[s]}]
      /\ Goto(p, "confirm") /\ server' = server
  BY <1>1, <1>3 DEF Replace
<1>5. HeldGrows /\ part[s] \in held'[s]
  BY <1>2, <1>4 DEF TypeOK, HeldGrows
<1>6. /\ proc'[p].snap = proc[p].snap /\ proc'[p].cur = proc[p].cur
      /\ proc'[p].pc = "confirm"
      /\ \A q \in Procs \ {p} : proc'[q] = proc[q]
  BY <1>2, <1>4 DEF Goto, TypeOK, ProcState
<1>7. ProcHeld(p)'
  BY <1>1, <1>2, <1>5, <1>6 DEF ProcHeld, HeldInv, HeldGrows, Sending
<1>8. \A q \in Procs : ProcHeld(q)'
  BY <1>5, <1>6, <1>7, OthersHeld
<1>9. ASSUME NEW t \in Saves
      PROVE  local'[t] \in held'[t] \cup {None} /\ SlotHeld(server'[t], held'[t])
  BY <1>2, <1>4, <1>5 DEF HeldInv, HeldGrows, SlotHeld, TypeOK
<1> QED BY <1>8, <1>9 DEF HeldInv

(* The emulator, the user and the other devices. *)
LEMMA OutsideHeld ==
    ASSUME SafeInv, HeldInv, NEW s \in Saves, Environment(s)
    PROVE  HeldInv'
<1>1. TypeOK /\ server[s] \in Slot /\ HeadExists
  BY DEF SafeInv, TypeOK
<1>2. HeldGrows /\ proc' = proc
  BY <1>1 DEF Environment, Play, DeleteFile, Untrack, OtherDevice, diskVars, HeldGrows, TypeOK
<1>3. ASSUME NEW p \in Procs PROVE ProcHeld(p)'
  <2>1. ProcHeld(p)
    BY DEF HeldInv
  <2>2. proc[p].pc \in Sending \cup Fetching => proc[p].cur.save \in Saves
    BY DEF SafeInv, TransferReady, Op
  <2> QED BY <1>2, <2>1, <2>2 DEF ProcHeld, HeldGrows, Fetching
<1>4. CASE Play(s) \/ DeleteFile(s)
  <2>1. server' = server /\ \A t \in Saves : local'[t] \in held'[t] \cup {None}
    BY <1>1, <1>4 DEF Play, DeleteFile, HeldInv, TypeOK
  <2>2. \A t \in Saves : SlotHeld(server'[t], held'[t])
    BY <1>2, <2>1 DEF HeldInv, SlotHeld, HeldGrows
  <2> QED BY <1>3, <2>1, <2>2 DEF HeldInv
<1>5. CASE Untrack(s)
  <2>1. PICK c \in server[s].rows : server' = [server EXCEPT ![s] = UntrackSave(server[s], c)]
    BY <1>5 DEF Untrack
  <2>2. SlotHeld(UntrackSave(server[s], c), held[s])
    BY <1>1, <2>1, HeldUntracks DEF HeldInv, Slot
  <2>3. UNCHANGED <<local, held>>
    BY <1>5 DEF Untrack, diskVars
  <2> QED BY <1>3, <2>1, <2>2, <2>3, OneSlot
<1>6. CASE OtherDevice(s)
  <2>1. PICK c \in Content : server' = [server EXCEPT ![s] = OtherDevicePosts(server[s], c)]
    BY <1>6 DEF OtherDevice
  <2>2. SlotHeld(OtherDevicePosts(server[s], c), held[s])
    BY <1>1, HeldOthers DEF HeldInv
  <2>3. UNCHANGED <<local, held>>
    BY <1>6 DEF OtherDevice, diskVars
  <2> QED BY <1>3, <2>1, <2>2, <2>3, OneSlot
<1> QED BY <1>4, <1>5, <1>6 DEF Environment

(* Every step. *)
LEMMA NextHeld ==
    ASSUME ~Optimistic
    PROVE  SafeInv /\ HeldInv /\ [Next]_vars => HeldInv'
<1> SUFFICES ASSUME SafeInv, HeldInv, [Next]_vars PROVE HeldInv'
  OBVIOUS
<1>1. CASE UNCHANGED vars
  BY <1>1 DEF vars, HeldInv, SlotHeld, ProcHeld
<1>2. ASSUME NEW p \in Procs, NEW kind \in AllKinds, NEW scope \in SUBSET Saves,
             Start(p, kind, scope)
      PROVE  HeldInv'
  BY <1>2, CalmStep
<1>3. ASSUME NEW p \in Procs, Step(p) PROVE HeldInv'
  BY <1>3, CalmStep, SurveyHeld, ScanHeld, BeginHeld, LookUpHeld, TransfersHeld,
     ReplaceHeld DEF Step
<1>4. ASSUME NEW p \in Procs, Failure(p) PROVE HeldInv'
  BY <1>4, CalmStep, ScanHeld, LookUpHeld, TransfersHeld DEF Failure
<1>5. ASSUME NEW s \in Saves, Environment(s) PROVE HeldInv'
  BY <1>5, OutsideHeld
<1> QED BY <1>1, <1>2, <1>3, <1>4, <1>5 DEF Next

(* Whatever crashes, rings or gets lost, the server records this device as
   current only on content its save file did hold (save_sync.py:1312-1347). *)
THEOREM RecordsAreHeld == Spec => []RecordedOnlyIfHeld
<1>1. CASE ~Optimistic
  <2>1. Init => HeldInv
    BY DEF Init, IdleProc, NoSurvey, EmptySlot, HeldInv, SlotHeld, ProcHeld, Sending
  <2>2. SafeInv /\ HeldInv => RecordedOnlyIfHeld
    <3> SUFFICES ASSUME SafeInv, HeldInv,
                        NEW s \in Saves, NEW c \in server[s].rows,
                        server[s].sync[c] \in {"current", "stale"}
                 PROVE  c \in held[s]
      BY DEF RecordedOnlyIfHeld
    <3>1. c \in Content
      BY DEF SafeInv, TypeOK, Slot
    <3> QED BY <3>1 DEF HeldInv, SlotHeld
  <2> QED BY <1>1, <2>1, <2>2, NextHeld, Safe, PTL DEF Spec
<1>2. CASE Optimistic
  <2>1. RecordedOnlyIfHeld
    BY <1>2 DEF RecordedOnlyIfHeld
  <2> QED BY <2>1, PTL
<1> QED BY <1>1, <1>2

=============================================================================
