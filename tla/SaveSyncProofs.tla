--------------------------- MODULE SaveSyncProofs ---------------------------
(***************************************************************************)
(* Proofs about SaveSync, for any number of processes, saves and contents. *)
(***************************************************************************)
EXTENDS SaveSync, TLAPS

-----------------------------------------------------------------------------
(* The server's operators: they keep a slot a slot and lose no row. *)

GrowsTo(old, new) == new \in Slot /\ old.rows \subseteq new.rows
                     /\ (old.head \in old.rows \cup {None} =>
                           new.head \in new.rows \cup {None})

(* Storing a save keeps every row, and the newest row is one of them. *)
LEMMA PostGrows ==
    ASSUME NEW slot \in Slot, NEW c \in Content, NEW links \in BOOLEAN
    PROVE  GrowsTo(slot, PostSave(slot, c, links)) /\ c \in PostSave(slot, c, links).rows
BY DEF Slot, SyncState, PostSave, GrowsTo

(* Linking a row does; *)
LEMMA LinkGrows ==
    ASSUME NEW slot \in Slot, NEW c \in slot.rows
    PROVE  GrowsTo(slot, LinkSave(slot, c)) /\ LinkSave(slot, c).rows = slot.rows
BY DEF Slot, SyncState, LinkSave, GrowsTo

(* so do recording a download, *)
LEMMA MarkGrows ==
    ASSUME NEW slot \in Slot, NEW c \in Content
    PROVE  GrowsTo(slot, MarkDownloaded(slot, c))
           /\ MarkDownloaded(slot, c).rows = slot.rows
BY DEF Slot, SyncState, MarkDownloaded, GrowsTo

(* tracking, *)
LEMMA TrackGrows ==
    ASSUME NEW slot \in Slot, NEW rows
    PROVE  GrowsTo(slot, TrackSaves(slot, rows)) /\ TrackSaves(slot, rows).rows = slot.rows
BY DEF Slot, SyncState, TrackSaves, GrowsTo

(* untracking, *)
LEMMA UntrackGrows ==
    ASSUME NEW slot \in Slot, NEW c \in Content
    PROVE  GrowsTo(slot, UntrackSave(slot, c)) /\ UntrackSave(slot, c).rows = slot.rows
BY DEF Slot, SyncState, UntrackSave, GrowsTo

(* and what other devices store. *)
LEMMA OtherGrows ==
    ASSUME NEW slot \in Slot, NEW c \in Content
    PROVE  GrowsTo(slot, OtherDevicePosts(slot, c))
           /\ OtherDevicePosts(slot, c).rows = slot.rows \cup {c}
BY DEF Slot, SyncState, OtherDevicePosts, GrowsTo

(* Every operation negotiated for a slot names its newest row. *)
LEMMA VerdictsNameHead ==
    ASSUME NEW slot, NEW file, NEW op \in Verdicts(slot, file)
    PROVE  op.row = slot.head
BY DEF Verdicts

(* The row indexed for a save is one of its rows, or there is none. *)
LEMMA IndexedRowExists ==
    ASSUME NEW slot \in Slot, NEW row \in IndexedRow(slot)
    PROVE  row \in slot.rows \cup {None}
BY DEF Slot, IndexedRow, Listed, Untracked

-----------------------------------------------------------------------------
(* What a step leaves of the invariant for the processes that do not take it. *)

ServerGrows ==
    server' \in [Saves -> Slot] /\ \A s \in Saves : GrowsTo(server[s], server'[s])

(* A process that did not move is as ready as before: the server lost no row,
   and only the lock's holder, so only itself, touches the .part it renames. *)
LEMMA StaysReady ==
    ASSUME SafeInv, ServerGrows,
           NEW q \in Procs, proc'[q] = proc[q], part' = part \/ lock # q
    PROVE  PlanExists(q)' /\ TransferReady(q)'
<1>1. proc[q] \in ProcState /\ proc[q].cur \in Op \cup {NoOp}
  BY DEF SafeInv, TypeOK, ProcState
<1>2. \A s \in Saves : server[s].rows \subseteq server'[s].rows
  BY DEF ServerGrows, GrowsTo
<1>3. PlanExists(q)'
  BY <1>1, <1>2 DEF SafeInv, PlanExists, ProcState, Op
<1>4. TransferReady(q)'
  BY <1>1, <1>2 DEF SafeInv, TransferReady, LockHeld, ProcState, Op, Sending,
                    Fetching, Executing, Labels
<1> QED BY <1>3, <1>4

(* The step of one process keeps SafeInv when it keeps its own part of it. *)
LEMMA OneMoves ==
    ASSUME SafeInv, ServerGrows,
           NEW p \in Procs, \A q \in Procs \ {p} : proc'[q] = proc[q],
           part' = part \/ lock = p,
           TypeOK', NoTornSave', LockHeld', PlanExists(p)', TransferReady(p)'
    PROVE  SafeInv'
<1>1. \A q \in Procs : PlanExists(q)' /\ TransferReady(q)'
  <2> SUFFICES ASSUME NEW q \in Procs, q # p
               PROVE  PlanExists(q)' /\ TransferReady(q)'
    OBVIOUS
  <2> QED BY StaysReady
<1>2. HeadExists'
  BY DEF SafeInv, HeadExists, ServerGrows, GrowsTo
<1> QED BY <1>1, <1>2 DEF SafeInv

(* The server does not change. *)
LEMMA SameServerGrows ==
    ASSUME SafeInv, server' = server
    PROVE  ServerGrows
BY DEF SafeInv, TypeOK, HeadExists, ServerGrows, GrowsTo

(* One slot changes, and grows. *)
LEMMA OneSlotGrows ==
    ASSUME SafeInv, NEW s \in Saves, NEW slot, GrowsTo(server[s], slot),
           server' = [server EXCEPT ![s] = slot]
    PROVE  ServerGrows
BY DEF SafeInv, TypeOK, HeadExists, ServerGrows, GrowsTo

(* The lock passes to nobody while its holder keeps executing. *)
LEMMA LockStays ==
    ASSUME SafeInv, NEW p \in Procs, lock' = lock,
           \A q \in Procs \ {p} : proc'[q] = proc[q],
           proc'[p].pc \in Executing <=> proc[p].pc \in Executing
    PROVE  LockHeld'
BY DEF SafeInv, LockHeld

(* A process that is over holds nothing and is ready for nothing. *)
LEMMA ExitLemma ==
    ASSUME SafeInv, NEW p \in Procs, Exit(p)
    PROVE  /\ proc' \in [Procs -> ProcState]
           /\ \A q \in Procs \ {p} : proc'[q] = proc[q]
           /\ proc'[p] = IdleProc
           /\ lock' \in Procs \cup {None}
           /\ LockHeld' /\ PlanExists(p)' /\ TransferReady(p)'
<1>1. IdleProc \in ProcState
  BY DEF IdleProc, ProcState, NoSurvey, NoView, NoOp, ListingView, File, Labels
<1>2. proc' = [proc EXCEPT ![p] = IdleProc] /\ proc \in [Procs -> ProcState]
  BY DEF Exit, SafeInv, TypeOK
<1>3. /\ proc' \in [Procs -> ProcState]
      /\ \A q \in Procs \ {p} : proc'[q] = proc[q]
      /\ proc'[p] = IdleProc
  BY <1>1, <1>2
<1>4. lock' = IF lock = p THEN None ELSE lock
  BY DEF Exit
<1>5. LockHeld'
  BY <1>3, <1>4, ConstantsAssumption
     DEF SafeInv, LockHeld, IdleProc, Executing, Sending, Fetching, Labels
<1>6. PlanExists(p)'
  BY <1>3 DEF PlanExists, IdleProc, NoView
<1>7. TransferReady(p)'
  BY <1>3 DEF TransferReady, IdleProc, Sending, Fetching
<1>8. lock' \in Procs \cup {None}
  BY <1>4 DEF SafeInv, TypeOK
<1> QED BY <1>3, <1>5, <1>6, <1>7, <1>8

(* The next operation begins with a clean slate, still under the lock. *)
LEMMA AdvanceLemma ==
    ASSUME SafeInv, ServerGrows, NEW p \in Procs, Advance(p), lock' = lock,
           proc[p].pc \in Executing
    PROVE  /\ proc' \in [Procs -> ProcState]
           /\ \A q \in Procs \ {p} : proc'[q] = proc[q]
           /\ LockHeld' /\ PlanExists(p)' /\ TransferReady(p)'
<1>1. proc[p] \in ProcState /\ proc \in [Procs -> ProcState]
  BY DEF SafeInv, TypeOK
<1>2. proc' = [proc EXCEPT ![p] =
                 [proc[p] EXCEPT !.pc = "next", !.cur = NoOp, !.buf = None]]
  BY DEF Advance
<1>3. /\ proc'[p] \in ProcState
      /\ proc'[p].pc = "next" /\ proc'[p].view = proc[p].view
      /\ proc'[p].todo = proc[p].todo
  BY <1>1, <1>2 DEF ProcState, Labels, File
<1>4. \A q \in Procs \ {p} : proc'[q] = proc[q]
  BY <1>1, <1>2
<1>5. proc' \in [Procs -> ProcState]
  BY <1>1, <1>2, <1>3
<1>6. LockHeld'
  BY <1>3, <1>4, LockStays DEF Executing, Sending, Fetching, Labels
<1>7. PlanExists(p)'
  BY <1>1, <1>3 DEF SafeInv, PlanExists, ServerGrows, GrowsTo, ProcState, Op
<1>8. TransferReady(p)'
  BY <1>3 DEF TransferReady, Sending, Fetching
<1> QED BY <1>4, <1>5, <1>6, <1>7, <1>8

(* Whatever a request does, its slot grows. *)
LEMMA RequestGrows ==
    ASSUME SafeInv, NEW p \in Procs, proc[p].pc \in {"link", "post", "get", "confirm"},
           At(p, "post") => local[proc[p].cur.save] # None,
           NEW slot \in ServerAfter(p),
           \/ server' = server
           \/ server' = [server EXCEPT ![proc[p].cur.save] = slot]
    PROVE  ServerGrows
<1> DEFINE s == proc[p].cur.save
<1>1. /\ proc[p].cur \in Op /\ s \in Saves /\ server[s] \in Slot
      /\ local[s] \in Bytes /\ local[s] # Torn
  BY DEF SafeInv, TransferReady, TypeOK, NoTornSave, Sending, Fetching, Op
<1>2. GrowsTo(server[s], slot)
  <2>1. CASE At(p, "link")
    <3>1. slot = LinkSave(server[s], proc[p].buf) /\ proc[p].buf \in server[s].rows
      BY <2>1 DEF ServerAfter, At, SafeInv, TransferReady
    <3> QED BY <1>1, <3>1, LinkGrows
  <2>2. CASE At(p, "post")
    <3>1. PICK links \in BOOLEAN : slot = PostSave(server[s], local[s], links)
      BY <2>2 DEF ServerAfter, At
    <3>2. local[s] \in Content
      BY <1>1, <2>2 DEF Bytes, File
    <3> QED BY <1>1, <3>1, <3>2, PostGrows
  <2>3. CASE proc[p].pc \in {"get", "confirm"}
    <3>1. proc[p].cur.row \in server[s].rows
      BY <2>3 DEF SafeInv, TransferReady, Fetching
    <3>2. proc[p].cur.row \in Content
      BY <1>1, <3>1 DEF Slot
    <3>3. slot \in {server[s], MarkDownloaded(server[s], proc[p].cur.row)}
      BY <2>3 DEF ServerAfter, At
    <3> QED BY <1>1, <3>2, <3>3, MarkGrows DEF GrowsTo
  <2> QED BY <2>1, <2>2, <2>3 DEF At
<1> QED BY <1>1, <1>2, SameServerGrows, OneSlotGrows

(* An event spent stays within the bound. *)
LEMMA SpendType == ASSUME TypeOK, Spend PROVE events' \in 0..MaxEvents
BY ConstantsAssumption DEF TypeOK, Spend

(* A request keeps the invariant if its answer leads to a ready state. *)
LEMMA RequestStep ==
    ASSUME SafeInv, NEW p \in Procs, proc[p].pc \in {"link", "post", "get", "confirm"},
           At(p, "post") => local[proc[p].cur.save] # None,
           Request(p, Advance(p)), UNCHANGED <<lock, diskVars>>
    PROVE  SafeInv'
<1>1. ServerGrows
  BY RequestGrows DEF Request
<1>2. Advance(p) /\ lock' = lock /\ proc[p].pc \in Executing
  BY DEF Request, Executing, Sending, Fetching, Labels
<1>3. /\ proc' \in [Procs -> ProcState]
      /\ \A q \in Procs \ {p} : proc'[q] = proc[q]
      /\ LockHeld' /\ PlanExists(p)' /\ TransferReady(p)'
  BY <1>1, <1>2, AdvanceLemma
<1>4. events' \in 0..MaxEvents
  BY SpendType DEF Request, SafeInv, TypeOK
<1>5. TypeOK' /\ NoTornSave' /\ part' = part
  BY <1>1, <1>3, <1>4 DEF SafeInv, TypeOK, NoTornSave, ServerGrows, diskVars
<1> QED BY <1>1, <1>3, <1>5, OneMoves

(* Linking a row keeps the invariant, *)
LEMMA LinkStep == ASSUME SafeInv, NEW p \in Procs, Link(p) PROVE SafeInv'
BY RequestStep DEF Link, At

(* and so does confirming a download. *)
LEMMA ConfirmStep == ASSUME SafeInv, NEW p \in Procs, Confirm(p) PROVE SafeInv'
BY RequestStep DEF Confirm, At

(* A failed operation changes nothing but the process. *)
LEMMA FailStep ==
    ASSUME SafeInv, NEW p \in Procs, Advance(p), proc[p].pc \in Executing,
           UNCHANGED <<server, lock, diskVars>>, events' \in 0..MaxEvents
    PROVE  SafeInv'
<1>1. ServerGrows
  BY SameServerGrows
<1>2. /\ proc' \in [Procs -> ProcState]
      /\ \A q \in Procs \ {p} : proc'[q] = proc[q]
      /\ LockHeld' /\ PlanExists(p)' /\ TransferReady(p)'
  BY <1>1, AdvanceLemma
<1>3. TypeOK' /\ NoTornSave' /\ part' = part
  BY <1>1, <1>2 DEF SafeInv, TypeOK, NoTornSave, ServerGrows, diskVars
<1> QED BY <1>1, <1>2, <1>3, OneMoves

(* So does storing a file, or finding it gone. *)
LEMMA PostStep == ASSUME SafeInv, NEW p \in Procs, Post(p) PROVE SafeInv'
<1>1. CASE local[proc[p].cur.save] = None
  BY <1>1, FailStep DEF Post, At, Executing, Sending, Fetching, Labels, SafeInv, TypeOK
<1>2. CASE local[proc[p].cur.save] # None
  BY <1>2, RequestStep DEF Post, At
<1> QED BY <1>1, <1>2

(* A fetched row is what the following steps write. *)
LEMMA GetStep == ASSUME SafeInv, NEW p \in Procs, Get(p) PROVE SafeInv'
<1> DEFINE onAnswer == proc' = [proc EXCEPT ![p].pc = "backup", ![p].buf = proc[p].cur.row]
<1>1. At(p, "get") /\ Request(p, onAnswer) /\ UNCHANGED <<lock, diskVars>>
  BY DEF Get
<1>2. ServerGrows
  BY <1>1, RequestGrows DEF Request, At
<1>3. onAnswer \/ Advance(p)
  BY <1>1 DEF Request
<1>4. events' \in 0..MaxEvents
  BY <1>1, SpendType DEF Request, SafeInv, TypeOK
<1>5. /\ proc' \in [Procs -> ProcState]
      /\ \A q \in Procs \ {p} : proc'[q] = proc[q]
      /\ LockHeld' /\ PlanExists(p)' /\ TransferReady(p)'
  <2>1. CASE Advance(p)
    BY <1>1, <1>2, <2>1, AdvanceLemma DEF At, Executing, Sending, Fetching, Labels
  <2>2. CASE onAnswer
    <3>1. /\ proc[p] \in ProcState /\ proc \in [Procs -> ProcState]
          /\ proc[p].cur \in Op /\ proc[p].cur.row \in server[proc[p].cur.save].rows
      BY <1>1 DEF SafeInv, TypeOK, TransferReady, At, Fetching
    <3>2. proc' = [proc EXCEPT ![p] =
                     [proc[p] EXCEPT !.pc = "backup", !.buf = proc[p].cur.row]]
      BY <2>2
    <3>3. /\ proc'[p] \in ProcState /\ proc'[p].pc = "backup"
          /\ proc'[p].buf = proc[p].cur.row /\ proc'[p].cur = proc[p].cur
          /\ proc'[p].view = proc[p].view /\ proc'[p].todo = proc[p].todo
      BY <3>1, <3>2 DEF ProcState, Labels, Op
    <3>4. \A q \in Procs \ {p} : proc'[q] = proc[q]
      BY <3>1, <3>2
    <3>5. proc' \in [Procs -> ProcState]
      BY <3>1, <3>2, <3>3
    <3>6. LockHeld'
      BY <1>1, <3>3, <3>4, LockStays DEF At, Executing, Sending, Fetching, Labels
    <3>7. PlanExists(p)'
      BY <1>2, <3>1, <3>3 DEF SafeInv, PlanExists, ServerGrows, GrowsTo, ProcState, Op
    <3>8. TransferReady(p)'
      BY <1>2, <3>1, <3>3 DEF TransferReady, ServerGrows, GrowsTo, Op, Sending, Fetching
    <3> QED BY <3>4, <3>5, <3>6, <3>7, <3>8
  <2> QED BY <1>3, <2>1, <2>2
<1>6. TypeOK' /\ NoTornSave' /\ part' = part
  BY <1>1, <1>2, <1>4, <1>5 DEF SafeInv, TypeOK, NoTornSave, ServerGrows, diskVars
<1> QED BY <1>2, <1>5, <1>6, OneMoves

-----------------------------------------------------------------------------
(* The other steps of a process. *)

(* A process moves to the state `me` without taking or leaving the lock. *)
LEMMA OwnMove ==
    ASSUME SafeInv, NEW p \in Procs, NEW me \in ProcState,
           proc' = [proc EXCEPT ![p] = me], lock' = lock,
           me.pc \in Executing <=> proc[p].pc \in Executing
    PROVE  /\ proc' \in [Procs -> ProcState]
           /\ \A q \in Procs \ {p} : proc'[q] = proc[q]
           /\ proc'[p] = me
           /\ LockHeld'
<1>1. proc \in [Procs -> ProcState]
  BY DEF SafeInv, TypeOK
<1>2. /\ proc' \in [Procs -> ProcState]
      /\ \A q \in Procs \ {p} : proc'[q] = proc[q]
      /\ proc'[p] = me
  BY <1>1
<1>3. LockHeld'
  BY <1>2, LockStays
<1> QED BY <1>2, <1>3

(* The same when nothing but the process, the events and the server moves. *)
LEMMA QuietMove ==
    ASSUME SafeInv, ServerGrows, NEW p \in Procs, NEW me \in ProcState,
           proc' = [proc EXCEPT ![p] = me],
           me.pc \in Executing <=> proc[p].pc \in Executing,
           UNCHANGED <<lock, local, bak, part, held>>, fresh' \subseteq Saves,
           events' \in 0..MaxEvents,
           PlanExists(p)', TransferReady(p)'
    PROVE  SafeInv'
<1>1. /\ proc' \in [Procs -> ProcState]
      /\ \A q \in Procs \ {p} : proc'[q] = proc[q]
      /\ LockHeld'
  BY OwnMove
<1>2. TypeOK' /\ NoTornSave'
  BY <1>1 DEF SafeInv, TypeOK, NoTornSave, ServerGrows
<1> QED BY <1>1, <1>2, OneMoves

(* Starting a command, *)
LEMMA StartStep ==
    ASSUME SafeInv, NEW p \in Procs, NEW kind \in AllKinds, NEW scope \in SUBSET Saves,
           Start(p, kind, scope)
    PROVE  SafeInv'
<1> DEFINE me == [proc[p] EXCEPT !.pc = "survey", !.kind = kind, !.scope = scope]
<1>1. proc[p] \in ProcState /\ proc[p].pc = "idle" /\ proc' = [proc EXCEPT ![p] = me]
  BY DEF Start, At, SafeInv, TypeOK
<1>2. /\ me \in ProcState /\ me.pc = "survey"
      /\ me.view = proc[p].view /\ me.todo = proc[p].todo
  BY <1>1 DEF ProcState, Labels
<1>3. events' \in 0..MaxEvents
  BY SpendType DEF Start, SafeInv, TypeOK
<1>4. ServerGrows /\ UNCHANGED <<server, lock, local, bak, part, held>>
  BY SameServerGrows DEF Start, diskVars
<1>5. proc'[p] = me
  BY <1>1 DEF SafeInv, TypeOK
<1>6. PlanExists(p)' /\ TransferReady(p)'
  BY <1>2, <1>4, <1>5 DEF SafeInv, PlanExists, TransferReady, Sending, Fetching
<1>7. fresh' \subseteq Saves
  BY DEF SafeInv, TypeOK, Start, diskVars
<1> HIDE DEF me
<1> QED BY <1>1, <1>2, <1>3, <1>4, <1>6, <1>7, QuietMove
    DEF Executing, Sending, Fetching, Labels

(* surveying files and listing, *)
LEMMA SurveyStep == ASSUME SafeInv, NEW p \in Procs, Survey(p) PROVE SafeInv'
<1>1. PICK rows \in [Saves -> File] :
        /\ \A s \in Saves : rows[s] \in IndexedRow(server'[s])
        /\ proc' = [proc EXCEPT
              ![p].pc = "negotiate",
              ![p].snap = [s \in Saves |->
                             IF s \in proc[p].scope THEN local[s] ELSE None],
              ![p].view = [s \in Saves |->
                 [row |-> rows[s],
                  current |-> rows[s] # None /\ server'[s].sync[rows[s]] = "current",
                  untracked |-> Untracked(server'[s])]]]
  BY DEF Survey
<1> DEFINE snap == [s \in Saves |-> IF s \in proc[p].scope THEN local[s] ELSE None]
           view == [s \in Saves |->
                 [row |-> rows[s],
                  current |-> rows[s] # None /\ server'[s].sync[rows[s]] = "current",
                  untracked |-> Untracked(server'[s])]]
           me == [proc[p] EXCEPT !.pc = "negotiate", !.snap = snap, !.view = view]
<1>2. ServerGrows
  <2>1. PICK failed \in SUBSET Saves :
          server' = [s \in Saves |-> IF s \in failed THEN server[s]
                                     ELSE TrackSaves(server[s], Orphans(server[s]))]
    BY DEF Survey
  <2>2. server' \in [Saves -> Slot] /\ \A s \in Saves : GrowsTo(server[s], server'[s])
    BY <2>1, TrackGrows DEF GrowsTo, SafeInv, TypeOK
  <2> QED BY <2>2 DEF ServerGrows
<1>3. proc[p] \in ProcState /\ proc[p].pc = "survey" /\ proc' = [proc EXCEPT ![p] = me]
  BY <1>1 DEF Survey, At, SafeInv, TypeOK
<1>4. snap \in [Saves -> File]
  BY DEF SafeInv, TypeOK, NoTornSave, Bytes, File
<1>5. \A s \in Saves : rows[s] \in File /\ rows[s] \in server'[s].rows \cup {None}
  BY <1>1, <1>2, IndexedRowExists DEF ServerGrows
<1>6. view \in [Saves -> ListingView] /\ \A s \in Saves : view[s].row = rows[s]
  <2>1. \A s \in Saves : Untracked(server'[s]) \in SUBSET Content
    BY <1>2 DEF ServerGrows, Slot, Untracked
  <2> QED BY <1>5, <2>1 DEF ListingView
<1> HIDE DEF snap, view
<1>7. /\ me \in ProcState /\ me.pc = "negotiate"
      /\ me.view = view /\ me.todo = proc[p].todo
  BY <1>3, <1>4, <1>6 DEF ProcState, Labels
<1>8. proc'[p] = me
  BY <1>3 DEF SafeInv, TypeOK
<1>9. PlanExists(p)'
  BY <1>2, <1>3, <1>5, <1>6, <1>7, <1>8
     DEF SafeInv, PlanExists, ServerGrows, GrowsTo, ProcState, Op
<1>10. TransferReady(p)'
  BY <1>7, <1>8 DEF TransferReady, Sending, Fetching
<1>11. events' \in 0..MaxEvents /\ UNCHANGED <<lock, local, bak, part, held>>
       /\ fresh' \subseteq Saves
  BY SpendType DEF Survey, diskVars, SafeInv, TypeOK
<1> HIDE DEF me
<1> QED BY <1>2, <1>3, <1>7, <1>9, <1>10, <1>11, QuietMove
    DEF Executing, Sending, Fetching, Labels

(* and planning with rows of the server keep the invariant. *)
LEMMA NegotiateStep == ASSUME SafeInv, NEW p \in Procs, Negotiate(p) PROVE SafeInv'
<1>1. PICK answer \in [proc[p].scope -> [act : Act, row : File]] :
        /\ \A s \in proc[p].scope :
              answer[s] \in IF proc[p].kind = "resync"
                            THEN LegacyVerdicts(proc[p].snap[s], proc[p].view[s])
                            ELSE Verdicts(server[s], proc[p].snap[s])
        /\ proc' = [proc EXCEPT
              ![p].pc = "lock",
              ![p].view = NoView,
              ![p].todo = {[save |-> s, act |-> answer[s].act, row |-> answer[s].row] :
                             s \in {t \in proc[p].scope : Kept(p, t, answer[t])}}]
  BY DEF Negotiate
<1> DEFINE todo == {[save |-> s, act |-> answer[s].act, row |-> answer[s].row] :
                      s \in {t \in proc[p].scope : Kept(p, t, answer[t])}}
           me == [proc[p] EXCEPT !.pc = "lock", !.view = NoView, !.todo = todo]
<1>2. proc[p] \in ProcState /\ proc[p].pc = "negotiate" /\ proc' = [proc EXCEPT ![p] = me]
      /\ proc[p].scope \subseteq Saves
  BY <1>1 DEF Negotiate, At, SafeInv, TypeOK, ProcState
<1>3. \A s \in proc[p].scope : answer[s].row \in server[s].rows \cup {None}
  <2> SUFFICES ASSUME NEW s \in proc[p].scope
               PROVE  answer[s].row \in server[s].rows \cup {None}
    OBVIOUS
  <2>1. CASE proc[p].kind = "resync"
    <3>1. answer[s].row = proc[p].view[s].row
      BY <1>1, <2>1 DEF LegacyVerdicts
    <3> QED BY <1>2, <3>1 DEF SafeInv, PlanExists
  <2>2. CASE proc[p].kind # "resync"
    <3>1. answer[s].row = server[s].head
      BY <1>1, <2>2, VerdictsNameHead
    <3> QED BY <1>2, <3>1 DEF SafeInv, HeadExists
  <2> QED BY <2>1, <2>2
<1>4. todo \in SUBSET Op /\ \A op \in todo : op.row \in server[op.save].rows \cup {None}
  BY <1>2, <1>3 DEF Op
<1>5. NoView \in [Saves -> ListingView] /\ \A s \in Saves : NoView[s].row = None
  BY DEF NoView, ListingView, File
<1> HIDE DEF todo
<1>6. /\ me \in ProcState /\ me.pc = "lock" /\ me.view = NoView /\ me.todo = todo
  BY <1>2, <1>4, <1>5 DEF ProcState, Labels
<1>7. proc'[p] = me
  BY <1>2 DEF SafeInv, TypeOK
<1>8. ServerGrows /\ UNCHANGED <<server, lock, local, bak, part, held>>
      /\ events' \in 0..MaxEvents /\ fresh' \subseteq Saves
  BY SameServerGrows DEF Negotiate, diskVars, SafeInv, TypeOK
<1>9. PlanExists(p)' /\ TransferReady(p)'
  BY <1>4, <1>5, <1>6, <1>7, <1>8 DEF PlanExists, TransferReady, Sending, Fetching
<1> HIDE DEF me
<1> QED BY <1>2, <1>6, <1>8, <1>9, QuietMove
    DEF Executing, Sending, Fetching, Labels

(* A process that stays in the preview keeps its plan. *)
LEMMA PreviewMove ==
    ASSUME SafeInv, NEW p \in Procs, NEW me \in ProcState,
           proc' = [proc EXCEPT ![p] = me],
           proc[p].pc \in {"survey", "negotiate"}, me.pc = proc[p].pc,
           me.view = proc[p].view, me.todo = proc[p].todo,
           UNCHANGED <<server, lock, diskVars>>, events' \in 0..MaxEvents
    PROVE  SafeInv'
<1>1. ServerGrows /\ UNCHANGED <<server, lock, local, bak, part, held>>
      /\ fresh' \subseteq Saves
  BY SameServerGrows DEF diskVars, SafeInv, TypeOK
<1>2. proc'[p] = me
  BY DEF SafeInv, TypeOK
<1>3. PlanExists(p)' /\ TransferReady(p)'
  BY <1>1, <1>2 DEF SafeInv, PlanExists, TransferReady, Sending, Fetching
<1> QED BY <1>1, <1>3, QuietMove

(* A process that ends keeps the invariant, whole files staying whole. *)
LEMMA ExitStep ==
    ASSUME SafeInv, NEW p \in Procs, Exit(p), events' \in 0..MaxEvents,
           UNCHANGED <<server, local, bak, held, fresh>>,
           part' \in [Saves -> Bytes], part' = part \/ lock = p
    PROVE  SafeInv'
<1>1. ServerGrows
  BY SameServerGrows
<1>2. /\ proc' \in [Procs -> ProcState]
      /\ \A q \in Procs \ {p} : proc'[q] = proc[q]
      /\ lock' \in Procs \cup {None}
      /\ LockHeld' /\ PlanExists(p)' /\ TransferReady(p)'
  BY ExitLemma
<1>3. TypeOK' /\ NoTornSave'
  BY <1>1, <1>2 DEF SafeInv, TypeOK, NoTornSave
<1> QED BY <1>1, <1>2, <1>3, OneMoves

(* Whoever takes the free lock is its only holder, and starts executing. *)
LEMMA LockMove ==
    ASSUME SafeInv, NEW p \in Procs, At(p, "lock"), lock = None, lock' = p,
           NEW snap \in [Saves -> File], NEW rang \in BOOLEAN,
           proc' = [proc EXCEPT ![p].pc = "next", ![p].timed_out = rang,
                                ![p].snap = snap],
           UNCHANGED <<server, diskVars>>, events' \in 0..MaxEvents
    PROVE  SafeInv'
<1> DEFINE me == [proc[p] EXCEPT !.pc = "next", !.timed_out = rang, !.snap = snap]
<1>1. proc[p] \in ProcState /\ proc \in [Procs -> ProcState] /\ proc' = [proc EXCEPT ![p] = me]
  BY DEF SafeInv, TypeOK
<1>2. /\ me \in ProcState /\ me.pc = "next"
      /\ me.view = proc[p].view /\ me.todo = proc[p].todo
  BY <1>1 DEF ProcState, Labels
<1> HIDE DEF me
<1>3. /\ proc' \in [Procs -> ProcState]
      /\ \A q \in Procs \ {p} : proc'[q] = proc[q]
      /\ proc'[p] = me
  BY <1>1, <1>2
<1>4. LockHeld'
  BY <1>2, <1>3, ConstantsAssumption DEF SafeInv, LockHeld, Executing, Sending, Fetching, Labels
<1>5. ServerGrows /\ UNCHANGED <<server, local, bak, part, held, fresh>>
  BY SameServerGrows DEF diskVars
<1>6. PlanExists(p)' /\ TransferReady(p)'
  BY <1>2, <1>3, <1>5 DEF SafeInv, PlanExists, TransferReady, Sending, Fetching
<1>7. TypeOK' /\ NoTornSave'
  BY <1>3, <1>5 DEF SafeInv, TypeOK, NoTornSave
<1> QED BY <1>3, <1>4, <1>5, <1>6, <1>7, OneMoves

(* Local files are whole, so a scan of them finds contents or nothing. *)
LEMMA ScanType ==
    ASSUME SafeInv
    PROVE  local \in [Saves -> File]
BY DEF SafeInv, TypeOK, NoTornSave, Bytes

(* Taking the lock, or giving up, keeps the invariant. *)
LEMMA TryLockStep == ASSUME SafeInv, NEW p \in Procs, TryLock(p) PROVE SafeInv'
<1>1. CASE lock # None
  BY <1>1, ExitStep DEF TryLock, diskVars, SafeInv, TypeOK
<1>2. CASE lock = None
  <2>1. proc[p] \in ProcState /\ proc[p].timed_out \in BOOLEAN
    BY DEF SafeInv, TypeOK, ProcState
  <2>2. [proc[p] EXCEPT !.pc = "next", !.snap = local]
          = [proc[p] EXCEPT !.pc = "next", !.timed_out = proc[p].timed_out, !.snap = local]
    BY <2>1 DEF ProcState
  <2>3. proc' = [proc EXCEPT ![p] = [proc[p] EXCEPT !.pc = "next", !.snap = local]]
    BY <1>2 DEF TryLock
  <2>4. proc' = [proc EXCEPT ![p].pc = "next", ![p].timed_out = proc[p].timed_out,
                             ![p].snap = local]
    BY <2>2, <2>3
  <2>5. At(p, "lock") /\ lock' = p /\ UNCHANGED <<server, diskVars>>
        /\ events' \in 0..MaxEvents
    BY <1>2 DEF TryLock, SafeInv, TypeOK
  <2> QED BY <1>2, <2>1, <2>4, <2>5, ScanType, LockMove
<1> QED BY <1>1, <1>2

(* So does a scan that passes over files because the alarm rang, *)
LEMMA TimeoutInScanStep ==
    ASSUME SafeInv, NEW p \in Procs, TimeoutInScan(p) PROVE SafeInv'
<1> DEFINE seen(missed, files) == [s \in Saves |-> IF s \in missed THEN None ELSE files[s]]
<1>1. PICK missed \in SUBSET Saves :
        \/ /\ At(p, "negotiate")
           /\ UNCHANGED lock
           /\ proc' = [proc EXCEPT ![p].timed_out = TRUE,
                                   ![p].snap = seen(missed, proc[p].snap)]
        \/ /\ At(p, "lock") /\ lock = None
           /\ lock' = p
           /\ proc' = [proc EXCEPT ![p].pc = "next", ![p].timed_out = TRUE,
                                   ![p].snap = seen(missed, local)]
  BY DEF TimeoutInScan
<1>2. proc[p] \in ProcState /\ proc[p].snap \in [Saves -> File]
  BY DEF SafeInv, TypeOK, ProcState
<1>3. /\ seen(missed, proc[p].snap) \in [Saves -> File]
      /\ seen(missed, local) \in [Saves -> File]
  BY <1>2, ScanType DEF File
<1>4. events' \in 0..MaxEvents /\ UNCHANGED <<server, diskVars>>
  BY SpendType DEF TimeoutInScan, Timeout, SafeInv
<1> HIDE DEF seen
<1>5. CASE At(p, "lock")
  BY <1>1, <1>3, <1>4, <1>5, LockMove DEF At
<1>6. CASE At(p, "negotiate")
  <2> DEFINE me == [proc[p] EXCEPT !.timed_out = TRUE, !.snap = seen(missed, proc[p].snap)]
  <2>1. proc' = [proc EXCEPT ![p] = me] /\ UNCHANGED lock
    BY <1>1, <1>6 DEF At
  <2>2. me \in ProcState /\ me.pc = "negotiate" /\ me.view = proc[p].view
        /\ me.todo = proc[p].todo
    BY <1>2, <1>3, <1>6 DEF At, ProcState
  <2> HIDE DEF me
  <2> QED BY <1>4, <1>6, <2>1, <2>2, PreviewMove DEF At, diskVars
<1> QED BY <1>1, <1>5, <1>6

(* and an alarm that only makes a request be tried again. *)
LEMMA TimeoutRetriedStep ==
    ASSUME SafeInv, NEW p \in Procs, TimeoutRetried(p) PROVE SafeInv'
<1> DEFINE me == [proc[p] EXCEPT !.timed_out = TRUE]
<1>1. proc[p] \in ProcState /\ proc' = [proc EXCEPT ![p] = me]
  BY DEF TimeoutRetried, SafeInv, TypeOK
<1>2. /\ me \in ProcState /\ me.pc = proc[p].pc /\ me.cur = proc[p].cur
      /\ me.buf = proc[p].buf /\ me.view = proc[p].view /\ me.todo = proc[p].todo
  BY <1>1 DEF ProcState
<1> HIDE DEF me
<1>3. ServerGrows /\ UNCHANGED <<server, lock, local, bak, part, held>>
      /\ events' \in 0..MaxEvents /\ fresh' \subseteq Saves
  BY SameServerGrows, SpendType DEF TimeoutRetried, Timeout, diskVars, SafeInv, TypeOK
<1>4. proc'[p] = me
  BY <1>1 DEF SafeInv, TypeOK
<1>5. PlanExists(p)' /\ TransferReady(p)'
  BY <1>2, <1>3, <1>4 DEF SafeInv, PlanExists, TransferReady
<1> QED BY <1>1, <1>2, <1>3, <1>5, QuietMove

-----------------------------------------------------------------------------
(* Operations taken up or dropped. *)

(* A process that takes an operation up at `label` has it, with what it needs. *)
LEMMA TakeUpStep ==
    ASSUME SafeInv, NEW p \in Procs, At(p, "next"), NEW op \in proc[p].todo,
           NEW label \in {"lookup", "post", "get"}, NEW buf \in File,
           TakeUp(p, op, label, buf), UNCHANGED <<server, lock, events, diskVars>>,
           label \in Sending => buf \in Content,
           label = "get" => op.row # None
    PROVE  SafeInv'
<1> DEFINE me == [proc[p] EXCEPT !.pc = label, !.cur = op, !.buf = buf,
                                 !.todo = @ \ {op}]
<1>1. proc[p] \in ProcState /\ proc[p].pc = "next" /\ proc' = [proc EXCEPT ![p] = me]
  BY DEF TakeUp, At, SafeInv, TypeOK
<1>2. op \in Op /\ op.row \in server[op.save].rows \cup {None}
  BY <1>1 DEF SafeInv, PlanExists, ProcState
<1>3. /\ me \in ProcState /\ me.pc = label /\ me.cur = op /\ me.buf = buf
      /\ me.view = proc[p].view /\ me.todo \subseteq proc[p].todo
  BY <1>1, <1>2 DEF ProcState, Labels
<1> HIDE DEF me
<1>4. proc'[p] = me
  BY <1>1 DEF SafeInv, TypeOK
<1>5. ServerGrows /\ UNCHANGED <<server, lock, local, bak, part, held>>
      /\ events' \in 0..MaxEvents /\ fresh' \subseteq Saves
  BY SameServerGrows DEF diskVars, SafeInv, TypeOK
<1>6. PlanExists(p)'
  BY <1>3, <1>4, <1>5 DEF SafeInv, PlanExists
<1>7. TransferReady(p)'
  BY <1>2, <1>3, <1>4, <1>5 DEF TransferReady, Sending, Fetching
<1>8. me.pc \in Executing <=> proc[p].pc \in Executing
  BY <1>1, <1>3 DEF Executing, Sending, Fetching, Labels
<1> QED BY <1>1, <1>3, <1>5, <1>6, <1>7, <1>8, QuietMove

(* A dropped operation only leaves the plan. *)
LEMMA DropStep ==
    ASSUME SafeInv, NEW p \in Procs, At(p, "next"), NEW op \in proc[p].todo,
           Drop(p, op), UNCHANGED <<server, lock, events, diskVars>>
    PROVE  SafeInv'
<1> DEFINE me == [proc[p] EXCEPT !.todo = @ \ {op}]
<1>1. proc[p] \in ProcState /\ proc[p].pc = "next" /\ proc' = [proc EXCEPT ![p] = me]
  BY DEF Drop, At, SafeInv, TypeOK
<1>2. /\ me \in ProcState /\ me.pc = "next"
      /\ me.view = proc[p].view /\ me.todo \subseteq proc[p].todo
  BY <1>1 DEF ProcState
<1> HIDE DEF me
<1>3. proc'[p] = me
  BY <1>1 DEF SafeInv, TypeOK
<1>4. ServerGrows /\ UNCHANGED <<server, lock, local, bak, part, held>>
      /\ events' \in 0..MaxEvents /\ fresh' \subseteq Saves
  BY SameServerGrows DEF diskVars, SafeInv, TypeOK
<1>5. PlanExists(p)' /\ TransferReady(p)'
  BY <1>2, <1>3, <1>4 DEF SafeInv, PlanExists, TransferReady, Sending, Fetching
<1> QED BY <1>1, <1>2, <1>4, <1>5, QuietMove

(* Beginning an upload, *)
LEMMA BeginUploadStep == ASSUME SafeInv, NEW p \in Procs, BeginUpload(p) PROVE SafeInv'
<1> DEFINE label == IF proc[p].kind = "resync" THEN "post" ELSE "lookup"
<1>1. PICK op \in proc[p].todo :
        LET hash == proc[p].snap[op.save]
        IN IF hash = None THEN Drop(p, op) ELSE TakeUp(p, op, label, hash)
  BY DEF BeginUpload
<1>2. op \in Op /\ proc[p].snap[op.save] \in File
  BY DEF SafeInv, TypeOK, ProcState, Op
<1>3. At(p, "next") /\ UNCHANGED <<server, lock, events, diskVars>>
  BY DEF BeginUpload
<1>4. CASE proc[p].snap[op.save] = None
  BY <1>1, <1>3, <1>4, DropStep
<1>5. CASE proc[p].snap[op.save] # None
  <2>1. TakeUp(p, op, label, proc[p].snap[op.save]) /\ proc[p].snap[op.save] \in Content
    BY <1>1, <1>2, <1>5 DEF File
  <2>2. label \in {"lookup", "post", "get"} /\ label # "get"
    OBVIOUS
  <2> HIDE DEF label
  <2> QED BY <1>2, <1>3, <2>1, <2>2, TakeUpStep
<1> QED BY <1>4, <1>5

(* a download, *)
LEMMA BeginDownloadStep ==
    ASSUME SafeInv, NEW p \in Procs, BeginDownload(p) PROVE SafeInv'
<1>1. PICK op \in proc[p].todo :
        IF op.row = None \/ (op.row = local[op.save] /\ proc[p].kind # "resync")
        THEN Drop(p, op) ELSE TakeUp(p, op, "get", None)
  BY DEF BeginDownload
<1>2. At(p, "next") /\ UNCHANGED <<server, lock, events, diskVars>>
  BY DEF BeginDownload
<1>3. CASE Drop(p, op)
  BY <1>1, <1>2, <1>3, DropStep
<1>4. CASE op.row # None /\ TakeUp(p, op, "get", None)
  BY <1>1, <1>2, <1>4, TakeUpStep DEF File, Sending
<1> QED BY <1>1, <1>3, <1>4

(* or leaving a conflict alone keeps the invariant, *)
LEMMA SkipConflictStep ==
    ASSUME SafeInv, NEW p \in Procs, SkipConflict(p) PROVE SafeInv'
BY DropStep DEF SkipConflict

(* and so does looking a content up. *)
LEMMA LookUpStep == ASSUME SafeInv, NEW p \in Procs, LookUp(p) PROVE SafeInv'
<1> DEFINE s == proc[p].cur.save
           label == IF proc[p].buf \in server[s].rows THEN "link" ELSE "post"
           me == [proc[p] EXCEPT !.pc = label]
<1>1. At(p, "lookup") /\ UNCHANGED <<server, lock, diskVars>> /\ proc[p].pc \in Executing
  BY DEF LookUp, At, Executing, Sending, Fetching, Labels
<1>2. CASE Goto(p, label) /\ UNCHANGED events
  <2>1. proc[p] \in ProcState /\ proc' = [proc EXCEPT ![p] = me]
    BY <1>2 DEF Goto, SafeInv, TypeOK
  <2>2. proc[p].cur \in Op /\ proc[p].buf \in Content
    BY <1>1 DEF At, SafeInv, TransferReady, Sending
  <2>3. /\ me \in ProcState /\ me.pc = label /\ me.cur = proc[p].cur
        /\ me.buf = proc[p].buf /\ me.view = proc[p].view /\ me.todo = proc[p].todo
    BY <2>1 DEF ProcState, Labels
  <2> HIDE DEF me
  <2>4. proc'[p] = me
    BY <2>1 DEF SafeInv, TypeOK
  <2>5. ServerGrows /\ UNCHANGED <<server, lock, local, bak, part, held>>
        /\ events' \in 0..MaxEvents /\ fresh' \subseteq Saves
    BY <1>1, <1>2, SameServerGrows DEF diskVars, SafeInv, TypeOK
  <2>6. PlanExists(p)' /\ TransferReady(p)'
    BY <2>2, <2>3, <2>4, <2>5 DEF SafeInv, PlanExists, TransferReady, Sending, Fetching
  <2>7. me.pc \in Executing
    BY <2>3 DEF Executing, Sending, Fetching, Labels
  <2> QED BY <1>1, <2>1, <2>3, <2>5, <2>6, <2>7, QuietMove
<1>3. CASE Spend /\ Advance(p)
  BY <1>1, <1>3, SpendType, FailStep DEF SafeInv
<1> QED BY <1>2, <1>3 DEF LookUp

-----------------------------------------------------------------------------
(* The file operations of a download. *)

(* A step of a process at work: it stays at work, on the same operation or on
   none, and touches the disk in a way that keeps every file whole. *)
LEMMA DiskMove ==
    ASSUME SafeInv, NEW p \in Procs, NEW me \in ProcState,
           proc' = [proc EXCEPT ![p] = me], UNCHANGED <<server, lock>>,
           proc[p].pc \in Executing, me.pc \in Executing,
           me.view = proc[p].view, me.todo \subseteq proc[p].todo,
           TransferReady(p)',
           local' \in [Saves -> Bytes], bak' \in [Saves -> Bytes],
           part' \in [Saves -> Bytes], held' \in [Saves -> SUBSET Content],
           fresh' \subseteq Saves, events' \in 0..MaxEvents, NoTornSave'
    PROVE  SafeInv'
<1>1. /\ proc' \in [Procs -> ProcState]
      /\ \A q \in Procs \ {p} : proc'[q] = proc[q]
      /\ proc'[p] = me
      /\ LockHeld'
  BY OwnMove
<1>2. ServerGrows
  BY SameServerGrows
<1>3. lock = p
  BY DEF SafeInv, LockHeld
<1>4. PlanExists(p)'
  BY <1>1 DEF SafeInv, PlanExists
<1>5. TypeOK'
  BY <1>1 DEF SafeInv, TypeOK
<1> QED BY <1>1, <1>2, <1>3, <1>4, <1>5, OneMoves

(* Copying a whole file to .bak leaves a whole .bak. *)
LEMMA BackupStep == ASSUME SafeInv, NEW p \in Procs, Backup(p) PROVE SafeInv'
<1> DEFINE s == proc[p].cur.save
           me == [proc[p] EXCEPT !.pc = "part"]
<1>1. proc[p] \in ProcState /\ proc[p].pc = "backup" /\ proc' = [proc EXCEPT ![p] = me]
  BY DEF Backup, Goto, At, SafeInv, TypeOK
<1>2. proc[p].cur \in Op /\ proc[p].cur.row \in server[s].rows
      /\ proc[p].buf = proc[p].cur.row
  BY <1>1 DEF SafeInv, TransferReady, Fetching
<1>3. /\ me \in ProcState /\ me.pc = "part" /\ me.cur = proc[p].cur
      /\ me.buf = proc[p].buf /\ me.view = proc[p].view /\ me.todo = proc[p].todo
  BY <1>1 DEF ProcState, Labels
<1> HIDE DEF me
<1>4. proc'[p] = me
  BY <1>1 DEF SafeInv, TypeOK
<1>5. bak' = bak \/ bak' = [bak EXCEPT ![s] = local[s]]
  BY DEF Backup
<1>6. bak' \in [Saves -> Bytes] /\ NoTornSave'
  BY <1>5 DEF Backup, SafeInv, TypeOK, NoTornSave
<1>7. UNCHANGED <<server, local, part, lock, held>> /\ fresh' \subseteq Saves
      /\ events' \in 0..MaxEvents
  BY SpendType DEF Backup, SafeInv, TypeOK
<1>8. TransferReady(p)'
  BY <1>2, <1>3, <1>4, <1>7 DEF TransferReady, Sending, Fetching
<1>9. proc[p].pc \in Executing /\ me.pc \in Executing
  BY <1>1, <1>3 DEF Executing, Sending, Fetching, Labels
<1>10. local \in [Saves -> Bytes] /\ part \in [Saves -> Bytes]
       /\ held \in [Saves -> SUBSET Content]
  BY DEF SafeInv, TypeOK
<1> QED BY <1>1, <1>3, <1>6, <1>7, <1>8, <1>9, <1>10, DiskMove

(* The .part a process is about to rename holds the row it fetched. *)
LEMMA WritePartStep == ASSUME SafeInv, NEW p \in Procs, WritePart(p) PROVE SafeInv'
<1> DEFINE s == proc[p].cur.save
<1>1. /\ proc[p] \in ProcState /\ proc[p].pc = "part" /\ proc[p].cur \in Op
      /\ proc[p].cur.row \in server[s].rows /\ proc[p].buf = proc[p].cur.row
  BY DEF WritePart, At, SafeInv, TypeOK, TransferReady, Fetching
<1>2. UNCHANGED <<server, local, bak, lock, held, fresh>> /\ NoTornSave'
      /\ local \in [Saves -> Bytes] /\ bak \in [Saves -> Bytes]
      /\ part \in [Saves -> Bytes] /\ held \in [Saves -> SUBSET Content]
      /\ fresh \subseteq Saves
  BY DEF WritePart, SafeInv, TypeOK, NoTornSave
<1>3. CASE part' = [part EXCEPT ![s] = proc[p].buf] /\ Goto(p, "replace")
           /\ UNCHANGED events
  <2> DEFINE me == [proc[p] EXCEPT !.pc = "replace"]
  <2>1. proc' = [proc EXCEPT ![p] = me]
    BY <1>3 DEF Goto
  <2>2. /\ me \in ProcState /\ me.pc = "replace" /\ me.cur = proc[p].cur
        /\ me.buf = proc[p].buf /\ me.view = proc[p].view /\ me.todo = proc[p].todo
    BY <1>1 DEF ProcState, Labels
  <2> HIDE DEF me
  <2>3. proc'[p] = me
    BY <2>1 DEF SafeInv, TypeOK
  <2>4. part' \in [Saves -> Bytes] /\ part'[s] = proc[p].cur.row
    BY <1>1, <1>2, <1>3 DEF ProcState, Bytes, Op
  <2>5. TransferReady(p)'
    BY <1>1, <1>2, <2>2, <2>3, <2>4 DEF TransferReady, Sending, Fetching
  <2>6. proc[p].pc \in Executing /\ me.pc \in Executing
    BY <1>1, <2>2 DEF Executing, Sending, Fetching, Labels
  <2>7. events' \in 0..MaxEvents
    BY <1>3 DEF SafeInv, TypeOK
  <2> QED BY <1>2, <2>1, <2>2, <2>4, <2>5, <2>6, <2>7, DiskMove
<1>4. CASE Spend /\ part' = [part EXCEPT ![s] = None] /\ Advance(p)
  <2> DEFINE me == [proc[p] EXCEPT !.pc = "next", !.cur = NoOp, !.buf = None]
  <2>1. proc' = [proc EXCEPT ![p] = me]
    BY <1>4 DEF Advance
  <2>2. /\ me \in ProcState /\ me.pc = "next"
        /\ me.view = proc[p].view /\ me.todo = proc[p].todo
    BY <1>1 DEF ProcState, Labels, File
  <2> HIDE DEF me
  <2>3. proc'[p] = me
    BY <2>1 DEF SafeInv, TypeOK
  <2>4. part' \in [Saves -> Bytes] /\ events' \in 0..MaxEvents
    BY <1>2, <1>4, SpendType DEF Bytes, File, SafeInv
  <2>5. TransferReady(p)'
    BY <2>2, <2>3 DEF TransferReady, Sending, Fetching
  <2>6. proc[p].pc \in Executing /\ me.pc \in Executing
    BY <1>1, <2>2 DEF Executing, Sending, Fetching, Labels
  <2> QED BY <1>2, <2>1, <2>2, <2>4, <2>5, <2>6, DiskMove
<1> QED BY <1>3, <1>4 DEF WritePart

(* What is renamed into place is the row fetched, so a whole file. *)
LEMMA ReplaceStep == ASSUME SafeInv, NEW p \in Procs, Replace(p) PROVE SafeInv'
<1> DEFINE s == proc[p].cur.save
           gone == [proc[p] EXCEPT !.pc = "next", !.cur = NoOp, !.buf = None]
           landed == [proc[p] EXCEPT !.pc = "confirm"]
<1>1. /\ proc[p] \in ProcState /\ proc[p].pc = "replace" /\ proc[p].cur \in Op
      /\ proc[p].cur.row \in server[s].rows /\ part[s] = proc[p].cur.row
  BY DEF Replace, At, SafeInv, TypeOK, TransferReady, Fetching
<1>2. s \in Saves /\ part[s] \in Content
  BY <1>1 DEF Op, SafeInv, TypeOK, Slot
<1>3. part[s] # None
  BY <1>2, ConstantsAssumption
<1>4. /\ local' = [local EXCEPT ![s] = part[s]]
      /\ held' = [held EXCEPT ![s] = @ \cup ({part[s]} \cap Content)]
      /\ part' = [part EXCEPT ![s] = None]
      /\ UNCHANGED <<server, bak, lock, events, fresh>>
  BY <1>3 DEF Replace
<1>5. /\ local' \in [Saves -> Bytes] /\ bak' \in [Saves -> Bytes]
      /\ part' \in [Saves -> Bytes] /\ held' \in [Saves -> SUBSET Content]
      /\ fresh' \subseteq Saves /\ events' \in 0..MaxEvents
  BY <1>2, <1>4 DEF SafeInv, TypeOK, Bytes, File
<1>6. NoTornSave'
  BY <1>2, <1>4, ConstantsAssumption DEF SafeInv, TypeOK, NoTornSave
<1>7. PICK me \in {gone, landed} : proc' = [proc EXCEPT ![p] = me]
  BY <1>3 DEF Replace, Advance, Goto
<1>8. /\ me \in ProcState /\ me.pc \in {"next", "confirm"}
      /\ me.pc = "confirm" => me.cur = proc[p].cur
      /\ me.view = proc[p].view /\ me.todo = proc[p].todo
  <2>1. CASE me = gone
    BY <1>1, <2>1 DEF ProcState, Labels, File
  <2>2. CASE me = landed
    BY <1>1, <2>2 DEF ProcState, Labels
  <2> QED BY <2>1, <2>2
<1>9. proc'[p] = me
  BY <1>7 DEF SafeInv, TypeOK
<1>10. TransferReady(p)'
  BY <1>1, <1>4, <1>8, <1>9 DEF TransferReady, Sending, Fetching
<1>11. proc[p].pc \in Executing /\ me.pc \in Executing
  BY <1>1, <1>8 DEF Executing, Sending, Fetching, Labels
<1> QED BY <1>4, <1>5, <1>6, <1>7, <1>8, <1>10, <1>11, DiskMove

-----------------------------------------------------------------------------
(* Ends and failures. *)

(* Finishing, *)
LEMMA FinishStep == ASSUME SafeInv, NEW p \in Procs, Finish(p) PROVE SafeInv'
BY ExitStep DEF Finish, diskVars, SafeInv, TypeOK

(* giving up, *)
LEMMA AbortStep == ASSUME SafeInv, NEW p \in Procs, Abort(p) PROVE SafeInv'
BY ExitStep, SpendType DEF Abort, diskVars, SafeInv, TypeOK

(* and being ended by the alarm keep the invariant; *)
LEMMA TimeoutEndsCommandStep ==
    ASSUME SafeInv, NEW p \in Procs, TimeoutEndsCommand(p) PROVE SafeInv'
BY ExitStep, SpendType DEF TimeoutEndsCommand, Timeout, diskVars, SafeInv, TypeOK

(* a crash only tears the .part of the lock's holder; *)
LEMMA CrashStep == ASSUME SafeInv, NEW p \in Procs, Crash(p) PROVE SafeInv'
<1>1. UNCHANGED <<server, local, bak, held, fresh>> /\ Exit(p) /\ events' \in 0..MaxEvents
  BY SpendType DEF Crash, SafeInv
<1>2. CASE part' = part
  BY <1>1, <1>2, ExitStep DEF SafeInv, TypeOK
<1>3. CASE At(p, "part") /\ part' = [part EXCEPT ![proc[p].cur.save] = Torn]
  <2>1. lock = p
    BY <1>3 DEF At, SafeInv, LockHeld, Executing, Sending, Fetching, Labels
  <2>2. part' \in [Saves -> Bytes]
    BY <1>3 DEF SafeInv, TypeOK, Bytes
  <2> QED BY <1>1, <2>1, <2>2, ExitStep
<1> QED BY <1>2, <1>3 DEF Crash

(* an operation the alarm fails is dropped with its .part; *)
LEMMA TimeoutFailsOperationStep ==
    ASSUME SafeInv, NEW p \in Procs, TimeoutFailsOperation(p) PROVE SafeInv'
<1> DEFINE s == proc[p].cur.save
           me == [proc[p] EXCEPT !.pc = "next", !.cur = NoOp, !.buf = None,
                                 !.timed_out = TRUE]
<1>1. /\ proc[p] \in ProcState /\ proc' = [proc EXCEPT ![p] = me]
      /\ proc[p].pc \in Sending \cup Fetching
      /\ UNCHANGED <<lock, local, bak, held, fresh>>
  BY DEF TimeoutFailsOperation, SafeInv, TypeOK
<1>2. proc[p].pc \in Executing /\ lock = p
  BY <1>1 DEF Executing, Sending, Fetching, Labels, SafeInv, LockHeld
<1>3. ServerGrows
  <2>1. CASE server' = server
    BY <2>1, SameServerGrows
  <2>2. CASE server' # server
    <3>1. PICK slot \in ServerAfter(p) : server' = [server EXCEPT ![s] = slot]
      BY <2>2 DEF TimeoutFailsOperation
    <3> QED BY <2>2, <3>1, RequestGrows DEF TimeoutFailsOperation
  <2> QED BY <2>1, <2>2
<1>4. /\ me \in ProcState /\ me.pc = "next"
      /\ me.view = proc[p].view /\ me.todo = proc[p].todo
  BY <1>1 DEF ProcState, Labels, File
<1> HIDE DEF me
<1>5. /\ proc' \in [Procs -> ProcState]
      /\ \A q \in Procs \ {p} : proc'[q] = proc[q]
      /\ proc'[p] = me
      /\ LockHeld'
  BY <1>1, <1>2, <1>4, OwnMove DEF Executing, Sending, Fetching, Labels
<1>6. PlanExists(p)'
  BY <1>1, <1>3, <1>4, <1>5 DEF SafeInv, PlanExists, ServerGrows, GrowsTo, ProcState, Op
<1>7. TransferReady(p)'
  BY <1>4, <1>5 DEF TransferReady, Sending, Fetching
<1>8. part' \in [Saves -> Bytes] /\ events' \in 0..MaxEvents
  BY SpendType DEF TimeoutFailsOperation, Timeout, SafeInv, TypeOK, Bytes, File
<1>9. TypeOK' /\ NoTornSave'
  BY <1>1, <1>3, <1>5, <1>8 DEF SafeInv, TypeOK, NoTornSave, ServerGrows
<1> QED BY <1>2, <1>3, <1>5, <1>6, <1>7, <1>9, OneMoves

(* and one whose backup it cut short goes on. *)
LEMMA TimeoutInBackupStep ==
    ASSUME SafeInv, NEW p \in Procs, TimeoutInBackup(p) PROVE SafeInv'
<1> DEFINE s == proc[p].cur.save
           me == [proc[p] EXCEPT !.pc = "part", !.timed_out = TRUE]
<1>1. /\ proc[p] \in ProcState /\ proc[p].pc = "backup" /\ proc' = [proc EXCEPT ![p] = me]
      /\ UNCHANGED <<server, lock, local, bak, part, held>> /\ fresh' \subseteq fresh
  BY DEF TimeoutInBackup, At, SafeInv, TypeOK
<1>2. /\ me \in ProcState /\ me.pc = "part" /\ me.cur = proc[p].cur
      /\ me.buf = proc[p].buf /\ me.view = proc[p].view /\ me.todo = proc[p].todo
  BY <1>1 DEF ProcState, Labels
<1> HIDE DEF me
<1>3. proc'[p] = me
  BY <1>1 DEF SafeInv, TypeOK
<1>4. TransferReady(p)'
  BY <1>1, <1>2, <1>3 DEF SafeInv, TransferReady, Sending, Fetching
<1>5. proc[p].pc \in Executing /\ me.pc \in Executing
  BY <1>1, <1>2 DEF Executing, Sending, Fetching, Labels
<1>6. events' \in 0..MaxEvents /\ fresh' \subseteq Saves
      /\ local' \in [Saves -> Bytes] /\ bak' \in [Saves -> Bytes]
      /\ part' \in [Saves -> Bytes] /\ held' \in [Saves -> SUBSET Content]
      /\ NoTornSave'
  BY <1>1, SpendType DEF TimeoutInBackup, Timeout, SafeInv, TypeOK, NoTornSave
<1> QED BY <1>1, <1>2, <1>4, <1>5, <1>6, DiskMove

-----------------------------------------------------------------------------
(* The emulator, the user and the other devices. *)

(* No process moves, no .part and no lock changes. *)
LEMMA OutsideMove ==
    ASSUME SafeInv, ServerGrows, UNCHANGED <<lock, proc, part>>, TypeOK', NoTornSave'
    PROVE  SafeInv'
<1>1. \A q \in Procs : PlanExists(q)' /\ TransferReady(q)'
  BY StaysReady
<1>2. HeadExists' /\ LockHeld'
  BY DEF SafeInv, HeadExists, LockHeld, ServerGrows, GrowsTo
<1> QED BY <1>1, <1>2 DEF SafeInv

(* The emulator writes whole files. *)
LEMMA PlayStep == ASSUME SafeInv, NEW s \in Saves, Play(s) PROVE SafeInv'
<1>1. ServerGrows /\ UNCHANGED <<lock, proc, part>>
  BY SameServerGrows DEF Play
<1>2. PICK c \in Content \ {local[s]} :
        /\ local' = [local EXCEPT ![s] = c]
        /\ held' = [held EXCEPT ![s] = @ \cup {c}]
  BY DEF Play
<1>3. TypeOK'
  BY <1>2, SpendType DEF Play, SafeInv, TypeOK, Bytes, File
<1>4. NoTornSave'
  BY <1>2, ConstantsAssumption DEF Play, SafeInv, TypeOK, NoTornSave
<1> QED BY <1>1, <1>3, <1>4, OutsideMove

(* Deleting a file, *)
LEMMA DeleteFileStep == ASSUME SafeInv, NEW s \in Saves, DeleteFile(s) PROVE SafeInv'
<1>1. ServerGrows /\ UNCHANGED <<lock, proc, part>>
  BY SameServerGrows DEF DeleteFile
<1>2. TypeOK'
  BY SpendType DEF DeleteFile, SafeInv, TypeOK, Bytes, File
<1>3. NoTornSave'
  BY ConstantsAssumption DEF DeleteFile, SafeInv, TypeOK, NoTornSave
<1> QED BY <1>1, <1>2, <1>3, OutsideMove

(* a change at the server that loses no row, *)
LEMMA ServerMove ==
    ASSUME SafeInv, ServerGrows, Spend, UNCHANGED <<lock, proc, diskVars>>
    PROVE  SafeInv'
<1>1. TypeOK' /\ NoTornSave' /\ part' = part
  BY SpendType DEF SafeInv, TypeOK, NoTornSave, ServerGrows, diskVars
<1> QED BY <1>1, OutsideMove

(* untracking a row *)
LEMMA UntrackStep == ASSUME SafeInv, NEW s \in Saves, Untrack(s) PROVE SafeInv'
<1>1. server[s] \in Slot /\ server[s].rows \subseteq Content
  BY DEF SafeInv, TypeOK, Slot
<1>2. PICK c \in server[s].rows : server' = [server EXCEPT ![s] = UntrackSave(server[s], c)]
  BY DEF Untrack
<1>3. ServerGrows
  BY <1>1, <1>2, UntrackGrows, OneSlotGrows
<1> QED BY <1>3, ServerMove DEF Untrack

(* and another device's upload keep the invariant. *)
LEMMA OtherDeviceStep == ASSUME SafeInv, NEW s \in Saves, OtherDevice(s) PROVE SafeInv'
<1>1. server[s] \in Slot
  BY DEF SafeInv, TypeOK
<1>2. PICK c \in Content : server' = [server EXCEPT ![s] = OtherDevicePosts(server[s], c)]
  BY DEF OtherDevice
<1>3. ServerGrows
  BY <1>1, <1>2, OtherGrows, OneSlotGrows
<1> QED BY <1>3, ServerMove DEF OtherDevice

-----------------------------------------------------------------------------
(* The invariant. *)

(* The program starts in it. *)
LEMMA InitSafe == Init => SafeInv
<1> SUFFICES ASSUME Init PROVE SafeInv
  OBVIOUS
<1>1. IdleProc \in ProcState
  BY DEF IdleProc, ProcState, NoSurvey, NoView, NoOp, ListingView, File, Labels
<1>2. EmptySlot \in Slot
  BY DEF EmptySlot, Slot, SyncState
<1>3. TypeOK /\ NoTornSave
  BY <1>1, <1>2, ConstantsAssumption DEF Init, TypeOK, NoTornSave, Bytes, File
<1>4. LockHeld
  BY ConstantsAssumption DEF Init, LockHeld, IdleProc, Executing, Sending, Fetching
<1>5. HeadExists
  BY DEF Init, HeadExists, EmptySlot
<1>6. \A p \in Procs : PlanExists(p) /\ TransferReady(p)
  BY DEF Init, PlanExists, TransferReady, IdleProc, NoView, Sending, Fetching
<1> QED BY <1>3, <1>4, <1>5, <1>6 DEF SafeInv

(* Doing nothing keeps it. *)
LEMMA StutterStep == SafeInv /\ UNCHANGED vars => SafeInv'
<1> SUFFICES ASSUME SafeInv, UNCHANGED vars PROVE SafeInv'
  OBVIOUS
<1>1. ServerGrows /\ TypeOK' /\ NoTornSave'
  BY SameServerGrows DEF vars, SafeInv, TypeOK, NoTornSave
<1> QED BY <1>1, OutsideMove DEF vars

(* Every step keeps it. *)
LEMMA NextSafe == SafeInv /\ [Next]_vars => SafeInv'
<1> SUFFICES ASSUME SafeInv, [Next]_vars PROVE SafeInv'
  OBVIOUS
<1>1. ASSUME NEW p \in Procs, NEW kind \in AllKinds, NEW scope \in SUBSET Saves,
             Start(p, kind, scope)
      PROVE  SafeInv'
  BY <1>1, StartStep
<1>2. ASSUME NEW p \in Procs, Step(p) PROVE SafeInv'
  BY <1>2, SurveyStep, NegotiateStep, TryLockStep, BeginUploadStep, BeginDownloadStep,
     SkipConflictStep, LookUpStep, LinkStep, PostStep, GetStep, BackupStep,
     WritePartStep, ReplaceStep, ConfirmStep, FinishStep DEF Step
<1>3. ASSUME NEW p \in Procs, Failure(p) PROVE SafeInv'
  BY <1>3, AbortStep, CrashStep, TimeoutEndsCommandStep, TimeoutFailsOperationStep,
     TimeoutInBackupStep, TimeoutRetriedStep, TimeoutInScanStep DEF Failure
<1>4. ASSUME NEW s \in Saves, Environment(s) PROVE SafeInv'
  BY <1>4, PlayStep, DeleteFileStep, UntrackStep, OtherDeviceStep DEF Environment
<1>5. CASE UNCHANGED vars
  BY <1>5, StutterStep
<1> QED BY <1>1, <1>2, <1>3, <1>4, <1>5 DEF Next

(* Types, whole files, one holder of the lock, plans that name rows of the
   server, and operations that have what their next step needs. *)
THEOREM Safe == Spec => []SafeInv
BY InitSafe, NextSafe, PTL DEF Spec

(* Types. *)
THEOREM Typed == Spec => []TypeOK
<1>1. SafeInv => TypeOK
  BY DEF SafeInv
<1> QED BY <1>1, Safe, PTL

(* Save files and their backups are never torn. *)
THEOREM NeverTorn == Spec => []NoTornSave
<1>1. SafeInv => NoTornSave
  BY DEF SafeInv
<1> QED BY <1>1, Safe, PTL

(* A download lands the bytes it fetched. *)
THEOREM Lands == Spec => []LandsWhatItFetched
<1>1. SafeInv => LandsWhatItFetched
  BY DEF SafeInv, TransferReady, LandsWhatItFetched, At
<1> QED BY <1>1, Safe, PTL

=============================================================================
