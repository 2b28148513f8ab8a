---------------------------- MODULE PlaySessions ----------------------------
(***************************************************************************)
(* play_sessions.py: the marker a game's start leaves, the log of sessions *)
(* that ended (pending.jsonl), and what RomM got of it.           *)
(*                                                                         *)
(* A session is numbered in the order of starts; its number also stands    *)
(* for its start time.  An entry <<s, e>> of the log has the start time of *)
(* session s and was written by the game-end hook of session e.            *)
(***************************************************************************)
EXTENDS Naturals, FiniteSets

CONSTANTS
    Games,
    Sessions,   \* 1..n: bound on the sessions played
    NoMarker,
    Torn        \* a marker that is truncated and not yet written

ASSUME SessionsAssumption ==
    /\ IsFiniteSet(Sessions) /\ Sessions = 1..Cardinality(Sessions)
    /\ {NoMarker, Torn} \cap Sessions = {}

VARIABLES
    marker,     \* the marker of every game
    pending,    \* the log
    received,   \* entries RomM has recorded
    ended,      \* history: every entry ever logged
    twice,      \* history: entries RomM has recorded more than once
    kept,       \* history: entries read from a log that could not be removed
    lost        \* history: entries given up; see LogRemoved, Completed

sessionVars == <<marker, pending, received, ended, twice, kept, lost>>

Entries == Sessions \X Sessions

SessionsInit(marks) ==
    /\ marker = marks
    /\ pending = {} /\ received = {}
    /\ ended = {} /\ twice = {} /\ kept = {} /\ lost = {}

-----------------------------------------------------------------------------
(* Mutant: one marker for all games. *)
SetMarkerShared(g, v) ==
    /\ marker' = [h \in Games |-> v]
    /\ UNCHANGED <<pending, received, ended, twice, kept, lost>>

(* record_game_start: write_text truncates the marker and then writes it. *)
SetMarker(g, v) ==
    /\ marker' = [marker EXCEPT ![g] = v]
    /\ UNCHANGED <<pending, received, ended, twice, kept, lost>>

(* session_start_time: 0 without a marker that can be read. *)
SessionStart(g) == IF marker[g] \in Sessions THEN marker[g] ELSE 0

(* Mutant: the log is opened for writing. *)
LogOverwritten(entry) ==
    /\ pending' = {entry}
    /\ ended' = ended \cup {entry}
    /\ UNCHANGED <<marker, received, twice, kept, lost>>

(* record_game_end appends to the log. *)
LogSession(entry) ==
    /\ pending' = pending \cup {entry}
    /\ ended' = ended \cup {entry}
    /\ UNCHANGED <<marker, received, twice, kept, lost>>

(* consume_pending_sessions removes the log it has read, and with it what was
   logged since ... *)
LogRemoved(got) ==
    /\ pending' = {}
    /\ lost' = lost \cup (pending \ got)
    /\ UNCHANGED <<marker, received, ended, twice, kept>>

(* ... or fails to, and goes on as if it had. *)
LogStays(got) ==
    /\ kept' = kept \cup got
    /\ UNCHANGED <<marker, pending, received, ended, twice, lost>>

(* complete_sync_session: RomM records the sessions, or they are given up. *)
Completed(got, accepted) ==
    /\ received' = IF accepted THEN received \cup got ELSE received
    /\ twice' = IF accepted THEN twice \cup (received \cap got) ELSE twice
    /\ lost' = IF accepted THEN lost ELSE lost \cup got
    /\ UNCHANGED <<marker, pending, ended, kept>>

GiveUp(got) ==
    /\ lost' = lost \cup got
    /\ UNCHANGED <<marker, pending, received, ended, twice, kept>>
=============================================================================
