----------------------------- MODULE SaveVault ------------------------------
(***************************************************************************)
(* What a sync of saves promises, whatever processes, requests and files   *)
(* it takes: the save files of a device beside the copies that exist of    *)
(* them.  SaveSync implements it.                                          *)
(*                                                                         *)
(* A save file changes because the player's emulator writes it, because it *)
(* is deleted, or because a whole copy is fetched from the shelf (the      *)
(* server); and a fetch overwrites nothing that is neither in the spare    *)
(* (the .bak file) nor written after the spare was made.  The shelf never  *)
(* loses a copy.                                                           *)
(***************************************************************************)
CONSTANTS Saves, Content, None

VARIABLES
    disk,     \* the save file of each save
    spare,    \* its backup
    shelf,    \* the copies the server keeps
    touched   \* saves written since their last spare

vaultVars == <<disk, spare, shelf, touched>>

VaultInit ==
    /\ disk = [s \in Saves |-> None]
    /\ spare = [s \in Saves |-> None]
    /\ shelf = [s \in Saves |-> {}]
    /\ touched = {}

Write(s) ==
    /\ \E c \in Content : disk' = [disk EXCEPT ![s] = c]
    /\ touched' = touched \cup {s}
    /\ UNCHANGED <<spare, shelf>>

Delete(s) ==
    /\ disk' = [disk EXCEPT ![s] = None]
    /\ UNCHANGED <<spare, shelf, touched>>

(* Make the spare, if there is anything to spare. *)
Spare(s) ==
    /\ spare' = IF disk[s] = None THEN spare ELSE [spare EXCEPT ![s] = disk[s]]
    /\ touched' = touched \ {s}
    /\ UNCHANGED <<disk, shelf>>

(* The shelf gains this device's copy, or another device's. *)
Shelve(s) ==
    /\ \E c \in Content : shelf' = [shelf EXCEPT ![s] = @ \cup {c}]
    /\ UNCHANGED <<disk, spare, touched>>

Fetch(s) ==
    /\ disk[s] \in {None, spare[s]} \/ s \in touched
    /\ \E c \in shelf[s] : disk' = [disk EXCEPT ![s] = c]
    /\ UNCHANGED <<spare, shelf, touched>>

VaultNext ==
    \E s \in Saves : Write(s) \/ Delete(s) \/ Spare(s) \/ Shelve(s) \/ Fetch(s)

VaultSpec == VaultInit /\ [][VaultNext]_vaultVars
=============================================================================
