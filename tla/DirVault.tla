------------------------------ MODULE DirVault ------------------------------
(***************************************************************************)
(* What the syncs of directory saves promise, whatever processes, archives *)
(* and steps they take: the directories of a device beside the one spare   *)
(* kept of each.  GameHooks implements it.                                 *)
(*                                                                         *)
(* The game that runs writes into its directories.  Otherwise a directory  *)
(* leaves its place only to become the spare, a version is brought only    *)
(* to a place that is empty, and a spare is thrown away only while its     *)
(* directory is in place.                                                  *)
(***************************************************************************)
CONSTANTS
    Dirs, Sessions,
    Versions,  \* whole contents of a directory
    NoDir      \* no directory

VARIABLES
    dirs,     \* what is in the place of each directory
    spares,   \* its .bak
    session   \* the play session that runs, 0 for none

vaultVars == <<dirs, spares, session>>

VaultInit ==
    /\ dirs \in [Dirs -> Versions \cup {NoDir}]
    /\ spares = [d \in Dirs |-> NoDir]
    /\ session = 0

Begin ==
    /\ session = 0 /\ session' \in Sessions
    /\ UNCHANGED <<dirs, spares>>

End ==
    /\ session # 0 /\ session' = 0
    /\ UNCHANGED <<dirs, spares>>

Write(d) ==
    /\ session # 0
    /\ dirs' = [dirs EXCEPT ![d] = session]
    /\ UNCHANGED <<spares, session>>

Discard(d) ==
    /\ dirs[d] # NoDir
    /\ spares' = [spares EXCEPT ![d] = NoDir]
    /\ UNCHANGED <<dirs, session>>

Spare(d) ==
    /\ dirs[d] # NoDir
    /\ spares' = [spares EXCEPT ![d] = dirs[d]]
    /\ dirs' = [dirs EXCEPT ![d] = NoDir]
    /\ UNCHANGED session

Bring(d) ==
    /\ dirs[d] = NoDir
    /\ \E v \in Versions : dirs' = [dirs EXCEPT ![d] = v]
    /\ UNCHANGED <<spares, session>>

VaultNext ==
    Begin \/ End \/ \E d \in Dirs : Write(d) \/ Discard(d) \/ Spare(d) \/ Bring(d)

VaultSpec == VaultInit /\ [][VaultNext]_vaultVars
=============================================================================
