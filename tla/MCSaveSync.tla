----------------------------- MODULE MCSaveSync -----------------------------
(* SaveSync on small instances, for TLC. *)
EXTENDS SaveSync, TLC

CONSTANTS p1, p2, s1, s2, c1, c2, c3

OneProc == {p1}
TwoProcs == {p1, p2}
OneSave == {s1}
TwoSaves == {s1, s2}
TwoContents == {c1, c2}
ThreeContents == {c1, c2, c3}

Symmetry ==
    Permutations(Procs) \cup Permutations(Saves) \cup Permutations(Content)
=============================================================================
