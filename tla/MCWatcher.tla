----------------------------- MODULE MCWatcher -----------------------------
(* Watcher on a small instance, for TLC. *)
EXTENDS Watcher

CONSTANTS t1, t2, t3

TwoThreads == {t1, t2}
ThreeThreads == {t1, t2, t3}
=============================================================================
