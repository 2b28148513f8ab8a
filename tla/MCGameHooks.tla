---------------------------- MODULE MCGameHooks ----------------------------
(* GameHooks on a small instance, for TLC: two sessions, of one game or of
   two, with a third that is over, and two directories. *)
EXTENDS GameHooks, TLC

CONSTANTS g1, g2, d1, d2

ThreeSessions == {1, 2, 3}

Play2(plays, owner1, owner2, onCard, mapped, negotiates, kinds, n) ==
    LET owner == (d1 :> owner1) @@ (d2 :> owner2) IN
    [plays |-> plays, over |-> 0, marks |-> [g \in Games |-> NoMarker], owner |-> owner,
     card |-> [d \in Dirs |-> IF d \in onCard THEN 0 ELSE NoDir],
     map |-> [d \in Dirs |-> IF d \in mapped THEN owner[d] ELSE NoGame],
     negotiates |-> negotiates, kinds |-> kinds, left |-> n]

AllScenes == {
    \* two games with a new directory each
    Play2(<<g1, g2>>, g1, g2, {}, {}, TRUE, {}, 0),
    \* two games with known directories, and something fails
    Play2(<<g1, g2>>, g1, g2, {d1, d2}, {d1, d2}, TRUE, {"fail"}, 1),
    \* one game twice, and a RomM without sync sessions
    Play2(<<g1, g1>>, g1, g2, {}, {}, FALSE, {}, 0),
    \* one game, another device's saves, failures and crashes
    Play2(<<g1>>, g1, g2, {d2}, {}, TRUE, {"far", "fail", "crash"}, 2),
    \* a game that was killed, and that is played again after another one
    [Play2(<<g1, g2, g1>>, g1, g2, {}, {}, FALSE, {"fail"}, 1) EXCEPT
        !.over = 1, !.marks = (g1 :> 1) @@ (g2 :> NoMarker)],
    \* a game with two directories
    Play2(<<g1>>, g1, g1, {d1}, {d1}, TRUE, {"far", "fail"}, 1)}
=============================================================================
