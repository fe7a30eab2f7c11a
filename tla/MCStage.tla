------------------------------ MODULE MCStage ------------------------------
(* Two stages share the lock and the store; two threads drive them while   *)
(* anchors and repairs move the cursors.                                   *)
EXTENDS Stage

CONSTANTS s1, s2, t1, t2, none

MCStages == {s1, s2}
MCThreads == {t1, t2}
=============================================================================
