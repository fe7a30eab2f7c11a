--------------------------- MODULE MCProjections ---------------------------
(* Two transactions that spend the same output, one header in two states.   *)
(* The block index projection also meets an event it skips.                 *)
EXTENDS Projections, TLC

CONSTANTS a1, r1, a2, h1, h2, t1, t2, hash, o1

MCPayloadLen == [e \in Event |-> IF e = a1 THEN 2 ELSE 1]
MCAdmit == (t1 :> a1) @@ (t2 :> a2)
MCRemove == (t1 :> r1)
MCHeaderOf == (h1 :> hash) @@ (h2 :> hash)
MCInputs == (t1 :> {o1}) @@ (t2 :> {o1})

Emitted == IF who = "mempool" THEN {a1, a2, r1} ELSE {h1, h2, a2}

\* Every step is a step of Next
MCNext == Boot \/ Shutdown \/ Die \/ Emit(Emitted) \/ MpStep \/ BiStep

\* Both kinds of crash in one run only concern the log: one projection is enough
MCInit == Init /\ (who = "block_index" => OneKind)

MCSpec == MCInit /\ [][MCNext]_vars
=============================================================================
