------------------------------ MODULE MCIngest ------------------------------
(***************************************************************************)
(* Block trees for Ingest.                                                 *)
(*                                                                         *)
(*     g - a1 - a2            one chain; the proofs of a2 fail             *)
(*     g - d1 - d2            another; the header of d2 fails the          *)
(*                            contextual check                             *)
(*     g - b1                 two branches; the scripts of c1 fail         *)
(*      \- c1 - c2                                                         *)
(***************************************************************************)
EXTENDS Ingest

Linear == {"g", "a1", "a2"}
Unfit == {"g", "d1", "d2"}
Fork == {"g", "b1", "c1", "c2"}
MCBlock == Linear \cup Unfit \cup Fork
AllTrees == {Linear, Unfit, Fork}
OnlyLinear == {Linear}

ParentOf == [b \in MCBlock |->
    CASE b \in {"a1", "b1", "c1", "d1"} -> "g"
      [] b = "a2" -> "a1" [] b = "c2" -> "c1" [] b = "d2" -> "d1"
      [] OTHER -> "none"]
MCHeightOf[b \in MCBlock] == IF b = "g" THEN 0 ELSE MCHeightOf[ParentOf[b]] + 1
MCChain[b \in MCBlock] ==
    [h \in 0 .. MCHeightOf[b] |->
        IF h = MCHeightOf[b] THEN b ELSE MCChain[ParentOf[b]][h]]

BadBlocks == [s \in Stages |->
    CASE s = "header_admit" -> {"d2"}
      [] s = "script_validate" -> {"c1"}
      [] s = "proof_validate" -> {"a2"}
      [] OTHER -> {}]

(* One caller alone on one chain, with kicks, probes and faults; the same  *)
(* caller with a ticking supervisor; two callers on two branches.          *)
MCDeployments == {{"t1"}, {"t1", "header_admit"}, {"t1", "t2"}}
OneCaller == {{"t1"}}
MCInit ==
    /\ IngestInit
    /\ (headers = Fork) <=> ("t2" \in actors)
    /\ headers = Unfit => actors = {"t1"}
Probing == Len(inbox') > Len(inbox) /\ inbox'[Len(inbox')].hinted
Kicking == \E t \in Callers : call'[t].pc = "kick"
MCNext ==
    /\ IngestNext
    /\ index' # index /\ holder # Nobody => <<inbox', ring'>> # <<inbox, ring>>
    /\ Probing => Len(inbox') = 1
    /\ headers # Linear \/ actors # {"t1"} =>
          ~ Probing /\ ~ Kicking /\ faults' = faults
MCSpec == MCInit /\ [][MCNext]_ivars /\ IngestFairness
=============================================================================
