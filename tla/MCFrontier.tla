----------------------------- MODULE MCFrontier -----------------------------
(***************************************************************************)
(* The trees of MCPipeline; on the one chain the proofs of a2 fail.        *)
(***************************************************************************)
EXTENDS Frontier

Linear == {"g", "a1", "a2"}
Fork == {"g", "b1", "c1", "c2"}
MCBlock == Linear \cup Fork
LinearAndFork == {Linear, Fork}

ParentOf == [b \in MCBlock |->
    CASE b \in {"a1", "b1", "c1"} -> "g"
      [] b = "a2" -> "a1"
      [] b = "c2" -> "c1" [] OTHER -> "none"]
MCHeightOf[b \in MCBlock] == IF b = "g" THEN 0 ELSE MCHeightOf[ParentOf[b]] + 1
MCChain[b \in MCBlock] ==
    [h \in 0 .. MCHeightOf[b] |->
        IF h = MCHeightOf[b] THEN b ELSE MCChain[ParentOf[b]][h]]

NoneBad == [s \in Stages |-> {}]
BadProofs == [NoneBad EXCEPT !["proof_validate"] = {"a2"},
                             !["script_validate"] = {"c1"}]

(* Faults happen on the one chain, reorgs on the other network.            *)
MCNext == FrontierNext /\ (OneChain \/ faults' = faults)
MCSpec == FrontierInit /\ [][MCNext]_fvars /\ FrontierFairness
=============================================================================
