----------------------------- MODULE MCPipeline -----------------------------
(***************************************************************************)
(* Block trees for Pipeline.                                               *)
(*                                                                         *)
(*     g - a1 - a2 - a3       one chain; the header of a1 lacks its        *)
(*                            solution at first, the scripts of a3 fail    *)
(*     g - b1                 two branches; the scripts of c1 fail         *)
(*      \- c1 - c2                                                         *)
(***************************************************************************)
EXTENDS Pipeline

Linear == {"g", "a1", "a2", "a3"}
Fork == {"g", "b1", "c1", "c2"}
MCBlock == Linear \cup Fork
LinearAndFork == {Linear, Fork}
OnlyFork == {Fork}
OnlyLinear == {Linear}

ParentOf == [b \in MCBlock |->
    CASE b \in {"a1", "b1", "c1"} -> "g"
      [] b = "a2" -> "a1" [] b = "a3" -> "a2"
      [] b = "c2" -> "c1" [] OTHER -> "none"]
MCHeightOf[b \in MCBlock] == IF b = "g" THEN 0 ELSE MCHeightOf[ParentOf[b]] + 1
MCChain[b \in MCBlock] ==
    [h \in 0 .. MCHeightOf[b] |->
        IF h = MCHeightOf[b] THEN b ELSE MCChain[ParentOf[b]][h]]

NoneBad == [s \in Stages |-> {}]
BadScripts == [NoneBad EXCEPT !["script_validate"] = {"a3", "c1"}]
=============================================================================
