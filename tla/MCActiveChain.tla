--------------------------- MODULE MCActiveChain ----------------------------
(***************************************************************************)
(* A block tree for the window.                                            *)
(*                                                                         *)
(*     g - a1 - a2 - a3 - a4           e3 has no parent link: below it the *)
(*      \- b1 - b2     e3 - e4         window keeps what it had.           *)
(***************************************************************************)
EXTENDS ActiveChain

MCBlock == {"g", "a1", "a2", "a3", "a4", "b1", "b2", "e3", "e4"}
ParentOf == [b \in MCBlock |->
    CASE b = "a1" -> "g"  [] b = "a2" -> "a1" [] b = "a3" -> "a2"
      [] b = "a4" -> "a3" [] b = "b1" -> "g"  [] b = "b2" -> "b1"
      [] b = "e4" -> "e3" [] OTHER -> "none"]
MCHeightOf == [b \in MCBlock |->
    CASE b = "g" -> 0 [] b \in {"a1", "b1"} -> 1 [] b \in {"a2", "b2"} -> 2
      [] b \in {"a3", "e3"} -> 3 [] OTHER -> 4]
MCAnc[b \in MCBlock] ==
    [h \in 0 .. MCHeightOf[b] |->
        IF h = MCHeightOf[b] THEN b
        ELSE IF ParentOf[b] = "none" THEN "none" ELSE MCAnc[ParentOf[b]][h]]
=============================================================================
