--------------------------- MODULE MCWindowDrive ----------------------------
(***************************************************************************)
(* Two branches of different length and an unlinked block for the drivers  *)
(* of the window.                                                          *)
(*                                                                         *)
(*     g - a1 - a2 - a3        e3 has no parent link                       *)
(*      \- b1 - b2                                                         *)
(***************************************************************************)
EXTENDS WindowDrive

MCBlock == {"g", "a1", "a2", "a3", "b1", "b2", "e3"}
ParentOf == [b \in MCBlock |->
    CASE b = "a1" -> "g"  [] b = "a2" -> "a1" [] b = "a3" -> "a2"
      [] b = "b1" -> "g"  [] b = "b2" -> "b1" [] OTHER -> "none"]
MCHeightOf == [b \in MCBlock |->
    CASE b = "g" -> 0 [] b \in {"a1", "b1"} -> 1
      [] b \in {"a2", "b2"} -> 2 [] OTHER -> 3]
MCAnc[b \in MCBlock] ==
    [h \in 0 .. MCHeightOf[b] |->
        IF h = MCHeightOf[b] THEN b
        ELSE IF ParentOf[b] = "none" THEN "none" ELSE MCAnc[ParentOf[b]][h]]
=============================================================================
