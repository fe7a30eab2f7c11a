---------------------------- MODULE MCUtxoApply -----------------------------
(***************************************************************************)
(* Block trees for UtxoApply.                                              *)
(*                                                                         *)
(*     g - a1 - a2 - a3 - a4                                               *)
(*      \    \         \- d4 - d5                                          *)
(*       \    \- b2 - b3     i2: like a2, but spends an output of its own  *)
(*        c1 - c2 - c3 - c4                                                *)
(*                                                                         *)
(* With FinalityDepth = 2 the reorgs a2 -> b3 and b3 -> a4 are allowed and *)
(* a reorg from a3 or b3 to c4 is not.  a2 and b2 spend the same coin; a4  *)
(* repeats the nullifier of a2, which b3 also carries.                     *)
(***************************************************************************)
EXTENDS UtxoApply

LinearTree == {"g", "a1", "a2", "a3", "a4"}
ForkTree == LinearTree \cup {"b2", "b3", "c1", "c2", "c3", "c4"}
SeedTree == LinearTree \cup {"d4", "d5"}
LiveTipTree == {"g", "a1", "a2", "b2", "b3"}
IntraTree == {"g", "a1", "i2", "b2", "b3"}
MCBlock == ForkTree \cup SeedTree \cup IntraTree

ParentOf == [b \in MCBlock |->
    CASE b = "a1" -> "g"  [] b = "a2" -> "a1" [] b = "a3" -> "a2"
      [] b = "a4" -> "a3" [] b = "b2" -> "a1" [] b = "b3" -> "b2"
      [] b = "c1" -> "g"  [] b = "c2" -> "c1" [] b = "c3" -> "c2"
      [] b = "c4" -> "c3" [] b = "d4" -> "a3" [] b = "d5" -> "d4"
      [] b = "i2" -> "a1" [] OTHER -> "none"]

MCHeightOf[b \in MCBlock] == IF b = "g" THEN 0 ELSE MCHeightOf[ParentOf[b]] + 1
MCChain[b \in MCBlock] ==
    [h \in 0 .. MCHeightOf[b] |->
        IF h = MCHeightOf[b] THEN b ELSE MCChain[ParentOf[b]][h]]

Coinbase(b) == [id |-> b, cb |-> TRUE, ins |-> <<>>, outs |-> <<1>>,
                shin |-> 0, shout |-> 0]
Pay(id, from) == [id |-> id, cb |-> FALSE, ins |-> <<<<from, 1>>>>,
                  outs |-> <<1>>, shin |-> 0, shout |-> 0]
Payments ==
    [b \in MCBlock |->
        CASE b = "a2" -> <<Pay("x", "g")>>
          [] b = "b2" -> <<Pay("y", "g")>>
          [] b = "b3" -> <<Pay("z", "a1")>>
          [] b = "a3" -> <<Pay("u", "x"), Pay("v", "a1")>>
          [] b = "i2" -> <<Pay("x", "g"), Pay("w", "x")>>
          [] b = "d4" -> <<Pay("w", "u")>>
          [] b = "a4" -> <<Pay("t", "u"), Pay("r", "a2")>>
          [] b = "c2" -> <<Pay("x", "g")>>
          [] OTHER -> <<>>]
MCTxs == [b \in MCBlock |-> <<Coinbase(b)>> \o Payments[b]]

MCDirect[b \in MCBlock] ==
    LET before == IF b = "g" THEN NoCoins ELSE MCDirect[ParentOf[b]] IN
    apply_coins_kv(before, AddedOf(MCTxs[b], MCHeightOf[b]),
                   SpentOf(MCTxs[b], MCHeightOf[b], before))

MCNullifiersOf == [b \in MCBlock |-> IF b \in {"a2", "b3", "a4"} THEN {"n"} ELSE {}]
NoNullifiers == [b \in MCBlock |-> {}]
=============================================================================
