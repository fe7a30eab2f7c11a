---------------------------- MODULE MCBlockDelta ----------------------------
(***************************************************************************)
(* Small blocks for BlockDelta: a coinbase and two transactions over two   *)
(* live coins, with every failure of the walk among them.  "a" is the txid *)
(* of the first, "b" of the second; the second may also carry the first's  *)
(* txid (a duplicate) or the txid of a live coin (a collision).            *)
(***************************************************************************)
EXTENDS BlockDelta

p == <<"p", 1>>     \* an old coin
q == <<"q", 1>>     \* a coinbase coin, mature or not

MCCoinSets ==
    {[op \in {p, q} |-> IF op = p
                        THEN [value |-> 2, height |-> 0, cb |-> FALSE]
                        ELSE [value |-> v, height |-> h, cb |-> TRUE]] :
        v \in {1, 4}, h \in {0, 1}}

Tx(id, cb, ins, outs, shin, shout) ==
    [id |-> id, cb |-> cb, ins |-> ins, outs |-> outs,
     shin |-> shin, shout |-> shout]

Coinbases == {Tx("c", TRUE, <<>>, outs, 0, 0) :
                 outs \in {<<1>>, <<2>>, <<-1, 1>>, <<4>>}}
Firsts == {Tx("a", FALSE, ins, outs, shin, shout) :
              outs \in {<<>>, <<1>>, <<1, 1>>},
              ins \in {<<>>, <<p>>, <<q, p>>},
              shin \in {0, 1, 4}, shout \in {0, 1}}
Seconds == {Tx(id, FALSE, ins, outs, 0, 0) :
              id \in {"a", "b", "p"},
              ins \in {<<q>>, <<<<"a", 1>>>>, <<<<"b", 1>>>>, <<<<"c", 1>>>>},
              outs \in {<<1>>, <<3>>, <<>>}}

DistinctInputs(b) == \A i, j \in DOMAIN b :
                        i # j => InsOf(b[i]) \cap InsOf(b[j]) = {}
MCBlocks == {b \in {<<c, a, s>> : c \in Coinbases, a \in Firsts, s \in Seconds}
                   \cup {<<a, s>> : a \in Firsts, s \in Seconds} \cup {<<>>} :
                DistinctInputs(b)}
=============================================================================
