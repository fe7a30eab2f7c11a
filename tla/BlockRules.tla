----------------------------- MODULE BlockRules -----------------------------
(***************************************************************************)
(* What a block does to the coins set, block by block: the rules that      *)
(* utxo_apply_compute_block_delta enforces, the delta it computes, and how *)
(* a delta is written to coins_kv and undone again.                        *)
(*                                                                         *)
(* A coins set is a function from outpoints to coins; an outpoint is a     *)
(* pair <<txid, index>>.  A transaction is a record [id, cb, ins, outs,    *)
(* shin, shout]: cb marks the coinbase, ins is a sequence of outpoints,    *)
(* outs a sequence of values (-1 is a null output), shin what the shielded *)
(* pools pay in and shout what they take out.  Scripts are left out: they  *)
(* travel with the coin and no rule here reads them.                       *)
(***************************************************************************)
EXTENDS Integers, Sequences, Functions, FiniteSetsExt

CONSTANTS MaxMoney,     \* MAX_MONEY_ZAT
          Subsidy,      \* get_block_subsidy, the same at every height
          Maturity      \* COINBASE_MATURITY

ASSUME RulesAssumption ==
    MaxMoney \in Nat /\ Subsidy \in Nat /\ Maturity \in Nat

NoCoins == [op \in {} |-> 0]
MoneyRange(v) == v \in 0 .. MaxMoney
tx_out_is_null(v) == v = -1

SumSeq(s) == MapThenSumSet(LAMBDA i : s[i], DOMAIN s)
SumValues(c) == MapThenSumSet(LAMBDA op : c[op].value, DOMAIN c)

-----------------------------------------------------------------------------
(* Transactions.                                                           *)
OutsOf(t) == {<<t.id, n>> : n \in {m \in DOMAIN t.outs :
                                       ~ tx_out_is_null(t.outs[m])}}
InsOf(t) == IF t.cb THEN {} ELSE Range(t.ins)

(* transaction_get_value_out and transaction_get_shielded_value_in: -1     *)
(* when a term or a partial sum leaves the money range.                    *)
transaction_get_value_out(t) ==
    IF /\ \A n \in DOMAIN t.outs : MoneyRange(t.outs[n])
       /\ MoneyRange(t.shout)
       /\ MoneyRange(SumSeq(t.outs) + t.shout)
    THEN SumSeq(t.outs) + t.shout ELSE -1
transaction_get_shielded_value_in(t) ==
    IF MoneyRange(t.shin) THEN t.shin ELSE -1

-----------------------------------------------------------------------------
(* Blocks: what b creates at height h and what it consumes from c.         *)
TxOf(b, op) == b[CHOOSE i \in DOMAIN b : op \in OutsOf(b[i])]

CreatedOps(b) == UNION {OutsOf(b[i]) : i \in DOMAIN b}
SpentOps(b) == UNION {InsOf(b[i]) : i \in DOMAIN b}

AddedOf(b, h) ==
    [op \in CreatedOps(b) |->
        [value |-> TxOf(b, op).outs[op[2]], height |-> h,
         cb |-> TxOf(b, op).cb]]

(* The pre-image kept for a spent coin: the block's own output if it made  *)
(* one, the live coin otherwise.                                           *)
Preimage(b, h, c, op) ==
    IF op \in CreatedOps(b) THEN AddedOf(b, h)[op] ELSE c[op]
SpentOf(b, h, c) == [op \in SpentOps(b) |-> Preimage(b, h, c, op)]

CreatedBefore(b, i) == UNION {OutsOf(b[j]) : j \in 1 .. i - 1}

InputsOk(b, h, c) ==
    \A i \in DOMAIN b : \A op \in InsOf(b[i]) :
        /\ op \in CreatedBefore(b, i) \cup DOMAIN c
        /\ LET coin == Preimage(b, h, c, op) IN
           MoneyRange(coin.value) /\ (coin.cb => h - coin.height >= Maturity)

OutputsOk(b, c) ==
    /\ \A i \in DOMAIN b : \A n \in DOMAIN b[i].outs :
          tx_out_is_null(b[i].outs[n]) \/ MoneyRange(b[i].outs[n])
    /\ \A i, j \in DOMAIN b : i # j => OutsOf(b[i]) \cap OutsOf(b[j]) = {}
    /\ CreatedOps(b) \cap DOMAIN c = {}

TxIn(b, h, c, i) == MapThenSumSet(LAMBDA op : Preimage(b, h, c, op).value,
                                  InsOf(b[i]))
                    + b[i].shin
TxFee(b, h, c, i) == TxIn(b, h, c, i) - transaction_get_value_out(b[i])
Fees(b, h, c) == MapThenSumSet(LAMBDA i : TxFee(b, h, c, i),
                               {i \in DOMAIN b : ~ b[i].cb})

MoneyOk(b, h, c) ==
    /\ \A i \in DOMAIN b : ~ b[i].cb =>
          /\ MoneyRange(b[i].shin)
          /\ transaction_get_value_out(b[i]) >= 0
          /\ TxIn(b, h, c, i) <= MaxMoney
          /\ TxFee(b, h, c, i) >= 0
    /\ Fees(b, h, c) <= MaxMoney
    /\ SumValues(AddedOf(b, h)) - SumValues(SpentOf(b, h, c))
           \in -MaxMoney .. MaxMoney

SubsidyOk(b, h, c) ==
    b # <<>> /\ b[1].cb =>
        transaction_get_value_out(b[1]) \in 0 .. Subsidy + Fees(b, h, c)

ValidBlock(b, h, c) ==
    InputsOk(b, h, c) /\ OutputsOk(b, c) /\ MoneyOk(b, h, c)
        /\ SubsidyOk(b, h, c)

-----------------------------------------------------------------------------
(* apply_coins_kv: every ADD (INSERT OR REPLACE), then every SPEND.        *)
apply_coins_kv(c, added, spent) ==
    [op \in (DOMAIN c \cup DOMAIN added) \ DOMAIN spent |->
        IF op \in DOMAIN added THEN added[op] ELSE c[op]]

(* utxo_apply_emit_inverse_delta: SPEND every created outpoint, then ADD   *)
(* every spent coin back with its pre-image.                               *)
emit_inverse_delta(c, addedOps, spent) ==
    [op \in (DOMAIN c \ addedOps) \cup DOMAIN spent |->
        IF op \in DOMAIN spent THEN spent[op] ELSE c[op]]
=============================================================================
