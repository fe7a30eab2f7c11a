----------------------------- MODULE BlockDelta -----------------------------
(***************************************************************************)
(* utxo_apply_compute_block_delta as the loop it is: one step per          *)
(* transaction, inputs before outputs before the money rule, the running   *)
(* spent / added arrays and sums carried from one to the next, and the     *)
(* first failure ending the walk.  BlockRules states the same rules for    *)
(* the block as a whole; the properties below compare the two.             *)
(*                                                                         *)
(* Inputs: a block is a sequence of transactions of which at most the      *)
(* first is a coinbase, and no outpoint is spent twice in it; both are     *)
(* checked on the block before it reaches this function.                   *)
(***************************************************************************)
EXTENDS BlockRules, SequencesExt

CONSTANTS Blocks,       \* the blocks the function may be called on
          CoinSets,     \* the coins sets the lookup may answer from
          BlockHeight   \* block_height

ASSUME BlockDeltaAssumption ==
    /\ BlockHeight \in Nat
    /\ \A b \in Blocks :
          /\ \A i \in DOMAIN b : b[i].cb => i = 1
          /\ \A i, j \in DOMAIN b : i # j => InsOf(b[i]) \cap InsOf(b[j]) = {}
          /\ \A i \in DOMAIN b : IsInjective(b[i].ins)

VARIABLES blk, coins,           \* the block; what the lookup answers from
          ti,                   \* the next transaction of blk->vtx
          spent, added,         \* out->spent and out->added, by outpoint
          total_value_delta, total_fees,
          status                \* "running", or out->status at the return

vars == <<blk, coins, ti, spent, added, total_value_delta, total_fees, status>>

Statuses == {"verified", "spend_unknown_utxo", "value_overflow",
             "premature_coinbase_spend", "utxo_collision", "internal_error"}

Init ==
    /\ blk \in Blocks
    /\ coins \in CoinSets
    /\ ti = 1
    /\ spent = NoCoins /\ added = NoCoins
    /\ total_value_delta = 0 /\ total_fees = 0
    /\ status = "running"

-----------------------------------------------------------------------------
(* One input: resolved among the outputs added so far, then by the lookup. *)
Prevout(op) == IF op \in DOMAIN added THEN added[op] ELSE coins[op]

InputStatus(op) ==
    IF op \notin DOMAIN added \cup DOMAIN coins THEN "spend_unknown_utxo"
    ELSE IF ~ MoneyRange(Prevout(op).value) THEN "value_overflow"
    ELSE IF Prevout(op).cb /\ BlockHeight - Prevout(op).height < Maturity
         THEN "premature_coinbase_spend"
    ELSE "verified"

(* Mutant of OutputStatus: a live coin at the same outpoint is overlooked. *)
OutputStatusNoCollision(t, n) ==
    IF tx_out_is_null(t.outs[n]) THEN "verified"
    ELSE IF ~ MoneyRange(t.outs[n]) THEN "value_overflow"
    ELSE IF <<t.id, n>> \in DOMAIN added THEN "utxo_collision"
    ELSE "verified"

(* One output: null ones are skipped, a duplicate in the block or a live   *)
(* coin at the same outpoint is a collision.                               *)
OutputStatus(t, n) ==
    IF tx_out_is_null(t.outs[n]) THEN "verified"
    ELSE IF ~ MoneyRange(t.outs[n]) THEN "value_overflow"
    ELSE IF <<t.id, n>> \in DOMAIN added \cup DOMAIN coins
         THEN "utxo_collision"
    ELSE "verified"

TransparentIn(t) == SumSeq([i \in DOMAIN t.ins |-> Prevout(t.ins[i]).value])
ValueIn(t) == TransparentIn(t) + transaction_get_shielded_value_in(t)
FeeOf(t) == ValueIn(t) - transaction_get_value_out(t)

(* Mutant of MoneyStatus: the transparent-only rule.                       *)
MoneyStatusTransparentOnly(t) ==
    IF SumSeq(t.outs) > TransparentIn(t) THEN "value_overflow" ELSE "verified"

(* The money rule: every sum in range, outputs covered by the inputs, the  *)
(* running fees in range.                                                  *)
MoneyStatus(t) ==
    IF \/ transaction_get_shielded_value_in(t) < 0
       \/ transaction_get_value_out(t) < 0
       \/ transaction_get_shielded_value_in(t) > MaxMoney - TransparentIn(t)
       \/ FeeOf(t) < 0
       \/ FeeOf(t) > MaxMoney - total_fees
    THEN "value_overflow" ELSE "verified"

(* What each check of transaction t would return, in the order of the code.*)
Checks(t) ==
    LET ins  == IF t.cb THEN <<>>
                ELSE [i \in DOMAIN t.ins |-> InputStatus(t.ins[i])]
        outs == [n \in DOMAIN t.outs |-> OutputStatus(t, n)]
    IN  ins \o outs

(* The money rule reads inputs that are known to resolve.                  *)
TxStatus(t) ==
    LET first == SelectInSeq(Checks(t), LAMBDA s : s # "verified") IN
    IF first # 0 THEN Checks(t)[first]
    ELSE IF t.cb THEN "verified" ELSE MoneyStatus(t)

AddedBy(t) == [op \in OutsOf(t) |-> [value |-> t.outs[op[2]],
                                     height |-> BlockHeight, cb |-> t.cb]]
SpentBy(t) == [op \in InsOf(t) |-> Prevout(op)]
Extend(f, g) == [op \in DOMAIN f \cup DOMAIN g |->
                    IF op \in DOMAIN g THEN g[op] ELSE f[op]]

-----------------------------------------------------------------------------
(* Mutant of TxPasses: the whole input of a transaction is taken for fees. *)
TxPassesInputAsFee(t) ==
    /\ spent' = Extend(spent, SpentBy(t))
    /\ added' = Extend(added, AddedBy(t))
    /\ total_value_delta' = total_value_delta
           + SumValues(AddedBy(t)) - SumValues(SpentBy(t))
    /\ total_fees' = total_fees + (IF t.cb THEN 0 ELSE ValueIn(t))
    /\ ti' = ti + 1
    /\ UNCHANGED status

TxPasses(t) ==
    /\ spent' = Extend(spent, SpentBy(t))
    /\ added' = Extend(added, AddedBy(t))
    /\ total_value_delta' = total_value_delta
           + SumValues(AddedBy(t)) - SumValues(SpentBy(t))
    /\ total_fees' = total_fees + (IF t.cb THEN 0 ELSE FeeOf(t))
    /\ ti' = ti + 1
    /\ UNCHANGED status

(* delta_fail and free_delta: the arrays are dropped with the verdict.     *)
Fail(s) ==
    /\ status' = s
    /\ spent' = NoCoins /\ added' = NoCoins
    /\ UNCHANGED <<ti, total_value_delta, total_fees>>

ProcessTx ==
    /\ status = "running"
    /\ ti <= Len(blk)
    /\ LET t == blk[ti] IN
       IF TxStatus(t) = "verified" THEN TxPasses(t) ELSE Fail(TxStatus(t))
    /\ UNCHANGED <<blk, coins>>

(* A lookup that itself fails, or memory that runs out, ends the walk.     *)
InternalError ==
    /\ status = "running"
    /\ Fail("internal_error")
    /\ UNCHANGED <<blk, coins>>

CoinbaseOk ==
    blk # <<>> /\ blk[1].cb =>
        transaction_get_value_out(blk[1]) \in 0 .. Subsidy + total_fees

Finish ==
    /\ status = "running"
    /\ ti > Len(blk)
    /\ IF total_value_delta \in -MaxMoney .. MaxMoney /\ CoinbaseOk
       THEN /\ status' = "verified"
            /\ UNCHANGED <<ti, spent, added, total_value_delta, total_fees>>
       ELSE Fail("value_overflow")
    /\ UNCHANGED <<blk, coins>>

Next == ProcessTx \/ InternalError \/ Finish
Spec == Init /\ [][Next]_vars

-----------------------------------------------------------------------------
(* The running state has its shape: sums and arrays of the walk so far.    *)
TypeOK ==
    /\ ti \in 1 .. Len(blk) + 1
    /\ DOMAIN spent \subseteq SpentOps(blk)
    /\ DOMAIN added \subseteq CreatedOps(blk)
    /\ total_value_delta \in Int
    /\ total_fees \in 0 .. MaxMoney
    /\ status \in Statuses \cup {"running"}

(* The walk accepts exactly the blocks the block-level rules accept, and   *)
(* the arrays it hands to apply_coins_kv and utxo_apply_delta_persist are  *)
(* the block's created and spent coins: the early returns and the order of *)
(* the transactions change nothing else.                                   *)
MatchesReference ==
    /\ status = "verified" =>
          /\ ValidBlock(blk, BlockHeight, coins)
          /\ added = AddedOf(blk, BlockHeight)
          /\ spent = SpentOf(blk, BlockHeight, coins)
    /\ status \in Statuses \ {"verified", "internal_error"} =>
          ~ ValidBlock(blk, BlockHeight, coins)

(* No inflation ("the ONLY no-inflation guard on the reducer path"): what  *)
(* an accepted block creates, in coins and into the shielded pools, is at  *)
(* most what it consumes plus the subsidy.                                 *)
NoInflation ==
    LET Pool(f(_)) == MapThenSumSet(LAMBDA i : f(blk[i]), DOMAIN blk) IN
    status = "verified" /\ blk # <<>> =>
        SumValues(added) + Pool(LAMBDA t : t.shout)
            <= SumValues(spent) + Pool(LAMBDA t : IF t.cb THEN 0 ELSE t.shin)
               + (IF blk[1].cb THEN Subsidy ELSE 0)

(* Applying an accepted delta and then its inverse gives the coins back,   *)
(* provided the block spends none of its own outputs.                      *)
InverseRestores ==
    status = "verified" /\ SpentOps(blk) \cap CreatedOps(blk) = {} =>
        emit_inverse_delta(apply_coins_kv(coins, added, spent),
                           DOMAIN added, spent) = coins
=============================================================================
