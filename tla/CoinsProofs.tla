---------------------------- MODULE CoinsProofs -----------------------------
(***************************************************************************)
(* The coins set is always the one a direct build of the applied branch    *)
(* would give, and no nullifier is applied twice, for every block tree.    *)
(***************************************************************************)
EXTENDS UtxoApplyProofs

-----------------------------------------------------------------------------
(* Nullifiers.  Every applied block's nullifiers are stored, so the check  *)
(* of step_apply sees all of them; what outlives an unwind only adds to    *)
(* the set.                                                                *)
Recorded(d) ==
    /\ \A h \in DOMAIN d.delta :
          NullifiersOf[d.delta[h].branch] \subseteq nullifiers
    /\ \A h, k \in DOMAIN d.delta : h # k =>
          NullifiersOf[d.delta[h].branch]
              \cap NullifiersOf[d.delta[k].branch] = {}

NullifierInv == Frame /\ Recorded(db) /\ (pc = "applied" => Recorded(tx))

LEMMA NullifierInit == Init => NullifierInv
<1> SUFFICES ASSUME Init PROVE NullifierInv
  OBVIOUS
<1>1. DOMAIN db.delta = {} /\ pc = "idle"
  BY SMTT(30) DEF Init, NoCoins
<1> QED BY <1>1, FrameInit DEF NullifierInv, Recorded

LEMMA NullifierStep == NullifierInv /\ [Next]_vars => NullifierInv'
<1> SUFFICES ASSUME NullifierInv, [Next]_vars
             PROVE  Recorded(db)' /\ (pc' = "applied" => Recorded(tx)')
  BY FrameStep DEF NullifierInv
<1> DEFINE Rest == Recorded(db)' /\ (pc' = "applied" => Recorded(tx)')
<1>0. /\ Database(db) /\ Database(tx) /\ pc \in Steps
      /\ pc = "unwinding" => tx.delta = db.delta
  BY DEF NullifierInv, Frame, TypeOK, OpenTransaction
<1>1. ASSUME db'.delta = db.delta, nullifiers' = nullifiers,
             pc' = "applied" => pc = "applied" /\ tx'.delta = tx.delta
      PROVE  Rest
  BY <1>1 DEF NullifierInv, Recorded
<1>2. ASSUME NEW n, db'.delta = RowsBelow(db.delta, n),
             nullifiers' = nullifiers, pc' # "applied"
      PROVE  Rest
  BY <1>2 DEF NullifierInv, Recorded, RowsBelow
<1>3. ASSUME CommitUnwind PROVE Rest
  <2>1. db'.delta = RowsBelow(db.delta, fork + 1)
    BY <1>0, <1>3 DEF CommitUnwind, Database
  <2> QED BY <1>2, <1>3, <2>1 DEF CommitUnwind
<1>4. ASSUME PoisonRewind PROVE Rest
  <2>1. db'.delta = RowsBelow(db.delta, published + 1) /\ pc = "idle"
    BY <1>0, <1>4 DEF PoisonRewind, Database
  <2> QED BY <1>2, <1>4, <2>1 DEF PoisonRewind
<1>5. ASSUME ApplyBlock PROVE Rest
  <2> DEFINE b == NextBlock
             d == tx'.delta
  <2>1. /\ DOMAIN d = DOMAIN db.delta \cup {db.cursor}
        /\ d[db.cursor].branch = b
        /\ \A h \in DOMAIN db.delta : h # db.cursor => d[h] = db.delta[h]
    BY <1>5 DEF ApplyBlock, Applied
  <2>2. /\ NullifiersOf[b] \cap nullifiers = {}
        /\ nullifiers' = nullifiers \cup NullifiersOf[b]
        /\ db' = db
    BY <1>5 DEF ApplyBlock
  <2>3. \A h \in DOMAIN db.delta :
            NullifiersOf[db.delta[h].branch] \subseteq nullifiers
    BY DEF NullifierInv, Recorded
  <2>4. Recorded(db)'
    BY <2>2 DEF NullifierInv, Recorded
  <2> HIDE DEF b, d
  <2>5. \A h \in DOMAIN d : NullifiersOf[d[h].branch] \subseteq nullifiers'
    BY <2>1, <2>2, <2>3
  <2>6. \A h, k \in DOMAIN db.delta : h # k =>
            NullifiersOf[db.delta[h].branch]
                \cap NullifiersOf[db.delta[k].branch] = {}
    BY DEF NullifierInv, Recorded
  <2>7. \A h, k \in DOMAIN d : h # k =>
            NullifiersOf[d[h].branch] \cap NullifiersOf[d[k].branch] = {}
    BY <2>1, <2>2, <2>3, <2>6
  <2>8. Recorded(tx)'
    BY <2>5, <2>7 DEF Recorded, d
  <2> QED BY <2>4, <2>8
<1>6. ASSUME CommitApply PROVE Rest
  BY <1>6 DEF CommitApply, NullifierInv, Recorded
<1>7. ASSUME InvertOne PROVE Rest
  <2>1. db' = db /\ nullifiers' = nullifiers /\ pc' = "unwinding"
    BY <1>7 DEF InvertOne
  <2> QED BY <1>1, <2>1
<1>8. ASSUME NEW b \in Block, Crash(b) PROVE Rest
  <2>1. db'.delta = db.delta /\ nullifiers' = nullifiers /\ pc' = "idle"
    BY <1>0, <1>8 DEF Crash, Backfilled, Database
  <2> QED BY <1>1, <2>1
<1>9. ASSUME NEW b \in Block, SeedSnapshot(b) PROVE Rest
  <2>1. db'.delta = db.delta /\ nullifiers' = nullifiers /\ pc' = "idle"
    BY <1>0, <1>9 DEF SeedSnapshot, Database
  <2> QED BY <1>1, <2>1
<1>10. ASSUME SkipUnwind \/ BeginUnwind \/ ApplyIdle \/ ApplyBlocked \/ StepFails
       PROVE  Rest
  <2>1. db' = db /\ nullifiers' = nullifiers /\ pc' # "applied"
    BY <1>10 DEF SkipUnwind, BeginUnwind, ApplyIdle, ApplyBlocked, StepFails
  <2> QED BY <1>1, <2>1
<1>11. ASSUME UNCHANGED <<step, nullifiers>> PROVE Rest
  BY <1>1, <1>11 DEF step
<1> QED
  BY <1>3, <1>4, <1>5, <1>6, <1>7, <1>8, <1>9, <1>10, <1>11
  DEF Next, StepOnce, vars, step, RefuseUnwind, NewCandidate, ProofValidate,
      TipFinalize, RacingExtend, StaleScriptReplay

(* No two applied blocks share a Sprout nullifier, whatever crashes, fails *)
(* or is repaired.                                                         *)
THEOREM NullifiersNeverRepeat == Spec => []NullifiersUnique
<1>1. NullifierInv => NullifiersUnique
  BY DEF NullifierInv, Recorded, NullifiersUnique
<1> QED BY <1>1, NullifierInit, NullifierStep, PTL DEF Spec

-----------------------------------------------------------------------------
(* Inverse deltas.  When a valid block spends none of its own outputs,     *)
(* emit_inverse_delta undoes apply_coins_kv.                               *)
LEMMA SpentAreLive ==
    ASSUME NEW b, NEW h, NEW c,
           Len(b) \in Nat, DOMAIN b = 1 .. Len(b),
           ValidBlock(b, h, c), SpentOps(b) \cap CreatedOps(b) = {}
    PROVE  /\ SpentOps(b) \subseteq DOMAIN c
           /\ CreatedOps(b) \cap DOMAIN c = {}
<1>1. CreatedOps(b) \cap DOMAIN c = {}
  BY DEF ValidBlock, OutputsOk
<1>2. ASSUME NEW op \in SpentOps(b) PROVE op \in DOMAIN c
  <2>1. PICK i \in DOMAIN b : op \in InsOf(b[i])
    BY <1>2 DEF SpentOps
  <2>2. op \in CreatedBefore(b, i) \cup DOMAIN c
    BY <2>1 DEF ValidBlock, InputsOk
  <2>3. \A j \in 1 .. i - 1 : j \in DOMAIN b
    OBVIOUS
  <2>4. CreatedBefore(b, i) \subseteq CreatedOps(b)
    BY <2>3 DEF CreatedBefore, CreatedOps
  <2> QED BY <1>2, <2>2, <2>4
<1> QED BY <1>1, <1>2

LEMMA InverseUndoes ==
    ASSUME NEW b, NEW h, NEW c, c = [op \in DOMAIN c |-> c[op]],
           Len(b) \in Nat, DOMAIN b = 1 .. Len(b),
           ValidBlock(b, h, c), SpentOps(b) \cap CreatedOps(b) = {}
    PROVE  emit_inverse_delta(
              apply_coins_kv(c, AddedOf(b, h), SpentOf(b, h, c)),
              DOMAIN AddedOf(b, h), SpentOf(b, h, c)) = c
<1> DEFINE A == AddedOf(b, h)
           S == SpentOf(b, h, c)
           up == apply_coins_kv(c, A, S)
           down == emit_inverse_delta(up, DOMAIN A, S)
<1>1. DOMAIN A = CreatedOps(b) /\ DOMAIN S = SpentOps(b)
  BY DEF AddedOf, SpentOf
<1>2. \A op \in DOMAIN S : S[op] = c[op]
  BY DEF SpentOf, Preimage
<1>3. DOMAIN S \subseteq DOMAIN c /\ DOMAIN A \cap DOMAIN c = {}
  BY <1>1, SpentAreLive
<1> HIDE DEF A, S
<1>4. /\ DOMAIN up = (DOMAIN c \cup DOMAIN A) \ DOMAIN S
      /\ \A op \in DOMAIN up : op \notin DOMAIN A => up[op] = c[op]
  BY DEF apply_coins_kv
<1> HIDE DEF up
<1>5. /\ down = [op \in DOMAIN down |-> down[op]]
      /\ DOMAIN down = (DOMAIN up \ DOMAIN A) \cup DOMAIN S
      /\ \A op \in DOMAIN down :
            down[op] = IF op \in DOMAIN S THEN S[op] ELSE up[op]
  BY DEF emit_inverse_delta
<1>6. DOMAIN down = DOMAIN c
  BY <1>3, <1>4, <1>5
<1>7. \A op \in DOMAIN c : down[op] = c[op]
  BY <1>2, <1>3, <1>4, <1>5, <1>6
<1> HIDE DEF down
<1>8. down = c
  BY <1>5, <1>6, <1>7
<1> QED BY <1>8 DEF down, up, A, S

-----------------------------------------------------------------------------
(* The coins.  Four things that break the property are excluded (README,   *)
(* runs and known limits): a window moved by another thread, the           *)
(* header-poison repair, blocks that spend their own outputs, and          *)
(* snapshots that are not final (a block of another branch exists at the   *)
(* height of the snapshot, or it is within the finality depth of genesis). *)
Benign ==
    /\ ~ WindowRaces /\ ~ Poison
    /\ \A b \in Block : SpentOps(Txs[b]) \cap CreatedOps(Txs[b]) = {}
    /\ \A s \in Snapshots :
          /\ HeightOf[s] >= FinalityDepth
          /\ \A b \in Block :
                HeightOf[b] >= HeightOf[s] => Chain[b][HeightOf[s]] = s

(* The first height above the snapshot a, and a well-formed snapshot.      *)
Base(a) == IF a = NoBlock THEN 0 ELSE HeightOf[a] + 1
IsAnchor(a) == a = NoBlock \/ (a \in Snapshots /\ a \in Block)

(* Every row records a valid block at its height with the delta it has on  *)
(* the coins of its parent, and the rows are one chain from the base up.   *)
RowOk(r, h) ==
    /\ HeightOf[r.branch] = h
    /\ Valid(r.branch, DirectBefore(r.branch))
    /\ r.spent = Spends(r.branch, DirectBefore(r.branch))
    /\ r.added = DOMAIN Adds(r.branch)
OneChain(d, a) ==
    /\ d.cursor >= Base(a)
    /\ DOMAIN d.delta = Base(a) .. d.cursor - 1
    /\ \A h \in DOMAIN d.delta : RowOk(d.delta[h], h)
    /\ \A h, k \in DOMAIN d.delta :
          k <= h => d.delta[k].branch = Chain[d.delta[h].branch][k]

(* The coins once the n lowest heights are applied.                        *)
CoinsAt(d, a, n) ==
    IF n = 0 THEN NoCoins
    ELSE IF n - 1 \in DOMAIN d.delta THEN Direct[d.delta[n - 1].branch]
    ELSE Direct[a]

Faithful(d, a) ==
    Database(d) /\ OneChain(d, a) /\ d.coins = CoinsAt(d, a, d.cursor)

(* The heights above the base build on what CoinsAt says.                  *)
LEMMA BuildsOn ==
    ASSUME Benign, NEW d, NEW a, IsAnchor(a), Database(d), OneChain(d, a),
           NEW h \in Nat, NEW b \in Block, HeightOf[b] = h, h >= Base(a),
           h > 0 /\ h - 1 \in DOMAIN d.delta =>
               d.delta[h - 1].branch = Chain[b][h - 1],
           h <= d.cursor
    PROVE  DirectBefore(b) = CoinsAt(d, a, h)
<1>1. CASE h = 0
  BY <1>1 DEF DirectBefore, CoinsAt
<1>2. CASE h > 0 /\ h - 1 \in DOMAIN d.delta
  BY <1>2 DEF DirectBefore, CoinsAt
<1>3. CASE h > 0 /\ h - 1 \notin DOMAIN d.delta
  <2>1. d.cursor \in Nat /\ Base(a) \in Nat
    BY TreeAssumption DEF Database, Base, IsAnchor
  <2>2. h = Base(a)
    BY <1>3, <2>1 DEF OneChain
  <2>3. a # NoBlock /\ a \in Block /\ a \in Snapshots /\ h - 1 = HeightOf[a]
    BY <1>3, <2>2, TreeAssumption DEF Base, IsAnchor
  <2>4. Chain[b][h - 1] = a
    BY <2>3, TreeAssumption DEF Benign
  <2> QED BY <1>3, <2>4 DEF DirectBefore, CoinsAt
<1> QED BY <1>1, <1>2, <1>3

(* Coins sets are functions.                                               *)
LEMMA CoinsAreFunctions ==
    ASSUME NEW b \in Block
    PROVE  DirectBefore(b) =
              [op \in DOMAIN DirectBefore(b) |-> DirectBefore(b)[op]]
<1>1. CASE HeightOf[b] = 0
  BY <1>1 DEF DirectBefore, NoCoins
<1>2. CASE HeightOf[b] # 0
  <2>1. Chain[b][HeightOf[b] - 1] \in Block
    BY <1>2, TreeAssumption
  <2> QED BY <1>2, <2>1, DirectAssumption DEF DirectBefore
<1> QED BY <1>1, <1>2

(* Undoing the row at h takes the coins of h + 1 blocks to those of h.     *)
LEMMA UndoRow ==
    ASSUME Benign, NEW d, NEW a, IsAnchor(a), Database(d), OneChain(d, a),
           NEW h \in DOMAIN d.delta
    PROVE  emit_inverse_delta(CoinsAt(d, a, h + 1), d.delta[h].added,
                              d.delta[h].spent) = CoinsAt(d, a, h)
<1> DEFINE b == d.delta[h].branch
           c == DirectBefore(b)
<1>1. /\ b \in Block /\ h \in Nat /\ RowOk(d.delta[h], h)
      /\ d.cursor \in Nat /\ Base(a) \in Nat /\ h >= Base(a) /\ h < d.cursor
  BY TreeAssumption DEF Database, OneChain, Base, IsAnchor
<1>2. CoinsAt(d, a, h + 1) = Direct[b]
  BY <1>1 DEF CoinsAt
<1>3. Direct[b] = apply_coins_kv(c, Adds(b), Spends(b, c))
  BY <1>1, DirectAssumption DEF RowOk
<1>4. c = CoinsAt(d, a, h)
  <2>1. h > 0 /\ h - 1 \in DOMAIN d.delta =>
            d.delta[h - 1].branch = Chain[b][h - 1]
    BY <1>1 DEF OneChain
  <2> QED BY <1>1, <2>1, BuildsOn DEF RowOk
<1>5. /\ Len(Txs[b]) \in Nat /\ DOMAIN Txs[b] = 1 .. Len(Txs[b])
      /\ SpentOps(Txs[b]) \cap CreatedOps(Txs[b]) = {}
      /\ ValidBlock(Txs[b], HeightOf[b], c)
      /\ c = [op \in DOMAIN c |-> c[op]]
  BY <1>1, DirectAssumption, CoinsAreFunctions DEF Benign, RowOk, Valid
<1>6. /\ d.delta[h].added = DOMAIN Adds(b)
      /\ d.delta[h].spent = Spends(b, c)
  BY <1>1 DEF RowOk
<1> HIDE DEF b, c
<1>7. emit_inverse_delta(apply_coins_kv(c, Adds(b), Spends(b, c)),
                         DOMAIN Adds(b), Spends(b, c)) = c
  BY <1>5, InverseUndoes DEF Adds, Spends
<1> QED BY <1>2, <1>3, <1>4, <1>6, <1>7

(* Applying a valid block that follows the top row keeps the database      *)
(* faithful.                                                               *)
LEMMA ApplyKeepsFaithful ==
    ASSUME Benign, NEW d, NEW a, IsAnchor(a), Faithful(d, a),
           NEW b \in Block, HeightOf[b] = d.cursor, Valid(b, d.coins),
           d.cursor > 0 /\ d.cursor - 1 \in DOMAIN d.delta =>
               d.delta[d.cursor - 1].branch = Chain[b][d.cursor - 1]
    PROVE  Faithful(Applied(d, b), a)
<1> DEFINE n == d.cursor
           e == Applied(d, b)
<1>1. n \in Nat /\ Base(a) \in Nat /\ Base(a) <= n /\ Database(d)
  BY TreeAssumption DEF Faithful, Database, OneChain, Base, IsAnchor
<1>2. DirectBefore(b) = d.coins
  <2>1. OneChain(d, a) /\ d.coins = CoinsAt(d, a, n)
    BY DEF Faithful
  <2>2. DirectBefore(b) = CoinsAt(d, a, n)
    BY <1>1, <2>1, BuildsOn
  <2> QED BY <2>1, <2>2
<1>3. Direct[b] = apply_coins_kv(d.coins, Adds(b), Spends(b, d.coins))
  BY <1>2, DirectAssumption
<1>4. Database(e) /\ e.cursor = n + 1
  BY <1>1, AppliedIsDatabase
<1>5. /\ DOMAIN e.delta = DOMAIN d.delta \cup {n}
      /\ e.delta[n] = [branch |-> b, spent |-> Spends(b, d.coins),
                       added |-> DOMAIN Adds(b)]
      /\ \A h \in DOMAIN d.delta : h # n => e.delta[h] = d.delta[h]
      /\ e.coins = apply_coins_kv(d.coins, Adds(b), Spends(b, d.coins))
  BY DEF Applied
<1>6. /\ DOMAIN d.delta = Base(a) .. n - 1
      /\ \A h \in DOMAIN d.delta : RowOk(d.delta[h], h)
      /\ \A h, k \in DOMAIN d.delta :
            k <= h => d.delta[k].branch = Chain[d.delta[h].branch][k]
  BY DEF Faithful, OneChain
<1> HIDE DEF e
<1>7. DOMAIN e.delta = Base(a) .. e.cursor - 1
  BY <1>1, <1>4, <1>5, <1>6, SMTT(30)
<1>8. RowOk(e.delta[n], n)
  BY <1>2, <1>5, SMTT(30) DEF RowOk
<1>9. \A h \in DOMAIN e.delta : RowOk(e.delta[h], h)
  BY <1>1, <1>5, <1>6, <1>8
<1>10. ASSUME NEW k \in DOMAIN d.delta
       PROVE  d.delta[k].branch = Chain[b][k]
  <2>1. k \in Nat /\ n > 0 /\ n - 1 \in DOMAIN d.delta /\ k <= n - 1
    BY <1>1, <1>6
  <2>2. d.delta[k].branch = Chain[Chain[b][n - 1]][k]
    BY <1>6, <2>1
  <2> QED BY <2>1, <2>2, <1>1, TreeAssumption
<1>11. ASSUME NEW h \in DOMAIN e.delta, NEW k \in DOMAIN e.delta, k <= h
       PROVE  e.delta[k].branch = Chain[e.delta[h].branch][k]
  <2>1. CASE h = n /\ k = n
    BY <1>5, <2>1, TreeAssumption, SMTT(30)
  <2>2. CASE h = n /\ k # n
    BY <1>5, <1>10, <2>2, SMTT(30)
  <2>3. CASE h # n
    <3>1. h \in DOMAIN d.delta /\ k \in DOMAIN d.delta /\ k # n
      BY <1>1, <1>5, <1>6, <1>11, <2>3, SMTT(30)
    <3> QED BY <1>5, <1>6, <1>11, <2>3, <3>1, SMTT(30)
  <2> QED BY <2>1, <2>2, <2>3, SMTT(30)
<1>12. e.coins = CoinsAt(e, a, e.cursor)
  BY <1>1, <1>3, <1>4, <1>5 DEF CoinsAt
<1>13. OneChain(e, a)
  BY <1>1, <1>4, <1>7, <1>9, <1>11 DEF OneChain
<1> QED BY <1>4, <1>12, <1>13 DEF Faithful, e

(* Below a block of the window stands its parent.                          *)
LEMMA BelowActive ==
    ASSUME NEW w \in Block, NEW h \in Nat, h > 0, HasActive(w, h)
    PROVE  HasActive(w, h - 1) /\ Chain[Chain[w][h]][h - 1] = Chain[w][h - 1]
<1>1. h \in 0 .. HeightOf[w] /\ h - 1 \in 0 .. h /\ HeightOf[w] \in Nat
  BY TreeAssumption DEF HasActive
<1>2. h - 1 \in 0 .. HeightOf[w]
  BY <1>1
<1>3. Chain[Chain[w][h]][h - 1] = Chain[w][h - 1]
  BY <1>1, TreeAssumption, Zenon
<1> QED BY <1>2, <1>3 DEF HasActive

(* Cutting the rows from n up keeps the rest of the chain.                 *)
LEMMA CutKeepsChain ==
    ASSUME NEW d, NEW a, IsAnchor(a), Database(d), OneChain(d, a),
           NEW n \in Nat, Base(a) <= n, n <= d.cursor,
           NEW e, e.cursor = n, e.delta = RowsBelow(d.delta, n)
    PROVE  OneChain(e, a) /\ CoinsAt(e, a, n) = CoinsAt(d, a, n)
<1>1. Base(a) \in Nat /\ d.cursor \in Nat
  BY TreeAssumption DEF Database, Base, IsAnchor
<1>2. /\ DOMAIN e.delta = {k \in DOMAIN d.delta : k < n}
      /\ \A h \in DOMAIN e.delta : e.delta[h] = d.delta[h]
  BY DEF RowsBelow
<1>3. DOMAIN e.delta = Base(a) .. n - 1
  BY <1>1, <1>2 DEF OneChain
<1>4. OneChain(e, a)
  <2>1. \A h \in DOMAIN e.delta : RowOk(e.delta[h], h)
    BY <1>2 DEF OneChain
  <2>2. \A h, k \in DOMAIN e.delta :
            k <= h => e.delta[k].branch = Chain[e.delta[h].branch][k]
    BY <1>2 DEF OneChain
  <2> QED BY <1>3, <2>1, <2>2 DEF OneChain
<1>5. n > 0 => (n - 1 \in DOMAIN e.delta <=> n - 1 \in DOMAIN d.delta)
  BY <1>2
<1>6. CoinsAt(e, a, n) = CoinsAt(d, a, n)
  BY <1>2, <1>5 DEF CoinsAt
<1> QED BY <1>4, <1>6

-----------------------------------------------------------------------------
(* The inductive invariant: what is durable is faithful; an apply's        *)
(* working copy is faithful; an unwind's working copy holds the coins of   *)
(* the heights not yet undone, on the way to a height the window shares;   *)
(* and when step_apply runs, the window continues the top row.             *)
Undoing ==
    /\ fork <= at /\ at <= db.cursor - 1
    /\ tx.coins = CoinsAt(db, anchor, at + 1)
    /\ fork = -1 => anchor = NoBlock
    /\ fork # -1 => Matches(window, fork)
OnWindow ==
    db.cursor - 1 \in DOMAIN db.delta /\ HasActive(window, db.cursor - 1) =>
        db.delta[db.cursor - 1].branch = Chain[window][db.cursor - 1]
CoinsInv ==
    /\ Frame
    /\ IsAnchor(anchor)
    /\ Faithful(db, anchor)
    /\ pc = "applied" => Faithful(tx, anchor)
    /\ pc = "unwinding" => Undoing
    /\ pc = "unwound" => OnWindow

LEMMA CoinsInit == Init => CoinsInv
<1> SUFFICES ASSUME Init PROVE CoinsInv
  OBVIOUS
<1>1. Frame /\ Database(db)
  BY FrameInit DEF Frame, TypeOK
<1>2. /\ db.cursor = 0 /\ db.coins = NoCoins /\ DOMAIN db.delta = {}
      /\ anchor = NoBlock /\ pc = "idle"
  BY DEF Init, NoCoins
<1>3. OneChain(db, anchor)
  BY <1>2 DEF OneChain, Base
<1>4. db.coins = CoinsAt(db, anchor, db.cursor)
  BY <1>2 DEF CoinsAt
<1> QED BY <1>1, <1>2, <1>3, <1>4 DEF CoinsInv, IsAnchor, Faithful

LEMMA CoinsStep == Benign /\ CoinsInv /\ [Next]_vars => CoinsInv'
<1> SUFFICES ASSUME Benign, CoinsInv, [Next]_vars PROVE CoinsInv'
  OBVIOUS
<1> DEFINE Rest == /\ IsAnchor(anchor') /\ Faithful(db', anchor')
                   /\ pc' = "applied" => Faithful(tx', anchor')
                   /\ pc' = "unwinding" => Undoing'
                   /\ pc' = "unwound" => OnWindow'
<1>0. /\ Frame /\ IsAnchor(anchor) /\ Faithful(db, anchor)
      /\ Database(db) /\ OneChain(db, anchor)
      /\ db.coins = CoinsAt(db, anchor, db.cursor)
      /\ db.cursor \in Nat /\ Base(anchor) \in Nat /\ pc \in Steps
      /\ window \in Block /\ candidate \in Block
  BY TreeAssumption, SMTT(30)
  DEF CoinsInv, Frame, TypeOK, Database, Faithful, Base, IsAnchor
<1>1. ASSUME db' = db, anchor' = anchor, pc' = "idle" PROVE Rest
  BY <1>0, <1>1
<1>2. ASSUME UNCHANGED <<db, tx, pc, at, fork, anchor, window>> PROVE Rest
  BY <1>0, <1>2 DEF CoinsInv, Undoing, OnWindow, Matches
<1>3. ASSUME SkipUnwind PROVE Rest
  <2>1. /\ db' = db /\ anchor' = anchor /\ pc' = "unwound"
        /\ window' = Extended /\ ~ Diverged(Extended)
    BY <1>3 DEF SkipUnwind
  <2>2. OnWindow'
    BY <1>0, <2>1 DEF OnWindow, Diverged, Database
  <2> QED BY <1>0, <2>1, <2>2
<1>4. ASSUME BeginUnwind PROVE Rest
  <2>1. /\ db' = db /\ tx' = tx /\ anchor' = anchor /\ pc' = "unwinding"
        /\ window' = Extended /\ Diverged(Extended)
        /\ at' = db.cursor - 1 /\ tx = db
    BY <1>0, <1>4 DEF BeginUnwind, Frame, TypeOK
  <2>2. PICK f \in -1 .. db.cursor - 2 :
           /\ IsFork(Extended, f) /\ fork' = f
           /\ reorg_is_allowed(db.cursor - 1, f)
    BY <1>4 DEF BeginUnwind
  <2>3. f = -1 => anchor = NoBlock
    <3> SUFFICES ASSUME f = -1, anchor # NoBlock PROVE FALSE
      OBVIOUS
    <3>1. anchor \in Block /\ anchor \in Snapshots /\ HeightOf[anchor] \in Nat
      BY <1>0, TreeAssumption DEF IsAnchor
    <3>2. db.cursor >= HeightOf[anchor] + 1 /\ HeightOf[anchor] >= FinalityDepth
      BY <1>0, <3>1 DEF OneChain, Base, Benign
    <3>3. db.cursor > 0
      BY <2>1 DEF Diverged
    <3> QED
      BY <1>0, <2>2, <3>1, <3>2, <3>3, BoundsAssumption DEF reorg_is_allowed
  <2>4. f # -1 => Matches(Extended, f)
    BY <2>2 DEF IsFork
  <2>5. Matches(window, fork)' <=> Matches(Extended, f)
    BY <2>1, <2>2 DEF Matches
  <2>6. tx'.coins = CoinsAt(db', anchor', at' + 1)
    BY <1>0, <2>1
  <2>7. fork' <= at' /\ at' <= db'.cursor - 1
    BY <1>0, <2>1, <2>2
  <2>8. Undoing'
    BY <2>1, <2>2, <2>3, <2>4, <2>5, <2>6, <2>7 DEF Undoing
  <2> QED BY <1>0, <2>1, <2>8
<1>5. ASSUME InvertOne PROVE Rest
  <2>1. /\ pc = "unwinding" /\ at > fork /\ at' = at - 1
        /\ UNCHANGED <<db, pc, fork, window, anchor>>
    BY <1>5 DEF InvertOne
  <2>2. /\ Undoing /\ tx.delta = db.delta /\ Database(tx)
        /\ fork \in Nat \cup {-1} /\ at \in Nat \cup {-1}
    BY <1>0, <2>1, SMTT(30) DEF CoinsInv, Frame, OpenTransaction, TypeOK
  <2>3. at \in DOMAIN db.delta
    <3>1. Base(anchor) <= at
      <4>1. CASE fork = -1
        BY <1>0, <2>1, <2>2, <4>1, SMTT(30) DEF Undoing, Base
      <4>2. CASE fork # -1
        BY <1>0, <2>1, <2>2, <4>2, SMTT(30) DEF Undoing, Matches, OneChain
      <4> QED BY <4>1, <4>2
    <3>2. DOMAIN db.delta = Base(anchor) .. db.cursor - 1
      BY <1>0, SMTT(30) DEF OneChain
    <3>3. at <= db.cursor - 1
      BY <2>2 DEF Undoing
    <3> QED BY <1>0, <2>2, <3>1, <3>2, <3>3, SMTT(30)
  <2>4. tx'.coins = emit_inverse_delta(tx.coins, db.delta[at].added,
                                       db.delta[at].spent)
    BY <1>5, <2>2, <2>3, SMTT(30) DEF InvertOne, Database
  <2>5. tx'.coins = CoinsAt(db, anchor, at)
    BY <1>0, <2>2, <2>3, <2>4, UndoRow, SMTT(30) DEF Undoing
  <2>6. Undoing'
    BY <1>0, <2>1, <2>2, <2>5 DEF Undoing, Matches
  <2> QED BY <1>0, <2>1, <2>6
<1>6. ASSUME CommitUnwind PROVE Rest
  <2>1. /\ pc = "unwinding" /\ at = fork /\ pc' = "unwound"
        /\ UNCHANGED <<window, anchor>>
    BY <1>6 DEF CommitUnwind
  <2>2. /\ Undoing /\ tx.delta = db.delta /\ Database(tx)
        /\ fork \in Nat \cup {-1} /\ fork < db.cursor - 1
    BY <1>0, <2>1 DEF CoinsInv, Frame, OpenTransaction, TypeOK
  <2>3. /\ db'.cursor = fork + 1 /\ db'.delta = RowsBelow(db.delta, fork + 1)
        /\ db'.coins = tx.coins
    BY <1>6, <2>2, SMTT(30) DEF CommitUnwind, Database
  <2>4. Base(anchor) <= fork + 1
    BY <1>0, <2>2 DEF Undoing, Base, Matches, OneChain
  <2>5. /\ OneChain(db', anchor)
        /\ CoinsAt(db', anchor, fork + 1) = CoinsAt(db, anchor, fork + 1)
    BY <1>0, <2>2, <2>3, <2>4, CutKeepsChain
  <2>6. db'.coins = CoinsAt(db', anchor, db'.cursor)
    BY <2>1, <2>2, <2>3, <2>5 DEF Undoing
  <2>7. Database(db')
    BY <1>0, TypeStep, SMTT(30) DEF Frame, TypeOK
  <2>8. OnWindow'
    <3> SUFFICES ASSUME fork \in DOMAIN db'.delta
                 PROVE  db'.delta[fork].branch = Chain[window][fork]
      BY <2>1, <2>2, <2>3, SMTT(30) DEF OnWindow
    <3>1. fork # -1 /\ db'.delta[fork] = db.delta[fork]
      BY <2>2, <2>3, <2>7 DEF RowsBelow, Database
    <3> QED BY <2>2, <3>1, SMTT(30) DEF Undoing, Matches
  <2> QED BY <1>0, <2>1, <2>5, <2>6, <2>7, <2>8 DEF Faithful
<1>7. ASSUME ApplyBlock PROVE Rest
  <2>1. /\ pc = "unwound" /\ pc' = "applied" /\ UNCHANGED <<db, anchor>>
        /\ tx' = Applied(db, NextBlock) /\ Valid(NextBlock, db.coins)
        /\ HasActive(window, db.cursor)
    BY <1>7, ZenonT(30) DEF ApplyBlock, RowReady
  <2>2. NextBlock \in Block /\ HeightOf[NextBlock] = db.cursor
    BY <1>0, <2>1, ActiveIsBlock, ZenonT(30) DEF NextBlock
  <2>3. db.cursor > 0 /\ db.cursor - 1 \in DOMAIN db.delta =>
            db.delta[db.cursor - 1].branch = Chain[NextBlock][db.cursor - 1]
    <3> SUFFICES ASSUME db.cursor > 0, db.cursor - 1 \in DOMAIN db.delta
                 PROVE  db.delta[db.cursor - 1].branch =
                            Chain[NextBlock][db.cursor - 1]
      OBVIOUS
    <3>0. db.cursor \in Nat /\ window \in Block
      BY <1>0 DEF Frame, TypeOK, Database
    <3>1. /\ HasActive(window, db.cursor - 1)
          /\ Chain[NextBlock][db.cursor - 1] = Chain[window][db.cursor - 1]
      BY <2>1, <3>0, BelowActive DEF NextBlock
    <3>2. db.delta[db.cursor - 1].branch = Chain[window][db.cursor - 1]
      BY <2>1, <3>1, SMTT(30) DEF CoinsInv, OnWindow
    <3> QED BY <3>1, <3>2
  <2>4. Faithful(tx', anchor)
    BY <1>0, <2>1, <2>2, <2>3, ApplyKeepsFaithful
  <2> QED BY <1>0, <2>1, <2>4
<1>8. ASSUME CommitApply PROVE Rest
  BY <1>0, <1>8 DEF CommitApply, CoinsInv
<1>9. ASSUME NEW b \in Block, Crash(b) PROVE Rest
  <2>1. /\ db'.cursor = db.cursor /\ db'.coins = db.coins
        /\ db'.delta = db.delta /\ anchor' = anchor /\ pc' = "idle"
    BY <1>0, <1>9 DEF Crash, Backfilled, Database
  <2>2. Database(db')
    BY <1>0, TypeStep, SMTT(30) DEF Frame, TypeOK
  <2>3. OneChain(db', anchor)
    BY <1>0, <2>1, SMTT(30) DEF OneChain
  <2>4. db'.coins = CoinsAt(db', anchor, db'.cursor)
    BY <1>0, <2>1 DEF CoinsAt
  <2> QED BY <1>0, <2>1, <2>2, <2>3, <2>4 DEF Faithful
<1>10. ASSUME NEW b \in Block, SeedSnapshot(b) PROVE Rest
  <2>0. HeightOf[b] \in Nat
    BY TreeAssumption
  <2>1. /\ db'.delta = db.delta /\ pc' = "idle" /\ b \in Snapshots
        /\ db'.cursor = Larger(db.cursor, AnchorTarget(b))
    BY <1>0, <1>10, SMTT(30) DEF SeedSnapshot, Database
  <2>2. Database(db')
    BY <1>0, TypeStep, SMTT(30) DEF Frame, TypeOK
  <2>3. CASE db.cursor = 0 /\ db.applied = Absent
    <3>1. db'.coins = Direct[b] /\ anchor' = b
      BY <1>0, <1>10, <2>3 DEF SeedSnapshot, Database
    <3>2. db'.cursor = HeightOf[b] + 1
      BY <2>0, <2>1, <2>3, SMTT(30) DEF Larger, AnchorTarget
    <3>3. DOMAIN db'.delta = {}
      BY <1>0, <2>1, <2>3 DEF OneChain
    <3>4. b # NoBlock
      BY TreeAssumption
    <3>5. OneChain(db', b)
      BY <2>0, <3>2, <3>3, <3>4 DEF OneChain, Base
    <3>6. db'.coins = CoinsAt(db', b, db'.cursor)
      BY <2>0, <3>1, <3>2, <3>3 DEF CoinsAt
    <3> QED BY <2>1, <2>2, <3>1, <3>5, <3>6 DEF Faithful, IsAnchor
  <2>4. CASE ~ (db.cursor = 0 /\ db.applied = Absent)
    <3>1. db'.coins = db.coins /\ anchor' = anchor /\ db.applied # Absent
      BY <1>0, <1>10, <2>4 DEF SeedSnapshot, Database
    <3>2. db.applied = db.cursor
      BY <1>0, <3>1 DEF Frame, FrontierIsCursor
    <3>3. db'.cursor = db.cursor
      BY <1>0, <2>0, <2>1, <3>1, <3>2, SMTT(30)
      DEF Larger, Smaller, AnchorTarget
    <3>4. OneChain(db', anchor)
      BY <1>0, <2>1, <3>3 DEF OneChain
    <3>5. db'.coins = CoinsAt(db', anchor, db'.cursor)
      BY <1>0, <2>1, <3>1, <3>3 DEF CoinsAt
    <3> QED BY <1>0, <2>1, <2>2, <3>1, <3>4, <3>5 DEF Faithful
  <2> QED BY <2>3, <2>4
<1>11. ASSUME ApplyIdle \/ ApplyBlocked \/ StepFails \/ RefuseUnwind
       PROVE  Rest
  <2>1. db' = db /\ anchor' = anchor /\ pc' = "idle"
    BY <1>11 DEF ApplyIdle, ApplyBlocked, StepFails, RefuseUnwind, step
  <2> QED BY <1>1, <2>1
<1>12. ASSUME NEW h \in DOMAIN db.delta, TipFinalize(h) PROVE Rest
  <2>1. db' = db /\ anchor' = anchor /\ pc' = "idle"
    BY <1>12 DEF TipFinalize, step
  <2> QED BY <1>1, <2>1
<1>13. ~ RacingExtend /\ ~ PoisonRewind
  BY DEF Benign, RacingExtend, PoisonRewind
<1>14. Rest
  BY <1>2, <1>3, <1>4, <1>5, <1>6, <1>7, <1>8, <1>9, <1>10, <1>11, <1>12, <1>13,
     ZenonT(30)
  DEF Next, StepOnce, vars, step, NewCandidate, ProofValidate,
      StaleScriptReplay
<1>15. Frame'
  BY <1>0, FrameStep
<1> QED BY <1>14, <1>15 DEF CoinsInv

(* After any sequence of reorgs, crashes, failed transactions, restarts    *)
(* and snapshot seedings, the coins are those of a direct build of the     *)
(* applied branch.                                                         *)
THEOREM CoinsAreDirectBuild == ASSUME Benign PROVE Spec => []CoinsMatchBranch
<1>1. CoinsInv => CoinsMatchBranch
  <2> SUFFICES ASSUME CoinsInv PROVE CoinsMatchBranch
    OBVIOUS
  <2>1. /\ Database(db) /\ OneChain(db, anchor) /\ IsAnchor(anchor)
        /\ db.coins = CoinsAt(db, anchor, db.cursor)
        /\ db.cursor \in Nat /\ Base(anchor) \in Nat
    BY TreeAssumption, SMTT(30) DEF CoinsInv, Faithful, Database, Base, IsAnchor
  <2>2. CASE db.cursor = 0
    BY <2>1, <2>2, SMTT(30) DEF CoinsMatchBranch, AppliedTip, CoinsOf, CoinsAt
  <2>3. CASE db.cursor > 0 /\ db.cursor - 1 \in DOMAIN db.delta
    <3>1. db.delta[db.cursor - 1].branch # NoBlock
      BY <2>1, <2>3, TreeAssumption DEF Database
    <3> QED BY <2>1, <2>3, <3>1
            DEF CoinsMatchBranch, AppliedTip, CoinsOf, CoinsAt
  <2>4. CASE db.cursor > 0 /\ db.cursor - 1 \notin DOMAIN db.delta
    <3>1. anchor # NoBlock
      BY <2>1, <2>4 DEF OneChain, Base
    <3> QED BY <2>1, <2>4, <3>1
            DEF CoinsMatchBranch, AppliedTip, CoinsOf, CoinsAt
  <2> QED BY <2>1, <2>2, <2>3, <2>4
<1>2. CoinsInv /\ [Next]_vars => CoinsInv'
  BY CoinsStep
<1> QED BY <1>1, <1>2, CoinsInit, PTL DEF Spec

(* Under the same conditions the rows are one chain without gaps, from the *)
(* snapshot or genesis to the cursor.                                      *)
THEOREM RowsAreOneChain == ASSUME Benign PROVE Spec => []AppliedIsChain
<1>1. CoinsInv => AppliedIsChain
  <2> SUFFICES ASSUME CoinsInv, db.cursor > 0
               PROVE  LET top == AppliedTip(db) IN
                      /\ top \in Block /\ HeightOf[top] = db.cursor - 1
                      /\ DOMAIN db.delta = Base(anchor) .. db.cursor - 1
                      /\ \A h \in DOMAIN db.delta :
                            db.delta[h].branch = Chain[top][h]
    BY DEF AppliedIsChain, Base
  <2>1. /\ Database(db) /\ OneChain(db, anchor) /\ IsAnchor(anchor)
        /\ db.cursor \in Nat /\ Base(anchor) \in Nat
    BY TreeAssumption, SMTT(30)
    DEF CoinsInv, Faithful, Database, Base, IsAnchor
  <2>2. CASE db.cursor - 1 \in DOMAIN db.delta
    <3>1. AppliedTip(db) = db.delta[db.cursor - 1].branch
      BY <2>2 DEF AppliedTip
    <3>2. AppliedTip(db) \in Block
      BY <2>1, <2>2, <3>1, SMTT(30) DEF Database
    <3>3. HeightOf[AppliedTip(db)] = db.cursor - 1
      BY <2>1, <2>2, <3>1 DEF OneChain, RowOk
    <3>4. DOMAIN db.delta = Base(anchor) .. db.cursor - 1
      BY <2>1 DEF OneChain
    <3>5. ASSUME NEW h \in DOMAIN db.delta
          PROVE  db.delta[h].branch = Chain[AppliedTip(db)][h]
      <4>1. h <= db.cursor - 1
        BY <2>1, <3>4
      <4> QED BY <2>1, <2>2, <3>1, <4>1 DEF OneChain
    <3> QED BY <3>2, <3>3, <3>4, <3>5
  <2>3. CASE db.cursor - 1 \notin DOMAIN db.delta
    <3>1. db.cursor = Base(anchor) /\ DOMAIN db.delta = {}
      BY <2>1, <2>3 DEF OneChain
    <3>2. anchor # NoBlock
      BY <3>1 DEF Base
    <3>3. /\ anchor \in Block /\ HeightOf[anchor] \in Nat
          /\ db.cursor = HeightOf[anchor] + 1
      BY <2>1, <3>1, <3>2, TreeAssumption DEF IsAnchor, Base
    <3>4. AppliedTip(db) = anchor
      BY <2>3 DEF AppliedTip
    <3>5. HeightOf[AppliedTip(db)] = db.cursor - 1
      BY <3>3, <3>4
    <3>6. DOMAIN db.delta = Base(anchor) .. db.cursor - 1
      BY <2>1 DEF OneChain
    <3> QED BY <3>1, <3>3, <3>4, <3>5, <3>6
  <2> QED BY <2>2, <2>3
<1>2. CoinsInv /\ [Next]_vars => CoinsInv'
  BY CoinsStep
<1> QED BY <1>1, <1>2, CoinsInit, PTL DEF Spec
=============================================================================
