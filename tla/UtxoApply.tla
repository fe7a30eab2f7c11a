----------------------------- MODULE UtxoApply ------------------------------
(***************************************************************************)
(* The utxo_apply stage: the one author of the node's coins set.  A step   *)
(* extends the active-chain window to the best header, unwinds the blocks  *)
(* of a branch that lost (one inverse delta per height, in a transaction   *)
(* of its own), and then applies the next block of the window in the       *)
(* stage's transaction: coins, inverse delta, log row, applied frontier    *)
(* and cursor together.  A crash or an error may hit between any two       *)
(* writes.  Around it: snapshot seeding, the boot-time backfill, the       *)
(* header-poison repair and the stale-script replay, which also move the   *)
(* cursor.                                                                 *)
(*                                                                         *)
(* db is what is durable in progress.kv, tx the working copy of the open   *)
(* transaction (equal to db when none is open): COMMIT copies tx to db,    *)
(* ROLLBACK and a crash copy db to tx.  utxo_apply_log holds an ok=1 row   *)
(* at exactly the heights of utxo_apply_delta (both are written, and       *)
(* deleted, by the same transactions), so delta stands for both tables.    *)
(***************************************************************************)
EXTENDS BlockRules

CONSTANTS Block, NoBlock,
          HeightOf,     \* the height of a block
          Chain,        \* Chain[b][h]: the ancestor of b at height h
          Genesis,
          Txs,          \* the transactions of a block
          NullifiersOf, \* its Sprout joinsplit nullifiers
          Direct,       \* the coins a direct build of the chain to b ends in
          Bodiless,     \* blocks whose body is not on disk
          Snapshots,    \* blocks a UTXO snapshot may be taken at
          FinalityDepth,    \* ZCL_FINALITY_DEPTH
          WindowRaces,  \* may another thread move the window during a step?
          Poison,       \* may the header-poison repair run?
          MaxFailures   \* bound on crashes and failed transactions

(* coins_applied_height before the key exists.                             *)
Absent == -1

ASSUME TreeAssumption ==
    /\ NoBlock \notin Block
    /\ Genesis \in Block /\ HeightOf[Genesis] = 0
    /\ \A b \in Block :
          /\ HeightOf[b] \in Nat
          /\ Chain[b] \in [0 .. HeightOf[b] -> Block]
          /\ Chain[b][HeightOf[b]] = b
          /\ \A h \in 0 .. HeightOf[b] :
                /\ HeightOf[Chain[b][h]] = h
                /\ \A k \in 0 .. h : Chain[Chain[b][h]][k] = Chain[b][k]

(* The coins set on which block b builds, and the delta of b there.        *)
DirectBefore(b) ==
    IF HeightOf[b] = 0 THEN NoCoins ELSE Direct[Chain[b][HeightOf[b] - 1]]
Spends(b, c) == SpentOf(Txs[b], HeightOf[b], c)
Adds(b) == AddedOf(Txs[b], HeightOf[b])
Valid(b, c) == ValidBlock(Txs[b], HeightOf[b], c)

ASSUME DirectAssumption ==
    \A b \in Block :
        /\ Len(Txs[b]) \in Nat /\ DOMAIN Txs[b] = 1 .. Len(Txs[b])
        /\ Direct[b] = [op \in DOMAIN Direct[b] |-> Direct[b][op]]
        /\ Valid(b, DirectBefore(b)) =>
              Direct[b] = apply_coins_kv(DirectBefore(b), Adds(b),
                                         Spends(b, DirectBefore(b)))

ASSUME BoundsAssumption ==
    /\ FinalityDepth \in Nat /\ MaxFailures \in Nat
    /\ Bodiless \subseteq Block /\ Snapshots \subseteq Block
    /\ WindowRaces \in BOOLEAN /\ Poison \in BOOLEAN

VARIABLES db, tx,
          pc,           \* where the step stands: see Steps
          at, fork,     \* the next height to invert; the fork point
          window,       \* the block at the top of the active-chain window
          candidate,    \* pindex_best_header
          pv,           \* proof_validate: its cursor, ok=1 and ok=0 rows
          nullifiers,   \* sprout_nullifiers, in node.db
          published,    \* the height active_chain_height() answers
          anchor,       \* the snapshot the coins set started from, if any
          failures

step == <<db, tx, pc, at, fork>>
upstream == <<candidate, pv>>
vars == <<db, tx, pc, at, fork, window, candidate, pv, nullifiers, published,
          anchor, failures>>

(* idle: outside the step; unwinding: inside the unwind's transaction;     *)
(* unwound: stage_run_once is about to run step_apply; applied: step_apply *)
(* has written and returned ADVANCED, COMMIT is next.                      *)
Steps == {"idle", "unwinding", "unwound", "applied"}

Init ==
    /\ db = [cursor |-> 0, applied |-> Absent, coins |-> NoCoins,
             delta |-> NoCoins]
    /\ tx = db
    /\ pc = "idle" /\ at = -1 /\ fork = -1
    /\ window = Genesis /\ candidate = Genesis
    /\ pv = [cursor |-> 0, ok |-> {}, bad |-> {}]
    /\ nullifiers = {}
    /\ published = -1
    /\ anchor = NoBlock /\ failures = 0

-----------------------------------------------------------------------------
(* The active-chain window.                                                *)
HasActive(w, h) == h \in 0 .. HeightOf[w]

(* reducer_extend_window_to_candidate: the window only grows.              *)
Extended == IF HeightOf[candidate] > HeightOf[window] THEN candidate
            ELSE window

(* The recorded branch at height h is the one the window holds.            *)
Matches(w, h) ==
    h \in DOMAIN db.delta /\ HasActive(w, h) /\ db.delta[h].branch = Chain[w][h]

Diverged(w) ==
    /\ db.cursor > 0
    /\ db.cursor - 1 \in DOMAIN db.delta
    /\ HasActive(w, db.cursor - 1)
    /\ db.delta[db.cursor - 1].branch # Chain[w][db.cursor - 1]

(* The walk down from C-2 stops at the first recorded height that matches. *)
IsFork(w, f) ==
    /\ f \in -1 .. db.cursor - 2
    /\ f = -1 \/ Matches(w, f)
    /\ \A h \in f + 1 .. db.cursor - 2 : ~ Matches(w, h)

(* Mutant of reorg_is_allowed: one block deeper.                           *)
reorg_is_allowed_deeper(tip, f) ==
    tip < 0 \/ f >= tip \/ tip - f <= FinalityDepth + 1

(* zcl_reorg_allowed outside initial download.                             *)
reorg_is_allowed(tip, f) == tip < 0 \/ f >= tip \/ tip - f <= FinalityDepth

-----------------------------------------------------------------------------
(* utxo_apply_reorg_unwind_if_needed.                                      *)
SkipUnwind ==
    /\ pc = "idle"
    /\ window' = Extended
    /\ ~ Diverged(Extended)
    /\ pc' = "unwound"
    /\ UNCHANGED <<db, tx, at, fork, upstream, nullifiers, published,
                   anchor, failures>>

BeginUnwind ==
    /\ pc = "idle"
    /\ window' = Extended
    /\ Diverged(Extended)
    /\ \E f \in -1 .. db.cursor - 2 :
          /\ IsFork(Extended, f)
          /\ reorg_is_allowed(db.cursor - 1, f)
          /\ fork' = f
    /\ pc' = "unwinding" /\ at' = db.cursor - 1
    /\ UNCHANGED <<db, tx, upstream, nullifiers, published, anchor,
                   failures>>

RefuseUnwind ==
    /\ pc = "idle"
    /\ window' = Extended
    /\ Diverged(Extended)
    /\ \A f \in -1 .. db.cursor - 2 :
          IsFork(Extended, f) => ~ reorg_is_allowed(db.cursor - 1, f)
    /\ UNCHANGED <<step, upstream, nullifiers, published, anchor,
                   failures>>

(* Mutant of InvertOne: the spent coins are not added back.                *)
InvertOneErasesOnly ==
    /\ pc = "unwinding"
    /\ at > fork
    /\ tx' = [tx EXCEPT !.coins =
                 IF at \in DOMAIN tx.delta
                 THEN emit_inverse_delta(tx.coins, tx.delta[at].added, NoCoins)
                 ELSE tx.coins]
    /\ at' = at - 1
    /\ UNCHANGED <<db, pc, fork, window, upstream, nullifiers, published,
                   anchor, failures>>

(* A height without a delta row has nothing to invert.                     *)
InvertOne ==
    /\ pc = "unwinding"
    /\ at > fork
    /\ tx' = [tx EXCEPT !.coins =
                 IF at \in DOMAIN tx.delta
                 THEN emit_inverse_delta(tx.coins, tx.delta[at].added,
                                         tx.delta[at].spent)
                 ELSE tx.coins]
    /\ at' = at - 1
    /\ UNCHANGED <<db, pc, fork, window, upstream, nullifiers, published,
                   anchor, failures>>

(* Mutant of RowsBelow: one row too many survives.                         *)
RowsBelowOffByOne(d, n) == [h \in {k \in DOMAIN d : k <= n} |-> d[h]]

(* utxo_apply_delete_rows_above.                                           *)
RowsBelow(d, n) == [h \in {k \in DOMAIN d : k < n} |-> d[h]]

(* Mutant of CommitUnwind: the applied frontier is a floor that may not    *)
(* decrease.                                                               *)
CommitUnwindFrontierFloor ==
    /\ pc = "unwinding"
    /\ at = fork
    /\ db' = [tx EXCEPT !.delta = RowsBelow(tx.delta, fork + 1),
                        !.cursor = fork + 1]
    /\ tx' = db'
    /\ pc' = "unwound" /\ at' = -1 /\ fork' = -1
    /\ UNCHANGED <<window, upstream, nullifiers, published, anchor,
                   failures>>

(* Mutant of CommitUnwind: the cursor goes to the fork, not past it.       *)
CommitUnwindToFork ==
    /\ pc = "unwinding"
    /\ at = fork
    /\ db' = [tx EXCEPT !.delta = RowsBelow(tx.delta, fork + 1),
                        !.cursor = fork, !.applied = fork]
    /\ tx' = db'
    /\ pc' = "unwound" /\ at' = -1 /\ fork' = -1
    /\ UNCHANGED <<window, upstream, nullifiers, published, anchor, failures>>

CommitUnwind ==
    /\ pc = "unwinding"
    /\ at = fork
    /\ db' = [tx EXCEPT !.delta = RowsBelow(tx.delta, fork + 1),
                        !.cursor = fork + 1, !.applied = fork + 1]
    /\ tx' = db'
    /\ pc' = "unwound" /\ at' = -1 /\ fork' = -1
    /\ UNCHANGED <<window, upstream, nullifiers, published, anchor,
                   failures>>

-----------------------------------------------------------------------------
(* step_apply, inside stage_run_once's transaction.                        *)
RowReady ==
    /\ db.cursor < pv.cursor
    /\ db.cursor \in pv.ok
    /\ HasActive(window, db.cursor)
    /\ Chain[window][db.cursor] \notin Bodiless
NextBlock == Chain[window][db.cursor]

(* JOB_IDLE: no proof_validate row yet, or no block at that height.        *)
ApplyIdle ==
    /\ pc = "unwound"
    /\ ~ RowReady
    /\ ~ (db.cursor < pv.cursor /\ db.cursor \in pv.bad)
    /\ pc' = "idle"
    /\ UNCHANGED <<db, tx, at, fork, window, upstream, nullifiers, published,
                   anchor, failures>>

(* JOB_BLOCKED: upstream_failed, nullifier_conflict, or a delta that is    *)
(* not ok; the scratch log row is rolled back and the cursor held.         *)
ApplyBlocked ==
    /\ pc = "unwound"
    /\ \/ db.cursor < pv.cursor /\ db.cursor \in pv.bad
       \/ /\ RowReady
          /\ \/ NullifiersOf[NextBlock] \cap nullifiers # {}
             \/ ~ Valid(NextBlock, db.coins)
    /\ pc' = "idle"
    /\ UNCHANGED <<db, tx, at, fork, window, upstream, nullifiers, published,
                   anchor, failures>>

(* The working copy once block b is applied on top of d.                   *)
Applied(d, b) ==
    [cursor  |-> d.cursor + 1,
     applied |-> d.cursor + 1,
     coins   |-> apply_coins_kv(d.coins, Adds(b), Spends(b, d.coins)),
     delta   |-> [h \in DOMAIN d.delta \cup {d.cursor} |->
                     IF h = d.cursor
                     THEN [branch |-> b, spent |-> Spends(b, d.coins),
                           added |-> DOMAIN Adds(b)]
                     ELSE d.delta[h]]]

(* Mutant of ApplyBlock: the nullifier check is gone.                      *)
ApplyBlockNoNullifierCheck ==
    /\ pc = "unwound"
    /\ RowReady
    /\ Valid(NextBlock, db.coins)
    /\ tx' = Applied(db, NextBlock)
    /\ nullifiers' = nullifiers \cup NullifiersOf[NextBlock]
    /\ pc' = "applied"
    /\ UNCHANGED <<db, at, fork, window, upstream, published, anchor, failures>>

(* The nullifiers go to node.db at once, outside the transaction.          *)
ApplyBlock ==
    /\ pc = "unwound"
    /\ RowReady
    /\ NullifiersOf[NextBlock] \cap nullifiers = {}
    /\ Valid(NextBlock, db.coins)
    /\ tx' = Applied(db, NextBlock)
    /\ nullifiers' = nullifiers \cup NullifiersOf[NextBlock]
    /\ pc' = "applied"
    /\ UNCHANGED <<db, at, fork, window, upstream, published, anchor, failures>>

CommitApply ==
    /\ pc = "applied"
    /\ db' = tx
    /\ pc' = "idle"
    /\ UNCHANGED <<tx, at, fork, window, upstream, nullifiers, published, anchor,
                   failures>>

(* Mutant of StepFails: the error path returns without ROLLBACK.           *)
StepFailsWithoutRollback ==
    /\ pc # "idle"
    /\ failures < MaxFailures
    /\ pc' = "idle" /\ at' = -1 /\ fork' = -1
    /\ failures' = failures + 1
    /\ UNCHANGED <<db, tx, window, upstream, nullifiers, published, anchor>>

(* An SQLite call or an allocation fails: ROLLBACK, JOB_FATAL (or          *)
(* internal_error and JOB_BLOCKED).                                        *)
StepFails ==
    /\ pc # "idle"
    /\ failures < MaxFailures
    /\ tx' = db
    /\ pc' = "idle" /\ at' = -1 /\ fork' = -1
    /\ failures' = failures + 1
    /\ UNCHANGED <<db, window, upstream, nullifiers, published, anchor>>

-----------------------------------------------------------------------------
(* Mutant of Backfilled: the last applied height instead of the next one.  *)
BackfilledLastApplied(d) ==
    IF d.applied = Absent /\ d.cursor > 0
    THEN [d EXCEPT !.applied = d.cursor - 1]
    ELSE d

(* coins_kv_backfill_applied_height_if_absent, at utxo_apply_stage_init.   *)
Backfilled(d) ==
    IF d.applied = Absent /\ d.cursor > 0 THEN [d EXCEPT !.applied = d.cursor]
    ELSE d

(* The process dies and boots again: the open transaction is gone, and the *)
(* window restarts from a stored tip, which may lie above the coins.       *)
Crash(b) ==
    /\ failures < MaxFailures
    /\ b = candidate \/ HeightOf[b] < HeightOf[candidate]
    /\ db' = Backfilled(db) /\ tx' = Backfilled(db)
    /\ pc' = "idle" /\ at' = -1 /\ fork' = -1
    /\ window' = b /\ published' = HeightOf[b]
    /\ failures' = failures + 1
    /\ UNCHANGED <<upstream, nullifiers, anchor>>

Larger(m, n) == IF m >= n THEN m ELSE n
Smaller(m, n) == IF m <= n THEN m ELSE n

(* Mutant of AnchorTarget: no cap.                                         *)
AnchorTargetUncapped(b) == HeightOf[b] + 1

(* anchor_target_for_stage: the utxo_apply target is capped by the applied *)
(* frontier once the key exists.                                           *)
AnchorTarget(b) ==
    IF db.applied = Absent THEN HeightOf[b] + 1
    ELSE Smaller(HeightOf[b] + 1, db.applied)

(* A snapshot at b is activated: on a cold start its coins are loaded; the *)
(* stages behind it are moved up to it (tip_finalize_stage_seed_anchor,    *)
(* stage_anchor_upstream_cursors_to).                                      *)
SeedSnapshot(b) ==
    /\ pc = "idle"
    /\ b \in Snapshots
    /\ db.cursor = 0 \/ db.applied # Absent
    /\ LET cold == db.cursor = 0 /\ db.applied = Absent IN
       /\ db' = [db EXCEPT !.cursor = Larger(db.cursor, AnchorTarget(b)),
                           !.coins = IF cold THEN Direct[b] ELSE db.coins]
       /\ anchor' = IF cold THEN b ELSE anchor
    /\ tx' = db'
    /\ pv' = [pv EXCEPT !.cursor = Larger(pv.cursor, HeightOf[b] + 1)]
    /\ candidate' = IF HeightOf[b] > HeightOf[candidate] THEN b ELSE candidate
    /\ window' = b /\ published' = HeightOf[b]
    /\ UNCHANGED <<pc, at, fork, nullifiers, failures>>

-----------------------------------------------------------------------------
(* The rest of the node, as far as this stage sees it.                     *)
(* A better header arrives (more work is a greater height here).           *)
NewCandidate(b) ==
    /\ HeightOf[b] > HeightOf[candidate]
    /\ candidate' = b
    /\ UNCHANGED <<step, window, pv, nullifiers, published, anchor, failures>>

(* proof_validate commits its row at its cursor.                           *)
ProofValidate(ok) ==
    /\ pc = "idle"
    /\ pv.cursor <= HeightOf[candidate]
    /\ pv' = [cursor |-> pv.cursor + 1,
              ok  |-> IF ok THEN pv.ok \cup {pv.cursor} ELSE pv.ok \ {pv.cursor},
              bad |-> IF ok THEN pv.bad \ {pv.cursor} ELSE pv.bad \cup {pv.cursor}]
    /\ UNCHANGED <<step, window, candidate, nullifiers, published, anchor,
                   failures>>

(* tip_finalize, at whatever height h with an ok row its cursor stands:    *)
(* the window collapses to the block above h, and h is published unless    *)
(* the new tip would lie below what is published already.                  *)
TipFinalize(h) ==
    /\ pc = "idle"
    /\ h \in DOMAIN db.delta
    /\ HasActive(window, h + 1)
    /\ window' = Chain[window][h + 1]
    /\ published' = IF h + 1 >= published THEN h ELSE published
    /\ UNCHANGED <<step, upstream, nullifiers, anchor, failures>>

(* Another thread's drive extends the window while a step is under way:    *)
(* the window is not under the progress-store lock.                        *)
RacingExtend ==
    /\ WindowRaces
    /\ pc = "unwound"
    /\ HeightOf[candidate] > HeightOf[window]
    /\ window' = candidate
    /\ UNCHANGED <<step, upstream, nullifiers, published, anchor, failures>>

(* Mutant of PoisonRewind: rows that succeeded do not refuse it.           *)
PoisonRewindUnguarded ==
    LET h == published + 1 IN
    /\ Poison
    /\ pc = "idle"
    /\ db' = [db EXCEPT !.delta = RowsBelow(db.delta, h),
                        !.cursor = h, !.applied = h]
    /\ tx' = db'
    /\ pv' = [pv EXCEPT !.cursor = h, !.bad = {k \in pv.bad : k < h}]
    /\ UNCHANGED <<pc, at, fork, window, candidate, nullifiers, published, anchor,
                   failures>>

(* stage_repair_header_solution_poison_rewind at the published tip + 1:    *)
(* refused when a row at or above it succeeded; otherwise the rows go and  *)
(* every downstream cursor is forced to that height.                       *)
PoisonRewind ==
    LET h == published + 1 IN
    /\ Poison
    /\ pc = "idle"
    /\ \A k \in DOMAIN db.delta \cup pv.ok : k < h
    /\ db' = [db EXCEPT !.delta = RowsBelow(db.delta, h),
                        !.cursor = h, !.applied = h]
    /\ tx' = db'
    /\ pv' = [pv EXCEPT !.cursor = h, !.bad = {k \in pv.bad : k < h}]
    /\ UNCHANGED <<pc, at, fork, window, candidate, nullifiers, published, anchor,
                   failures>>

(* stale_script_replay_tx for a failed row at h at or above the frontier:  *)
(* the proof rows from the frontier on are dropped and made again.  (Its   *)
(* coin rewind is for rows below the frontier, which this stage never      *)
(* passes.)                                                                *)
StaleScriptReplay(h) ==
    /\ pc = "idle"
    /\ db.applied # Absent
    /\ h \in pv.bad /\ h < pv.cursor /\ h >= db.applied
    /\ db.cursor <= db.applied
    /\ pv' = [cursor |-> db.applied, ok |-> {k \in pv.ok : k < db.applied},
              bad |-> {k \in pv.bad : k < db.applied}]
    /\ UNCHANGED <<step, window, candidate, nullifiers, published, anchor,
                   failures>>

StepOnce ==
    \/ SkipUnwind \/ BeginUnwind \/ RefuseUnwind \/ InvertOne \/ CommitUnwind
    \/ ApplyIdle \/ ApplyBlocked \/ ApplyBlock \/ CommitApply

Next ==
    \/ StepOnce
    \/ StepFails
    \/ \E b \in Block : Crash(b) \/ SeedSnapshot(b) \/ NewCandidate(b)
    \/ \E ok \in BOOLEAN : ProofValidate(ok)
    \/ \E h \in DOMAIN db.delta : TipFinalize(h)
    \/ RacingExtend
    \/ PoisonRewind
    \/ \E h \in pv.bad : StaleScriptReplay(h)

Spec == Init /\ [][Next]_vars

(* The supervisor ticks the stage for ever, and a step runs to its end.    *)
FairSpec == Spec /\ WF_vars(StepOnce)

-----------------------------------------------------------------------------
Database(d) ==
    /\ DOMAIN d = {"cursor", "applied", "coins", "delta"}
    /\ d.cursor \in Nat /\ d.applied \in Nat \cup {Absent}
    /\ DOMAIN d.delta \subseteq Nat
    /\ \A h \in DOMAIN d.delta : d.delta[h].branch \in Block

(* The state has its shape, and a transaction's copy differs from what is  *)
(* durable only while the transaction is open.                             *)
TypeOK ==
    /\ Database(db) /\ Database(tx)
    /\ pc \in Steps
    /\ at \in Nat \cup {-1} /\ fork \in Nat \cup {-1}
    /\ window \in Block /\ candidate \in Block
    /\ pv \in [cursor : Nat, ok : SUBSET Nat, bad : SUBSET Nat]
    /\ published \in Nat \cup {-1}
    /\ anchor \in Block \cup {NoBlock}
    /\ failures \in 0 .. MaxFailures
    /\ pc \in {"idle", "unwound"} => tx = db

(* "coins_applied_height == utxo_apply cursor by construction": once the   *)
(* frontier key exists, every writer of the cursor (apply, unwind, poison  *)
(* repair, snapshot seeding, backfill) leaves the two equal, whatever      *)
(* crashes or fails in between.                                            *)
FrontierIsCursor == db.applied \in {Absent, db.cursor}

(* The last applied block: the branch of the top delta row, or the         *)
(* snapshot the coins started from.                                        *)
AppliedTip(d) ==
    IF d.cursor = 0 THEN NoBlock
    ELSE IF d.cursor - 1 \in DOMAIN d.delta THEN d.delta[d.cursor - 1].branch
    ELSE anchor
CoinsOf(b) == IF b = NoBlock THEN NoCoins ELSE Direct[b]

(* The applied heights are one chain: the top block stands at cursor - 1,  *)
(* the rows below it are its ancestors, and no height between the snapshot *)
(* (or genesis) and the cursor is missing.                                 *)
AppliedIsChain ==
    LET top == AppliedTip(db) IN
    db.cursor > 0 =>
        /\ top \in Block /\ HeightOf[top] = db.cursor - 1
        /\ DOMAIN db.delta =
              (IF anchor = NoBlock THEN 0 ELSE HeightOf[anchor] + 1)
                  .. db.cursor - 1
        /\ \A h \in DOMAIN db.delta : db.delta[h].branch = Chain[top][h]

(* "a reorged projection is byte-identical to a direct build of the        *)
(* winning branch": the coins are those of a direct build up to the last   *)
(* applied block, after any sequence of reorgs, crashes and errors.        *)
CoinsMatchBranch == db.coins = CoinsOf(AppliedTip(db))

(* No two applied blocks carry the same Sprout nullifier, reorgs and       *)
(* crashes included.                                                       *)
NullifiersUnique ==
    \A h, k \in DOMAIN db.delta : h # k =>
        NullifiersOf[db.delta[h].branch]
            \cap NullifiersOf[db.delta[k].branch] = {}

(* A step never takes back more than ZCL_FINALITY_DEPTH blocks.            *)
FinalityRespected ==
    [][db'.cursor < db.cursor => db.cursor - db'.cursor <= FinalityDepth]_vars

(* Once proof_validate has an ok row for every block of the best chain     *)
(* above the snapshot and the bodies are there, the coins get to its tip   *)
(* and stay there, unless the reorg to it is deeper than finality allows   *)
(* or forks at or below the snapshot, where the walk finds no recorded     *)
(* branch (both are refused for ever), or its next block repeats a stored  *)
(* nullifier (JOB_BLOCKED).                                                *)
AboveSnapshot == IF anchor = NoBlock THEN 0 ELSE HeightOf[anchor] + 1
UpstreamDone == \A h \in AboveSnapshot .. HeightOf[candidate] :
                   /\ h < pv.cursor /\ h \in pv.ok
                   /\ Chain[candidate][h] \notin Bodiless
Shared(b, c) == {h \in 0 .. Smaller(HeightOf[b], HeightOf[c]) :
                    Chain[b][h] = Chain[c][h]}
TooDeep ==
    LET top == AppliedTip(db) IN
    /\ db.cursor > 0 /\ Chain[candidate][db.cursor - 1] # top
    /\ \A f \in Shared(top, candidate) :
          f < AboveSnapshot \/ HeightOf[top] - f > FinalityDepth
Conflict ==
    /\ HasActive(candidate, db.cursor)
    /\ NullifiersOf[Chain[candidate][db.cursor]] \cap nullifiers # {}
Converges ==
    <>[]UpstreamDone =>
        <>[](AppliedTip(db) = candidate \/ TooDeep \/ Conflict)
=============================================================================
