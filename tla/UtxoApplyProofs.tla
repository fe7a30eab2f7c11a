-------------------------- MODULE UtxoApplyProofs ---------------------------
(***************************************************************************)
(* What holds of utxo_apply with every repair, race, crash and failed      *)
(* transaction allowed, for every block tree: the type of its state, the   *)
(* applied frontier equal to the cursor, and the finality depth.  Frame,   *)
(* the inductive invariant, adds to the type what an open transaction may  *)
(* hold at each step of the stage.                                         *)
(***************************************************************************)
EXTENDS UtxoApply, TLAPS

(* The window's blocks are blocks.                                         *)
LEMMA ActiveIsBlock ==
    ASSUME NEW w \in Block, NEW h, HasActive(w, h)
    PROVE  h \in Nat /\ Chain[w][h] \in Block /\ HeightOf[Chain[w][h]] = h
BY TreeAssumption DEF HasActive

LEMMA ExtendedIsBlock ==
    window \in Block /\ candidate \in Block => Extended \in Block
BY DEF Extended

LEMMA AppliedIsDatabase ==
    ASSUME NEW d, Database(d), NEW b \in Block
    PROVE  /\ Database(Applied(d, b))
           /\ Applied(d, b).cursor = d.cursor + 1
           /\ Applied(d, b).applied = d.cursor + 1
<1>1. d.cursor \in Nat /\ d.cursor + 1 \in Nat
  BY DEF Database
<1>2. /\ DOMAIN Applied(d, b) = {"cursor", "applied", "coins", "delta"}
      /\ Applied(d, b).cursor = d.cursor + 1
      /\ Applied(d, b).applied = d.cursor + 1
  BY DEF Applied
<1>3. DOMAIN Applied(d, b).delta = DOMAIN d.delta \cup {d.cursor}
  BY DEF Applied
<1>4. \A h \in DOMAIN Applied(d, b).delta :
          Applied(d, b).delta[h].branch \in Block
  BY DEF Applied, Database
<1> QED BY <1>1, <1>2, <1>3, <1>4 DEF Database

LEMMA TypeInit == Init => TypeOK
<1> SUFFICES ASSUME Init PROVE TypeOK
  OBVIOUS
<1>1. Database(db)
  BY DEF Init, Database, NoCoins
<1> QED BY <1>1, TreeAssumption, BoundsAssumption DEF Init, TypeOK, Steps

-----------------------------------------------------------------------------
(* Types, one step per action.                                             *)
LEMMA RowsBelowKeepsType ==
    ASSUME NEW d, NEW n,
           DOMAIN d \subseteq Nat, \A h \in DOMAIN d : d[h].branch \in Block
    PROVE  /\ DOMAIN RowsBelow(d, n) \subseteq Nat
           /\ \A h \in DOMAIN RowsBelow(d, n) :
                 RowsBelow(d, n)[h].branch \in Block
BY DEF RowsBelow

LEMMA TypeStep == TypeOK /\ [Next]_vars => TypeOK'
<1> SUFFICES ASSUME TypeOK, [Next]_vars PROVE TypeOK'
  OBVIOUS
<1> USE DEF TypeOK, Steps
<1>1. CASE UNCHANGED vars
  BY <1>1 DEF vars, Database
<1>2. ASSUME SkipUnwind PROVE TypeOK'
  BY <1>2, ExtendedIsBlock DEF SkipUnwind, upstream, Database
<1>3. ASSUME BeginUnwind PROVE TypeOK'
  <2>1. PICK f \in -1 .. db.cursor - 2 : fork' = f
    BY <1>3, SMTT(30) DEF BeginUnwind
  <2>2. db.cursor \in Nat /\ db.cursor > 0
    BY <1>3 DEF BeginUnwind, Diverged, Database
  <2>3. fork' \in Nat \cup {-1} /\ at' \in Nat \cup {-1}
    BY <1>3, <2>1, <2>2 DEF BeginUnwind
  <2> QED BY <1>3, <2>3, ExtendedIsBlock DEF BeginUnwind, upstream, Database
<1>4. ASSUME RefuseUnwind PROVE TypeOK'
  BY <1>4, ExtendedIsBlock DEF RefuseUnwind, step, upstream, Database
<1>5. ASSUME InvertOne PROVE TypeOK'
  <2>1. at \in Nat /\ at' \in Nat \cup {-1}
    BY <1>5 DEF InvertOne
  <2>2. Database(tx')
    BY <1>5 DEF InvertOne, Database
  <2> QED BY <1>5, <2>1, <2>2 DEF InvertOne, upstream, Database
<1>6. ASSUME CommitUnwind PROVE TypeOK'
  <2>1. fork + 1 \in Nat
    OBVIOUS
  <2>2. /\ DOMAIN RowsBelow(tx.delta, fork + 1) \subseteq Nat
        /\ \A h \in DOMAIN RowsBelow(tx.delta, fork + 1) :
              RowsBelow(tx.delta, fork + 1)[h].branch \in Block
    BY RowsBelowKeepsType DEF Database
  <2>3. Database(db')
    BY <1>6, <2>1, <2>2 DEF CommitUnwind, Database
  <2> QED BY <1>6, <2>3 DEF CommitUnwind, upstream, Database
<1>7. ASSUME ApplyIdle PROVE TypeOK'
  BY <1>7 DEF ApplyIdle, upstream, Database
<1>8. ASSUME ApplyBlocked PROVE TypeOK'
  BY <1>8 DEF ApplyBlocked, upstream, Database
<1>9. ASSUME ApplyBlock PROVE TypeOK'
  <2>1. NextBlock \in Block
    BY <1>9, ActiveIsBlock DEF ApplyBlock, RowReady, NextBlock
  <2>2. Database(tx')
    BY <1>9, <2>1, AppliedIsDatabase DEF ApplyBlock
  <2> QED BY <1>9, <2>2, SMTT(30) DEF ApplyBlock, upstream, Database
<1>10. ASSUME CommitApply PROVE TypeOK'
  BY <1>10 DEF CommitApply, upstream, Database
<1>11. ASSUME StepFails PROVE TypeOK'
  BY <1>11, BoundsAssumption DEF StepFails, upstream, Database
<1>12. ASSUME NEW b \in Block, Crash(b) PROVE TypeOK'
  <2>1. Database(Backfilled(db))
    BY DEF Backfilled, Database
  <2>2. HeightOf[b] \in Nat
    BY TreeAssumption
  <2> QED BY <1>12, <2>1, <2>2, BoundsAssumption DEF Crash, upstream, Database
<1>13. ASSUME NEW b \in Block, SeedSnapshot(b) PROVE TypeOK'
  <2>1. HeightOf[b] \in Nat /\ db.cursor \in Nat /\ pv.cursor \in Nat
    BY TreeAssumption DEF Database
  <2>2. AnchorTarget(b) \in Nat
    BY <2>1 DEF AnchorTarget, Smaller, Database
  <2>3. /\ Larger(db.cursor, AnchorTarget(b)) \in Nat
        /\ Larger(pv.cursor, HeightOf[b] + 1) \in Nat
    BY <2>1, <2>2 DEF Larger
  <2>4. Database(db')
    BY <1>13, <2>3 DEF SeedSnapshot, Database
  <2>5. pv' \in [cursor : Nat, ok : SUBSET Nat, bad : SUBSET Nat]
    BY <1>13, <2>3 DEF SeedSnapshot
  <2>6. anchor' \in Block \cup {NoBlock} /\ candidate' \in Block
    BY <1>13 DEF SeedSnapshot
  <2> QED BY <1>13, <2>1, <2>4, <2>5, <2>6 DEF SeedSnapshot, Database
<1>14. ASSUME NEW b \in Block, NewCandidate(b) PROVE TypeOK'
  BY <1>14 DEF NewCandidate, step, Database
<1>15. ASSUME NEW ok \in BOOLEAN, ProofValidate(ok) PROVE TypeOK'
  <2>1. pv' \in [cursor : Nat, ok : SUBSET Nat, bad : SUBSET Nat]
    BY <1>15 DEF ProofValidate
  <2> QED BY <1>15, <2>1 DEF ProofValidate, step, Database
<1>16. ASSUME NEW h \in DOMAIN db.delta, TipFinalize(h) PROVE TypeOK'
  <2>1. h \in Nat
    BY DEF Database
  <2>2. Chain[window][h + 1] \in Block
    BY <1>16, ActiveIsBlock DEF TipFinalize
  <2> QED BY <1>16, <2>1, <2>2 DEF TipFinalize, step, upstream, Database
<1>17. ASSUME RacingExtend PROVE TypeOK'
  BY <1>17 DEF RacingExtend, step, upstream, Database
<1>18. ASSUME PoisonRewind PROVE TypeOK'
  <2>1. published + 1 \in Nat
    OBVIOUS
  <2>2. /\ DOMAIN RowsBelow(db.delta, published + 1) \subseteq Nat
        /\ \A h \in DOMAIN RowsBelow(db.delta, published + 1) :
              RowsBelow(db.delta, published + 1)[h].branch \in Block
    BY RowsBelowKeepsType DEF Database
  <2>3. Database(db')
    BY <1>18, <2>1, <2>2 DEF PoisonRewind, Database
  <2>4. pv' \in [cursor : Nat, ok : SUBSET Nat, bad : SUBSET Nat]
    BY <1>18, <2>1, ZenonT(30) DEF PoisonRewind
  <2> QED BY <1>18, <2>3, <2>4, ZenonT(30) DEF PoisonRewind, Database
<1>19. ASSUME NEW h \in pv.bad, StaleScriptReplay(h) PROVE TypeOK'
  <2>1. pv' \in [cursor : Nat, ok : SUBSET Nat, bad : SUBSET Nat]
    BY <1>19 DEF StaleScriptReplay, Database
  <2> QED BY <1>19, <2>1 DEF StaleScriptReplay, step, Database
<1> QED
  BY <1>1, <1>2, <1>3, <1>4, <1>5, <1>6, <1>7, <1>8, <1>9, <1>10, <1>11, ZenonT(30),
     <1>12, <1>13, <1>14, <1>15, <1>16, <1>17, <1>18, <1>19
  DEF Next, StepOnce

(* TypeOK holds for every tree of blocks and every bound: in particular a  *)
(* transaction's working copy never outlives its transaction.              *)
THEOREM TypeCorrect == Spec => []TypeOK
<1> QED BY TypeInit, TypeStep, PTL DEF Spec

-----------------------------------------------------------------------------
(* What the open transaction may hold: an unwind touches only the coins    *)
(* before its end, and goes no deeper than finality allows; an apply moves *)
(* cursor and frontier up by one.                                          *)
OpenTransaction ==
    /\ pc = "unwinding" =>
          /\ tx.delta = db.delta
          /\ fork < db.cursor - 1
          /\ db.cursor - 1 - fork <= FinalityDepth
    /\ pc = "applied" => /\ tx.cursor = db.cursor + 1
                         /\ tx.applied = tx.cursor

Frame == TypeOK /\ OpenTransaction /\ FrontierIsCursor

LEMMA FrameInit == Init => Frame
BY TypeInit DEF Init, Frame, OpenTransaction, FrontierIsCursor

LEMMA FrameStep == Frame /\ [Next]_vars => Frame'
<1> SUFFICES ASSUME Frame, [Next]_vars
             PROVE  OpenTransaction' /\ FrontierIsCursor'
  BY TypeStep DEF Frame
<1> DEFINE Rest == OpenTransaction' /\ FrontierIsCursor'
<1>0. /\ TypeOK /\ Database(db) /\ Database(tx)
      /\ db.cursor \in Nat /\ pc \in Steps
  BY DEF Frame, TypeOK, Database
<1> USE DEF Frame, OpenTransaction, FrontierIsCursor
<1>1. CASE UNCHANGED vars
  BY <1>1 DEF vars
<1>2. ASSUME SkipUnwind PROVE Rest
  BY <1>2 DEF SkipUnwind
<1>3. ASSUME BeginUnwind PROVE Rest
  <2>1. pc = "idle" /\ tx = db
    BY <1>3 DEF BeginUnwind, TypeOK
  <2>2. PICK f \in -1 .. db.cursor - 2 :
           reorg_is_allowed(db.cursor - 1, f) /\ fork' = f
    BY <1>3 DEF BeginUnwind
  <2>3. db.cursor > 0
    BY <1>3 DEF BeginUnwind, Diverged
  <2>4. fork' < db.cursor - 1 /\ db.cursor - 1 - fork' <= FinalityDepth
    BY <1>0, <2>2, <2>3 DEF reorg_is_allowed
  <2> QED BY <1>3, <2>1, <2>4 DEF BeginUnwind
<1>4. ASSUME RefuseUnwind PROVE Rest
  BY <1>4 DEF RefuseUnwind, step
<1>5. ASSUME InvertOne PROVE Rest
  BY <1>0, <1>5 DEF InvertOne, Database
<1>6. ASSUME CommitUnwind PROVE Rest
  BY <1>0, <1>6 DEF CommitUnwind, Database
<1>7. ASSUME ApplyIdle PROVE Rest
  BY <1>7 DEF ApplyIdle
<1>8. ASSUME ApplyBlocked PROVE Rest
  BY <1>8 DEF ApplyBlocked
<1>9. ASSUME ApplyBlock PROVE Rest
  <2>1. tx'.cursor = db.cursor + 1 /\ tx'.applied = db.cursor + 1
    BY <1>9 DEF ApplyBlock, Applied
  <2> QED BY <1>9, <2>1 DEF ApplyBlock
<1>10. ASSUME CommitApply PROVE Rest
  BY <1>10 DEF CommitApply
<1>11. ASSUME StepFails PROVE Rest
  BY <1>11 DEF StepFails
<1>12. ASSUME NEW b \in Block, Crash(b) PROVE Rest
  BY <1>0, <1>12 DEF Crash, Backfilled, Database
<1>13. ASSUME NEW b \in Block, SeedSnapshot(b) PROVE Rest
  <2>1. /\ HeightOf[b] \in Nat
        /\ db'.cursor = Larger(db.cursor, AnchorTarget(b))
        /\ db'.applied = db.applied
    BY <1>0, <1>13, TreeAssumption DEF SeedSnapshot, Database
  <2>2. db.applied # Absent => db'.cursor = db.cursor
    BY <1>0, <2>1 DEF Larger, Smaller, AnchorTarget
  <2> QED BY <1>13, <2>1, <2>2 DEF SeedSnapshot
<1>14. ASSUME NEW b \in Block, NewCandidate(b) PROVE Rest
  BY <1>14 DEF NewCandidate, step
<1>15. ASSUME NEW ok \in BOOLEAN, ProofValidate(ok) PROVE Rest
  BY <1>15 DEF ProofValidate, step
<1>16. ASSUME NEW h \in DOMAIN db.delta, TipFinalize(h) PROVE Rest
  BY <1>16 DEF TipFinalize, step
<1>17. ASSUME RacingExtend PROVE Rest
  BY <1>17 DEF RacingExtend, step
<1>18. ASSUME PoisonRewind PROVE Rest
  BY <1>0, <1>18 DEF PoisonRewind, Database
<1>19. ASSUME NEW h \in pv.bad, StaleScriptReplay(h) PROVE Rest
  BY <1>19 DEF StaleScriptReplay, step
<1> QED
  BY <1>1, <1>2, <1>3, <1>4, <1>5, <1>6, <1>7, <1>8, <1>9, <1>10, <1>11, ZenonT(30),
     <1>12, <1>13, <1>14, <1>15, <1>16, <1>17, <1>18, <1>19
  DEF Next, StepOnce

(* coins_applied_height and the utxo_apply cursor are equal once the key   *)
(* exists, with every repair and every race allowed.                       *)
THEOREM FrontierTracksCursor == Spec => []FrontierIsCursor
<1>1. Frame => FrontierIsCursor
  BY DEF Frame
<1> QED BY <1>1, FrameInit, FrameStep, PTL DEF Spec

(* Without the header-poison repair no step, and in particular no reorg,   *)
(* moves the coins back by more than ZCL_FINALITY_DEPTH blocks.            *)
THEOREM FinalityKept == ASSUME ~ Poison PROVE Spec => FinalityRespected
<1> DEFINE Bounded ==
      db'.cursor < db.cursor => db.cursor - db'.cursor <= FinalityDepth
<1>1. ASSUME Frame, [Next]_vars PROVE [Bounded]_vars
  <2>0. /\ Database(db) /\ Database(tx) /\ db.cursor \in Nat
        /\ fork \in Nat \cup {-1}
    BY <1>1 DEF Frame, TypeOK, Database
  <2>1. ASSUME CommitUnwind PROVE Bounded
    <3>1. db'.cursor = fork + 1
      BY <2>0, <2>1 DEF CommitUnwind, Database
    <3>2. db.cursor - 1 - fork <= FinalityDepth
      BY <1>1, <2>1 DEF Frame, OpenTransaction, CommitUnwind
    <3> QED BY <2>0, <3>1, <3>2
  <2>2. ASSUME CommitApply PROVE Bounded
    BY <1>1, <2>0, <2>2 DEF CommitApply, Frame, OpenTransaction
  <2>3. ASSUME NEW b \in Block, SeedSnapshot(b) PROVE Bounded
    <3>1. HeightOf[b] \in Nat /\ db.applied \in Nat \cup {Absent}
      BY <2>0, TreeAssumption DEF Database
    <3>2. AnchorTarget(b) \in Nat
      BY <3>1 DEF AnchorTarget, Smaller
    <3>3. db'.cursor = Larger(db.cursor, AnchorTarget(b))
      BY <2>0, <2>3 DEF SeedSnapshot, Database
    <3> QED BY <2>0, <3>2, <3>3 DEF Larger
  <2>4. ASSUME NEW b \in Block, Crash(b) PROVE Bounded
    BY <2>0, <2>4 DEF Crash, Backfilled, Database
  <2>5. ASSUME db' = db PROVE Bounded
    BY <2>0, <2>5
  <2> QED
    BY <1>1, <2>1, <2>2, <2>3, <2>4, <2>5, SMTT(30)
    DEF Next, StepOnce, vars, step, SkipUnwind, BeginUnwind, RefuseUnwind,
        InvertOne, ApplyIdle, ApplyBlocked, ApplyBlock, StepFails,
        NewCandidate, ProofValidate, TipFinalize, RacingExtend, PoisonRewind,
        StaleScriptReplay
<1> QED BY <1>1, FrameInit, FrameStep, PTL DEF Spec, FinalityRespected
=============================================================================
