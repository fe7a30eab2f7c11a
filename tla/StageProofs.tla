---------------------------- MODULE StageProofs ----------------------------
(***************************************************************************)
(* The stage runner keeps its promise for any number of stages and         *)
(* threads and any cursor bound.  The inductive invariant adds to the two  *)
(* properties of Stage that an open transaction is held under the lock and *)
(* that what it holds is exactly the heights its step was asked to cover.  *)
(***************************************************************************)
EXTENDS Stage, TLAPS

IInv == /\ TypeOK
        /\ LockedWhileOpen
        /\ ReadStillCurrent
        /\ CursorCovered
        /\ PendingIsStepOutput

(* The job record of a thread that runs nothing is well formed.            *)
LEMMA NoJobType == NoJob \in Job
<1>1. (CHOOSE s \in Stage : TRUE) \in Stage
  BY StageAssumption
<1>2. 0 \in Height
  BY StageAssumption DEF Height
<1> QED BY <1>1, <1>2 DEF NoJob, Job, Verdict

LEMMA InitInv == Init => IInv
<1> SUFFICES ASSUME Init PROVE IInv
  OBVIOUS
<1>1. TypeOK
  BY NoJobType, StageAssumption DEF Init, TypeOK, Height
<1>2. CursorCovered
  BY SMTT(30) DEF Init, CursorCovered, Height
<1> QED BY <1>1, <1>2 DEF Init, IInv, LockedWhileOpen, ReadStillCurrent,
                          PendingIsStepOutput

-----------------------------------------------------------------------------
(* Types, one step per action.                                             *)
LEMMA TypeStep == TypeOK /\ [Next]_vars => TypeOK'
<1> SUFFICES ASSUME TypeOK, [Next]_vars PROVE TypeOK'
  OBVIOUS
<1> USE DEF TypeOK, Height
<1>1. ASSUME NEW t \in Thread, NEW s \in Stage, RunOnceBegin(t, s)
      PROVE  TypeOK'
  BY <1>1, StageAssumption DEF RunOnceBegin, NewJob, Job, Verdict
<1>2. ASSUME NEW t \in Thread, NEW s \in Stage, RunOnceRefused(t, s)
      PROVE  TypeOK'
  BY <1>2, StageAssumption DEF RunOnceRefused, stage_note_fatal
<1>3. ASSUME NEW t \in Thread, Step(t)
      PROVE  TypeOK'
  <2>1. PICK v \in Verdict, n \in 0 .. MaxBatch :
           /\ job[t].cur + n \in Height
           /\ job' = [job EXCEPT ![t].verdict = v,
                                 ![t].out = job[t].cur + n]
           /\ pending' = job[t].cur .. job[t].cur + n - 1
    BY <1>3, ZenonT(30) DEF Step
  <2>2. job' \in [Thread -> Job]
    BY <2>1, ZenonT(30) DEF Job
  <2>3. job[t].cur \in 0 .. MaxCursor
    BY DEF Job
  <2>4. pending' \in SUBSET Height
    <3>1. /\ n \in Nat /\ job[t].cur + n <= MaxCursor
          /\ job[t].cur \in Nat /\ MaxCursor \in Nat
      BY <2>1, <2>3, StageAssumption
    <3>2. job[t].cur .. job[t].cur + n - 1 \subseteq 0 .. MaxCursor
      BY <3>1
    <3> QED BY <2>1, <3>2
  <2> QED BY <1>3, <2>2, <2>4 DEF Step
<1>4. ASSUME NEW t \in Thread, Commit(t)
      PROVE  TypeOK'
  BY <1>4, NoJobType, StageAssumption, ZenonT(30) DEF Commit, Release, Job
<1>5. ASSUME NEW t \in Thread, RollbackFatal(t)
      PROVE  TypeOK'
  BY <1>5, NoJobType, StageAssumption
     DEF RollbackFatal, Release, stage_note_fatal
<1>6. ASSUME NEW t \in Thread, RollbackBlocked(t)
      PROVE  TypeOK'
  BY <1>6, NoJobType, StageAssumption DEF RollbackBlocked, Release, Job
<1>7. ASSUME NEW t \in Thread, RollbackIdle(t)
      PROVE  TypeOK'
  BY <1>7, NoJobType, StageAssumption DEF RollbackIdle, Release
<1>8. ASSUME NEW s \in Stage, NEW v \in Height,
             \/ SetCursor(s, v)
             \/ SetNamedCursorIfBehind(s, v)
             \/ ForceStageCursor(s, v)
      PROVE  TypeOK'
  <2>1. placed' \in [Stage -> SUBSET Height]
    BY <1>8, StageAssumption DEF SetCursor, SetNamedCursorIfBehind,
                                 ForceStageCursor, CarriedOver
  <2> QED BY <1>8, <2>1, ZenonT(30) DEF SetCursor, SetNamedCursorIfBehind,
                            ForceStageCursor
<1>9. CASE Crash
  BY <1>9, NoJobType, StageAssumption DEF Crash
<1>10. CASE UNCHANGED vars
  BY <1>10 DEF vars
<1> QED BY <1>1, <1>2, <1>3, <1>4, <1>5, <1>6, <1>7, <1>8, <1>9, <1>10
        DEF Next

-----------------------------------------------------------------------------
(* The rest of the inductive invariant.                                    *)
LEMMA InvStep == IInv /\ [Next]_vars => IInv'
<1> SUFFICES ASSUME IInv, [Next]_vars PROVE IInv'
  OBVIOUS
<1>0. TypeOK'
  BY TypeStep DEF IInv
<1>t. /\ cursor \in [Stage -> Nat]
      /\ pc \in [Thread -> {"idle", "begun", "stepped"}]
      /\ job \in [Thread -> Job]
      /\ rows \in [Stage -> SUBSET Height]
      /\ placed \in [Stage -> SUBSET Height]
      /\ \A t \in Thread : job[t].stage \in Stage /\ job[t].cur \in Nat
                             /\ job[t].out \in Nat
  BY StageAssumption DEF IInv, TypeOK, Height, Job
<1> USE DEF LockedWhileOpen, ReadStillCurrent, PendingIsStepOutput
<1> DEFINE Rest == /\ LockedWhileOpen' /\ ReadStillCurrent'
                   /\ CursorCovered' /\ PendingIsStepOutput'
<1>1. ASSUME NEW t \in Thread, NEW s \in Stage, RunOnceBegin(t, s)
      PROVE  Rest
  <2>1. LockedWhileOpen' /\ PendingIsStepOutput'
    BY <1>1, <1>t, StageAssumption DEF IInv, RunOnceBegin
  <2>2. ReadStillCurrent'
    BY <1>1, <1>t, StageAssumption DEF IInv, RunOnceBegin, NewJob
  <2>3. CursorCovered'
    BY <1>1 DEF IInv, RunOnceBegin, CursorCovered
  <2> QED BY <2>1, <2>2, <2>3
<1>2. ASSUME NEW t \in Thread, NEW s \in Stage, RunOnceRefused(t, s)
      PROVE  Rest
  <2>1. UNCHANGED <<cursor, rows, pending, tx_lock, pc, job, placed>>
    BY <1>2 DEF RunOnceRefused
  <2>2. LockedWhileOpen' /\ ReadStillCurrent' /\ PendingIsStepOutput'
    BY <2>1 DEF IInv
  <2>3. CursorCovered'
    BY <2>1 DEF IInv, CursorCovered
  <2> QED BY <2>2, <2>3
<1>3. ASSUME NEW t \in Thread, Step(t)
      PROVE  Rest
  <2>1. PICK v \in Verdict, n \in 0 .. MaxBatch :
           /\ job[t].cur + n \in Height
           /\ job' = [job EXCEPT ![t].verdict = v,
                                 ![t].out = job[t].cur + n]
           /\ pending' = job[t].cur .. job[t].cur + n - 1
    BY <1>3, ZenonT(30) DEF Step
  <2>2. /\ job'[t].cur = job[t].cur /\ job'[t].stage = job[t].stage
        /\ job'[t].out = job[t].cur + n
        /\ \A u \in Thread \ {t} : job'[u] = job[u]
    BY <2>1, <1>t DEF Job
  <2>3. \A u \in Thread \ {t} : pc[u] = "idle" /\ pc'[u] = "idle"
    BY <1>3, <1>t DEF IInv, Step
  <2>4. LockedWhileOpen' /\ ReadStillCurrent'
    BY <1>3, <1>t, <2>2, <2>3, SMTT(30) DEF IInv, Step
  <2>5. PendingIsStepOutput'
    <3>1. pending' = job'[t].cur .. job'[t].out - 1
      <4>1. n \in Int /\ job[t].cur \in Int
        BY <1>t, StageAssumption
      <4>2. job'[t].out - 1 = job[t].cur + n - 1
        BY <2>2, <4>1
      <4> HIDE DEF PendingIsStepOutput
      <4> QED BY <2>1, <2>2, <4>2, Zenon
    <3> QED BY <2>3, <3>1
  <2>6. CursorCovered'
    BY <1>3 DEF IInv, Step, CursorCovered
  <2> QED BY <2>4, <2>5, <2>6
<1>4. ASSUME NEW t \in Thread, Commit(t)
      PROVE  Rest
  <2>1. \A u \in Thread : pc'[u] = "idle"
    BY <1>4, <1>t DEF IInv, Commit, Release
  <2>2. ASSUME NEW s \in Stage, NEW h \in Height, h < cursor'[s]
        PROVE  h \in rows'[s] \cup placed'[s]
    <3>1. CASE s # job[t].stage
      BY <1>4, <1>t, <2>2, <3>1 DEF IInv, Commit, Release, CursorCovered
    <3>2. CASE s = job[t].stage
      <4>1. /\ cursor'[s] = job[t].out
            /\ rows'[s] = rows[s] \cup (job[t].cur .. job[t].out - 1)
            /\ cursor[s] = job[t].cur
            /\ placed' = placed
        BY <1>4, <1>t, <3>2 DEF IInv, Commit, Release
      <4>2. h \in Nat
        BY StageAssumption DEF Height
      <4>3. CASE h < cursor[s]
        BY <4>1, <4>3 DEF IInv, CursorCovered
      <4>4. CASE ~(h < cursor[s])
        BY <4>1, <4>2, <4>4, <2>2, <1>t
      <4> QED BY <4>3, <4>4
    <3> QED BY <3>1, <3>2
  <2>3. CursorCovered'
    BY <2>2 DEF CursorCovered
  <2> QED BY <2>1, <2>3
<1>5. ASSUME NEW t \in Thread,
             \/ RollbackFatal(t)
             \/ RollbackBlocked(t)
             \/ RollbackIdle(t)
      PROVE  Rest
  <2>1. \A u \in Thread : pc'[u] = "idle"
    BY <1>5, <1>t DEF IInv, RollbackFatal, RollbackBlocked, RollbackIdle,
                      Release
  <2>2. CursorCovered'
    BY <1>5 DEF IInv, RollbackFatal, RollbackBlocked, RollbackIdle,
                Release, CursorCovered
  <2> QED BY <2>1, <2>2
<1>6. ASSUME NEW s \in Stage, NEW v \in Height,
             \/ SetCursor(s, v)
             \/ SetNamedCursorIfBehind(s, v)
             \/ ForceStageCursor(s, v)
      PROVE  Rest
  <2>1. /\ cursor' = [cursor EXCEPT ![s] = v]
        /\ placed' = [placed EXCEPT ![s] = @ \cup (cursor[s] .. v - 1)]
        /\ tx_lock = NoThread
        /\ UNCHANGED <<rows, pending, tx_lock, pc, job>>
    BY <1>6 DEF SetCursor, SetNamedCursorIfBehind, ForceStageCursor,
                CarriedOver
  <2>2. \A u \in Thread : pc[u] = "idle" /\ pc'[u] = "idle"
    BY <2>1, StageAssumption DEF IInv
  <2>3. ASSUME NEW q \in Stage, NEW h \in Height, h < cursor'[q]
        PROVE  h \in rows'[q] \cup placed'[q]
    <3>1. h \in Nat /\ v \in Nat
      BY StageAssumption DEF Height
    <3>2. CASE h < cursor[q]
      BY <2>1, <3>2, <1>t DEF IInv, CursorCovered
    <3>3. CASE ~(h < cursor[q])
      BY <2>1, <2>3, <3>1, <3>3, <1>t
    <3> QED BY <3>2, <3>3
  <2>4. CursorCovered'
    BY <2>3 DEF CursorCovered
  <2> QED BY <2>2, <2>4, SMTT(30)
<1>7. ASSUME Crash
      PROVE  Rest
  <2>1. \A u \in Thread : pc'[u] = "idle"
    BY <1>7 DEF Crash
  <2>2. CursorCovered'
    BY <1>7 DEF IInv, Crash, CursorCovered
  <2> QED BY <2>1, <2>2
<1>8. ASSUME UNCHANGED vars
      PROVE  Rest
  <2>1. LockedWhileOpen' /\ ReadStillCurrent' /\ PendingIsStepOutput'
    BY <1>8 DEF IInv, vars
  <2>2. CursorCovered'
    BY <1>8, SMTT(30) DEF IInv, vars, CursorCovered
  <2> QED BY <2>1, <2>2
<1>9. Rest
  BY <1>1, <1>2, <1>3, <1>4, <1>5, <1>6, <1>7, <1>8 DEF Next
<1> QED BY <1>0, <1>9 DEF IInv

-----------------------------------------------------------------------------
(* The values of the runner's state keep their types in every execution of *)
(* stage_run_once, the cursor setters and a crash.                         *)
THEOREM TypeCorrect == Spec => []TypeOK
<1>1. Init => TypeOK
  BY InitInv DEF IInv
<1> QED BY <1>1, TypeStep, PTL DEF Spec

(* stage_run_once never commits a step against a cursor that moved after   *)
(* the step read it, for any number of threads and stages.                 *)
THEOREM ReadsStayCurrent == Spec => []ReadStillCurrent
<1>1. IInv => ReadStillCurrent
  BY DEF IInv
<1> QED BY <1>1, InitInv, InvStep, PTL DEF Spec

(* No height below a durable cursor is without its row unless an anchor or *)
(* a repair carried the cursor over it.                                    *)
THEOREM CursorsCovered == Spec => []CursorCovered
<1>1. IInv => CursorCovered
  BY DEF IInv
<1> QED BY <1>1, InitInv, InvStep, PTL DEF Spec

(* Every step of stage.c is a step of StageAtomic on the durable cursor    *)
(* and rows, or leaves both alone: "cursor advance and step output are     *)
(* atomic".                                                                *)
THEOREM RunnerImplementsAtomic == Spec => ImplementsAtomic
<1>1. Init => Atomic!Init
  BY DEF Init, Atomic!Init
<1>2. IInv /\ [Next]_vars => [Atomic!Next]_(Atomic!vars)
  <2> SUFFICES ASSUME IInv, [Next]_vars
               PROVE  Atomic!Next \/ UNCHANGED <<cursor, rows>>
    BY DEF Atomic!vars
  <2>1. ASSUME NEW t \in Thread, Commit(t)
        PROVE  Atomic!Next
    <3>1. /\ job[t].stage \in Stage /\ job[t].out \in 0 .. MaxCursor
      BY DEF IInv, TypeOK, Job, Height
    <3>2. Atomic!Advance(job[t].stage, job[t].out)
      BY <2>1, ZenonT(30) DEF IInv, Commit, Atomic!Advance, ReadStillCurrent,
                  PendingIsStepOutput
    <3> QED BY <3>1, <3>2 DEF Atomic!Next
  <2>2. ASSUME NEW s \in Stage, NEW v \in Height,
               \/ SetCursor(s, v)
               \/ SetNamedCursorIfBehind(s, v)
               \/ ForceStageCursor(s, v)
        PROVE  Atomic!Next
    BY <2>2 DEF SetCursor, SetNamedCursorIfBehind, ForceStageCursor,
                Atomic!Place, Atomic!Next, Height
  <2>3. ASSUME NEW t \in Thread, NEW s \in Stage,
               RunOnceBegin(t, s) \/ RunOnceRefused(t, s)
        PROVE  UNCHANGED <<cursor, rows>>
    BY <2>3 DEF RunOnceBegin, RunOnceRefused
  <2>4. ASSUME NEW t \in Thread,
               Step(t) \/ RollbackFatal(t) \/ RollbackBlocked(t)
                 \/ RollbackIdle(t)
        PROVE  UNCHANGED <<cursor, rows>>
    BY <2>4 DEF Step, RollbackFatal, RollbackBlocked, RollbackIdle
  <2>5. Crash \/ UNCHANGED vars => UNCHANGED <<cursor, rows>>
    BY DEF Crash, vars
  <2> QED BY <2>1, <2>2, <2>3, <2>4, <2>5 DEF Next
<1> QED BY <1>1, <1>2, InitInv, InvStep, PTL
        DEF Spec, ImplementsAtomic, Atomic!Spec
=============================================================================
