------------------------------- MODULE Stage -------------------------------
(***************************************************************************)
(* The stage runner of lib/util/src/stage.c.  Every stage of the reducer   *)
(* pipeline owns a durable cursor in progress.kv; stage_run_once reads it, *)
(* runs the stage's step inside BEGIN IMMEDIATE .. COMMIT and writes the   *)
(* new cursor in the same transaction.  Threads (the staged-sync           *)
(* supervisor, a synchronous ingest drive, a repair) are serialised by the *)
(* recursive progress_store_tx_lock; the process may die at any point.     *)
(*                                                                         *)
(* A step's output is abstracted to the set of heights it writes log rows  *)
(* for; SQLite failures, contract violations and the four verdicts of      *)
(* job_result_t are nondeterministic.                                      *)
(***************************************************************************)
EXTENDS Integers

CONSTANTS Stage,        \* the stage names
          Thread,       \* threads that drive stages
          NoThread,     \* "progress_store_tx_lock is free"
          MaxCursor,    \* bound: highest cursor value
          MaxBatch,     \* most heights one step may cover
          MaxFatal      \* bound: FATAL verdicts counted

ASSUME StageAssumption ==
    /\ MaxCursor \in Nat
    /\ MaxBatch \in Nat
    /\ MaxFatal \in Nat
    /\ NoThread \notin Thread
    /\ Stage # {}

VARIABLES
    cursor,             \* durable: table stage_cursor
    rows,               \* durable: heights with a row in the stage's log
    pending,            \* rows written by the open transaction
    tx_lock,            \* owner of progress_store_tx_lock
    pc,                 \* [Thread -> "idle" | "begun" | "stepped"]
    job,                \* [Thread -> the stage_run_once call in progress]
    cached,             \* s->cursor, the in-memory mirror
    blockers,           \* stages with a registered blocker
    fatal_generation,   \* g_fatal_generation
    placed              \* history: heights the cursor was carried over

vars == <<cursor, rows, pending, tx_lock, pc, job, cached, blockers,
          fatal_generation, placed>>

Height == 0 .. MaxCursor
Verdict == {"ADVANCED", "BLOCKED", "BLOCKED_NO_ID", "IDLE", "FATAL"}

(* One stage_run_once call: cursor_in, cursor_out and the step's verdict.  *)
Job == [stage : Stage, cur : Height, out : Height, verdict : Verdict]
NoJob == [stage |-> CHOOSE s \in Stage : TRUE, cur |-> 0, out |-> 0,
          verdict |-> "IDLE"]

NewJob(s) == [stage |-> s, cur |-> cursor[s], out |-> cursor[s],
              verdict |-> "IDLE"]

Init == /\ cursor = [s \in Stage |-> 0]
        /\ rows = [s \in Stage |-> {}]
        /\ pending = {}
        /\ tx_lock = NoThread
        /\ pc = [t \in Thread |-> "idle"]
        /\ job = [t \in Thread |-> NoJob]
        /\ cached = [s \in Stage |-> 0]
        /\ blockers = {}
        /\ fatal_generation = 0
        /\ placed = [s \in Stage |-> {}]

-----------------------------------------------------------------------------
(* stage_note_fatal: the verdict is counted and latched for the drain      *)
(* driver; the durable state is left alone.                                *)
stage_note_fatal ==
    /\ fatal_generation < MaxFatal
    /\ fatal_generation' = fatal_generation + 1

(* Take the lock, load the persisted cursor (a missing row reads 0) and    *)
(* BEGIN IMMEDIATE.                                                        *)
RunOnceBegin(t, s) ==
    /\ pc[t] = "idle" /\ tx_lock = NoThread
    /\ tx_lock' = t
    /\ job' = [job EXCEPT ![t] = NewJob(s)]
    /\ cached' = [cached EXCEPT ![s] = cursor[s]]
    /\ pc' = [pc EXCEPT ![t] = "begun"]
    /\ UNCHANGED <<cursor, rows, pending, blockers, fatal_generation, placed>>

(* The cursor read or the BEGIN failed: FATAL before the step ran.         *)
RunOnceRefused(t, s) ==
    /\ pc[t] = "idle" /\ tx_lock = NoThread
    /\ stage_note_fatal
    /\ \/ UNCHANGED cached
       \/ cached' = [cached EXCEPT ![s] = cursor[s]]
    /\ UNCHANGED <<cursor, rows, pending, tx_lock, pc, job, blockers, placed>>

(* s->step: an ADVANCED step writes a row for every height it covers; any  *)
(* other verdict may leave scratch rows in the transaction.                *)
Step(t) ==
    /\ pc[t] = "begun"
    /\ \E v \in Verdict, n \in 0 .. MaxBatch :
          LET cur == job[t].cur IN
          /\ cur + n \in Height
          /\ job' = [job EXCEPT ![t].verdict = v, ![t].out = cur + n]
          /\ pending' = cur .. cur + n - 1
    /\ pc' = [pc EXCEPT ![t] = "stepped"]
    /\ UNCHANGED <<cursor, rows, tx_lock, cached, blockers, fatal_generation,
                   placed>>

-----------------------------------------------------------------------------
(* The outcomes of stage_run_once after the step.                          *)
Release(t) == /\ tx_lock' = NoThread
              /\ pc' = [pc EXCEPT ![t] = "idle"]
              /\ pending' = {}
              /\ job' = [job EXCEPT ![t] = NoJob]
              /\ UNCHANGED placed

Commit(t) ==
    LET s == job[t].stage IN
    /\ pc[t] = "stepped"
    /\ job[t].verdict = "ADVANCED" /\ job[t].out > job[t].cur
    /\ cursor' = [cursor EXCEPT ![s] = job[t].out]
    /\ rows' = [rows EXCEPT ![s] = @ \cup pending]
    /\ cached' = [cached EXCEPT ![s] = job[t].out]
    /\ Release(t)
    /\ UNCHANGED <<blockers, fatal_generation>>

(* Mutant of RollbackFatal: the cursor write escapes the ROLLBACK.         *)
RollbackFatalKeepsCursor(t) ==
    /\ pc[t] = "stepped"
    /\ job[t].verdict \in {"ADVANCED", "BLOCKED_NO_ID", "FATAL"}
    /\ cursor' = [cursor EXCEPT ![job[t].stage] = job[t].out]
    /\ stage_note_fatal
    /\ Release(t)
    /\ UNCHANGED <<rows, cached, blockers>>

(* ROLLBACK and a FATAL verdict: the step said FATAL, or BLOCKED without a *)
(* blocker id, or ADVANCED without moving the cursor, or the cursor write  *)
(* or the COMMIT failed.                                                   *)
RollbackFatal(t) ==
    /\ pc[t] = "stepped"
    /\ job[t].verdict \in {"ADVANCED", "BLOCKED_NO_ID", "FATAL"}
    /\ stage_note_fatal
    /\ Release(t)
    /\ UNCHANGED <<cursor, rows, cached, blockers>>

(* Mutant of RollbackBlocked: the scratch rows are kept.                   *)
RollbackBlockedCommits(t) ==
    /\ pc[t] = "stepped" /\ job[t].verdict = "BLOCKED"
    /\ rows' = [rows EXCEPT ![job[t].stage] = @ \cup pending]
    /\ blockers' = blockers \cup {job[t].stage}
    /\ Release(t)
    /\ UNCHANGED <<cursor, cached, fatal_generation>>

(* ROLLBACK of the scratch rows; the blocker the step named is registered. *)
RollbackBlocked(t) ==
    /\ pc[t] = "stepped" /\ job[t].verdict = "BLOCKED"
    /\ blockers' = blockers \cup {job[t].stage}
    /\ Release(t)
    /\ UNCHANGED <<cursor, rows, cached, fatal_generation>>

RollbackIdle(t) ==
    /\ pc[t] = "stepped" /\ job[t].verdict = "IDLE"
    /\ Release(t)
    /\ UNCHANGED <<cursor, rows, cached, blockers, fatal_generation>>

-----------------------------------------------------------------------------
(* Heights a cursor moved over without a step.                             *)
CarriedOver(s, v) ==
    placed' = [placed EXCEPT ![s] = @ \cup (cursor[s] .. v - 1)]

(* stage_set_cursor: any value, in a transaction of its own.               *)
SetCursor(s, v) ==
    /\ tx_lock = NoThread
    /\ cursor' = [cursor EXCEPT ![s] = v]
    /\ cached' = [cached EXCEPT ![s] = v]
    /\ CarriedOver(s, v)
    /\ UNCHANGED <<rows, pending, tx_lock, pc, job, blockers,
                   fatal_generation>>

(* stage_set_named_cursor_if_behind: never rewinds, and does not know the  *)
(* stage object, so the mirror s->cursor keeps its old value.              *)
SetNamedCursorIfBehind(s, v) ==
    /\ tx_lock = NoThread
    /\ cursor[s] < v
    /\ cursor' = [cursor EXCEPT ![s] = v]
    /\ CarriedOver(s, v)
    /\ UNCHANGED <<rows, pending, tx_lock, pc, job, cached, blockers,
                   fatal_generation>>

(* Mutant of ForceStageCursor: the write does not wait for the lock.       *)
ForceStageCursorUnlocked(s, v) ==
    /\ cursor' = [cursor EXCEPT ![s] = v]
    /\ CarriedOver(s, v)
    /\ UNCHANGED <<rows, pending, tx_lock, pc, job, cached, blockers,
                   fatal_generation>>

(* stage_repair_force_stage_cursor: the same table, any value, no mirror.  *)
ForceStageCursor(s, v) ==
    /\ tx_lock = NoThread
    /\ cursor' = [cursor EXCEPT ![s] = v]
    /\ CarriedOver(s, v)
    /\ UNCHANGED <<rows, pending, tx_lock, pc, job, cached, blockers,
                   fatal_generation>>

(* The process dies: the open transaction and all memory are gone.         *)
Crash == /\ pending' = {}
         /\ tx_lock' = NoThread
         /\ pc' = [t \in Thread |-> "idle"]
         /\ job' = [t \in Thread |-> NoJob]
         /\ cached' = [s \in Stage |-> 0]
         /\ blockers' = {}
         /\ fatal_generation' = 0
         /\ UNCHANGED <<cursor, rows, placed>>

Next == \/ \E t \in Thread, s \in Stage : \/ RunOnceBegin(t, s)
                                          \/ RunOnceRefused(t, s)
        \/ \E t \in Thread : \/ Step(t)
                             \/ Commit(t)
                             \/ RollbackFatal(t)
                             \/ RollbackBlocked(t)
                             \/ RollbackIdle(t)
        \/ \E s \in Stage, v \in Height : \/ SetCursor(s, v)
                                          \/ SetNamedCursorIfBehind(s, v)
                                          \/ ForceStageCursor(s, v)
        \/ Crash

Spec == Init /\ [][Next]_vars

-----------------------------------------------------------------------------
(* Cursors, rows and the open call have the types of the two tables and of *)
(* stage_run_once's locals.                                                *)
TypeOK == /\ cursor \in [Stage -> Height]
          /\ rows \in [Stage -> SUBSET Height]
          /\ pending \in SUBSET Height
          /\ tx_lock \in Thread \cup {NoThread}
          /\ pc \in [Thread -> {"idle", "begun", "stepped"}]
          /\ job \in [Thread -> Job]
          /\ cached \in [Stage -> Height]
          /\ blockers \in SUBSET Stage
          /\ fatal_generation \in 0 .. MaxFatal
          /\ placed \in [Stage -> SUBSET Height]

(* A step is never committed against a cursor that moved under it: while a *)
(* stage_run_once call is between BEGIN and COMMIT, the durable cursor of  *)
(* its stage is still the cursor_in its step worked from, whatever other   *)
(* threads run, anchor or repair meanwhile.                                *)
ReadStillCurrent ==
    \A t \in Thread : pc[t] # "idle" => cursor[job[t].stage] = job[t].cur

(* No height is lost: every height below a durable cursor has a committed  *)
(* row of its stage, unless an anchor or a repair carried the cursor over  *)
(* it - across crashes, failed commits and rolled-back steps.              *)
CursorCovered ==
    \A s \in Stage : \A h \in Height :
        h < cursor[s] => h \in rows[s] \cup placed[s]

(* A transaction is open only under the lock, so no two are ever open.     *)
LockedWhileOpen == \A t \in Thread : pc[t] # "idle" => tx_lock = t

(* What the open transaction holds is what its step was asked to cover.    *)
PendingIsStepOutput ==
    \A t \in Thread :
        pc[t] = "stepped" => pending = job[t].cur .. job[t].out - 1

(* The runner implements its promise: in every step of any thread the      *)
(* durable cursor and rows move together or not at all.                    *)
Atomic == INSTANCE StageAtomic
ImplementsAtomic == Atomic!Spec
=============================================================================
