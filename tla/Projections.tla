---------------------------- MODULE Projections ----------------------------
(***************************************************************************)
(* Two consumers of the event log, each with an SQLite file of its own:    *)
(* the mempool projection (lib/storage/src/mempool_projection.c), which    *)
(* folds everything new in one transaction, and the block index projection *)
(* (lib/storage/src/block_index_projection.c), which commits every         *)
(* BatchEvents headers.  Each keeps its rows and the offset it has         *)
(* consumed in one database, and a copy of the offset in memory.           *)
(*                                                                         *)
(* The rows of a projection are what folding a prefix of the log gives; a  *)
(* row's columns other than its key and the order of its writer are left   *)
(* out.  The databases run in WAL mode with synchronous=NORMAL, so a loss  *)
(* of power may take the last commits with it.                             *)
(***************************************************************************)
EXTENDS EventLog

CONSTANTS
  AdmitOf, RemoveOf,  \* events about mempool transactions: functions tx -> event
  HeaderOf,       \* block header events: function event -> block hash
  Inputs,         \* the prevouts each transaction spends
  NoTx,           \* no transaction
  NoRow,          \* no row
  BatchEvents,    \* BIP_BATCH_EVENTS
  Consumers       \* which of the two projections a run opens

VARIABLES
  who,   \* ghost: the projection of this run
  mp,    \* mempool projection: db, what a power loss leaves, mem, txn, and
         \* whether a failed COMMIT left the transaction open
  bi     \* block index projection: the same, and its stream's state

vars == <<logVars, who, mp, bi>>

----------------------------------------------------------------------------
(* The mempool projection *)

Tx == DOMAIN AdmitOf
Prevout == UNION {Inputs[t] : t \in Tx}

EmptyPool == [tx |-> {}, spends |-> [o \in Prevout |-> NoTx]]

\* remove_spends: DELETE FROM mempool_spends WHERE by_txid = t
RemoveSpends(spends, t) ==
  [o \in Prevout |-> IF spends[o] = t THEN NoTx ELSE spends[o]]

\* apply_tx_admit: the rows of t are dropped, then written again, one for each
\* of its inputs, over whoever held the prevout.
ApplyAdmit(pool, t) ==
  [tx     |-> pool.tx \cup {t},
   spends |-> [o \in Prevout |-> IF o \in Inputs[t] THEN t
                                 ELSE RemoveSpends(pool.spends, t)[o]]]

\* Mutated form of ApplyRemove: the transaction's row goes, its spends stay.
ApplyRemoveRowOnly(pool, t) == [pool EXCEPT !.tx = pool.tx \ {t}]

ApplyRemove(pool, t) ==
  [tx |-> pool.tx \ {t}, spends |-> RemoveSpends(pool.spends, t)]

\* catchup_cb: an event of another type only moves the offset
MpApply(pool, r) ==
  CASE \E t \in Tx : r.ev = AdmitOf[t] ->
         ApplyAdmit(pool, CHOOSE t \in Tx : r.ev = AdmitOf[t])
    [] \E t \in DOMAIN RemoveOf : r.ev = RemoveOf[t] ->
         ApplyRemove(pool, CHOOSE t \in DOMAIN RemoveOf : r.ev = RemoveOf[t])
    [] OTHER -> pool

\* The rows after every event of evs, in order
MpFold(rows, evs) ==
  LET R[n \in 0 .. Len(evs)] ==
        IF n = 0 THEN rows ELSE MpApply(R[n - 1], evs[n])
  IN R[Len(evs)]

\* event_log_stream from the cached offset, bounded by end_offset
Streamed(from) == Walk(cache, from, end_offset)

\* BEGIN IMMEDIATE, and the fold of what the log has now; catchup_cb moves the
\* cached offset along.
MpStream ==
  /\ up /\ who = "mempool" /\ mp.txn = NoRow
  /\ LET evs == Streamed(mp.mem)
         next == EndOf(evs, mp.mem)
     IN mp' = [mp EXCEPT !.mem = next,
                         !.txn = [cur  |-> next,
                                  rows |-> MpFold(mp.db.rows, evs)]]
  /\ UNCHANGED <<logVars, who, bi>>

\* meta_set_u64 and COMMIT.  External: the WAL may or may not be synced, so a
\* power loss leaves this commit or an earlier one.
MpCommit ==
  /\ mp.txn # NoRow /\ ~mp.held
  /\ \E safe \in {mp.safe, mp.txn} :
       mp' = [mp EXCEPT !.db = mp.txn, !.safe = safe, !.mem = mp.txn.cur,
                        !.txn = NoRow]
  /\ UNCHANGED <<logVars, who, bi>>

\* Mutated form of MpRollback: the cached offset keeps the callback's advance.
MpRollbackLeaks ==
  /\ mp.txn # NoRow /\ ~mp.held
  /\ mp' = [mp EXCEPT !.txn = NoRow]
  /\ UNCHANGED <<logVars, who, bi>>

\* An event that does not apply or a write fails, or the COMMIT fails with an
\* error on which SQLite rolls back: the cached offset is read again from the
\* database.
MpRollback ==
  /\ mp.txn # NoRow /\ ~mp.held
  /\ mp' = [mp EXCEPT !.mem = mp.db.cur, !.txn = NoRow]
  /\ UNCHANGED <<logVars, who, bi>>

\* The COMMIT fails and SQLite keeps the transaction: the offset is read inside
\* it, and every later BEGIN IMMEDIATE fails until the database is closed.
MpCommitFails ==
  /\ mp.txn # NoRow /\ ~mp.held
  /\ mp' = [mp EXCEPT !.mem = mp.txn.cur, !.held = TRUE]
  /\ UNCHANGED <<logVars, who, bi>>

----------------------------------------------------------------------------
(* The block index projection *)

\* INSERT OR REPLACE: the last header written for a hash wins
BiRow(rows, r) == [rows EXCEPT ![HeaderOf[r.ev]] = r.ev]

BiIdle == ~bi.on

\* block_index_projection_catch_up, up to the stream; p->mu is held
BiStart ==
  /\ up /\ who = "block_index" /\ BiIdle
  /\ bi' = [bi EXCEPT !.on = TRUE, !.evs = Streamed(bi.mem), !.n = 0,
                      !.after = bi.mem]
  /\ UNCHANGED <<logVars, who, mp>>

\* batch_commit: the offset goes into the transaction of the rows.
BiCommitted(b) ==
  {[b EXCEPT !.db = db, !.safe = safe, !.mem = b.after, !.txn = NoRow, !.n = 0] :
     db \in {[cur |-> b.after, rows |-> b.txn]},
     safe \in {b.safe, [cur |-> b.after, rows |-> b.txn]}}

\* the call returns
BiReturned(b) == [b EXCEPT !.on = FALSE, !.evs = <<>>, !.n = 0, !.after = 0]

BiTakesHeader ==
  /\ bi.on /\ bi.evs # <<>> /\ Head(bi.evs).ev \in DOMAIN HeaderOf

\* catch_up_cb on an event of another type: the stream position moves on, the
\* batch does not grow.
BiSkip ==
  /\ bi.on /\ bi.evs # <<>> /\ Head(bi.evs).ev \notin DOMAIN HeaderOf
  /\ bi' = [bi EXCEPT !.after = EndOf(<<Head(bi.evs)>>, 0), !.evs = Tail(bi.evs)]
  /\ UNCHANGED <<logVars, who, mp>>

\* the batch with the header inserted; the first one opens the transaction
BiInserted(b, r) ==
  [b EXCEPT !.after = EndOf(<<r>>, 0),
            !.txn = BiRow(IF b.n = 0 THEN b.db.rows ELSE b.txn, r),
            !.n = b.n + 1,
            !.evs = Tail(b.evs)]

\* BEGIN is refused when an earlier call has left its transaction open.
BiBegins == bi.n = 0 => bi.txn = NoRow

\* catch_up_cb on a header; a full batch is committed.
BiHeader ==
  /\ BiTakesHeader /\ BiBegins
  /\ LET b == BiInserted(bi, Head(bi.evs))
     IN bi' \in IF b.n >= BatchEvents THEN BiCommitted(b) ELSE {b}
  /\ UNCHANGED <<logVars, who, mp>>

BiBeginFails ==
  /\ BiTakesHeader /\ ~BiBegins
  /\ bi' = BiReturned(bi)
  /\ UNCHANGED <<logVars, who, mp>>

\* The INSERT, or writing the offset before the COMMIT, fails: ROLLBACK.
BiRollback ==
  /\ (BiTakesHeader /\ BiBegins) \/ (bi.on /\ bi.n > 0)
  /\ bi' = [BiReturned(bi) EXCEPT !.txn = NoRow]
  /\ UNCHANGED <<logVars, who, mp>>

\* The COMMIT of a full or of the trailing batch fails: the call returns with
\* the transaction open.
BiCommitFails ==
  /\ \/ /\ BiTakesHeader /\ BiBegins /\ bi.n + 1 >= BatchEvents
        /\ bi' = BiReturned(BiInserted(bi, Head(bi.evs)))
     \/ /\ bi.on /\ bi.evs = <<>> /\ bi.n > 0
        /\ bi' = BiReturned(bi)
  /\ UNCHANGED <<logVars, who, mp>>

\* The stream has ended: the trailing batch is committed; a stream without a
\* header commits nothing and leaves the offset where it was.
BiFinish ==
  /\ bi.on /\ bi.evs = <<>>
  /\ \E b \in IF bi.n > 0 THEN BiCommitted(bi) ELSE {bi} : bi' = BiReturned(b)
  /\ UNCHANGED <<logVars, who, mp>>

----------------------------------------------------------------------------
(* The log and its consumers together *)

\* A projection whose process is gone, with db what its file holds
Dropped(p, db) == [p EXCEPT !.db = db, !.safe = db, !.txn = NoRow]

\* boot_start_projection_storage: the log is opened first, then the
\* projections, whose offset comes from their database.
Boot ==
  /\ \/ /\ Open
        /\ mp' = [mp EXCEPT !.mem = mp.db.cur]
        /\ bi' = [bi EXCEPT !.mem = bi.db.cur]
     \/ OpenFails /\ UNCHANGED <<mp, bi>>
  /\ UNCHANGED who

\* A clean shutdown waits for catch_up and checkpoints the databases.
Shutdown ==
  /\ (mp.txn = NoRow \/ mp.held) /\ BiIdle
  /\ Close
  /\ mp' = Dropped([mp EXCEPT !.held = FALSE], mp.db)
  /\ bi' = Dropped(bi, bi.db)
  /\ UNCHANGED who

Die ==
  /\ \/ /\ Kill
        /\ mp' = [mp EXCEPT !.txn = NoRow, !.held = FALSE]
        /\ bi' = [BiReturned(bi) EXCEPT !.txn = NoRow]
     \/ /\ PowerLoss
        /\ \E db \in {mp.db, mp.safe} :
             mp' = Dropped([mp EXCEPT !.held = FALSE], db)
        /\ \E db \in {bi.db, bi.safe} : bi' = Dropped(BiReturned(bi), db)
  /\ UNCHANGED who

Emit(events) == AppendStep(events) /\ UNCHANGED <<who, mp, bi>>

MpStep == MpStream \/ MpCommit \/ MpRollback \/ MpCommitFails

BiStep == \/ BiStart \/ BiSkip \/ BiHeader \/ BiBeginFails \/ BiRollback
          \/ BiCommitFails \/ BiFinish

NoRows == [h \in {HeaderOf[e] : e \in DOMAIN HeaderOf} |-> NoRow]

Init ==
  /\ LogInit
  /\ who \in Consumers
  /\ mp = LET db == [cur |-> 0, rows |-> EmptyPool]
          IN [db |-> db, safe |-> db, mem |-> 0, txn |-> NoRow,
              held |-> FALSE]
  /\ bi = LET db == [cur |-> 0, rows |-> NoRows]
          IN [db |-> db, safe |-> db, mem |-> 0, txn |-> NoRow, on |-> FALSE,
              evs |-> <<>>, n |-> 0, after |-> 0]

Next == Boot \/ Shutdown \/ Die \/ Emit(Event) \/ MpStep \/ BiStep

Spec == Init /\ [][Next]_vars

----------------------------------------------------------------------------
(* Properties *)

TypeOK ==
  /\ LogTypeOK
  /\ mp.mem \in 0 .. FileCells /\ bi.mem \in 0 .. FileCells
  /\ bi.n \in 0 .. BatchEvents - 1

\* The events of the log before offset cur
Before(cur) == SelectSeq(log, LAMBDA r : r.off < cur)

BiFold(rows, evs) ==
  LET R[n \in 0 .. Len(evs)] ==
        IF n = 0 THEN rows
        ELSE IF evs[n].ev \in DOMAIN HeaderOf THEN BiRow(R[n - 1], evs[n])
        ELSE R[n - 1]
  IN R[Len(evs)]

\* cur is the end of an event of the log, or its beginning
OnBoundary(cur) == cur = EndOf(Before(cur), 0)

\* A projection's rows are the fold of exactly the events before the offset its
\* database holds, and the offset in memory, from which the next catch_up
\* starts, is that offset whenever no transaction is open: no event is skipped
\* after a rolled-back or failed catch_up, none applied twice by a retry, none
\* that a crash took from the log.  With both kinds of crash in one run this
\* fails, for the reason RecoveredIsDurable does.
ProjectionExact ==
  (up /\ OneKind) =>
    /\ OnBoundary(mp.db.cur)
    /\ mp.db.rows = MpFold(EmptyPool, Before(mp.db.cur))
    /\ mp.txn = NoRow => mp.mem = mp.db.cur
    /\ OnBoundary(bi.db.cur)
    /\ bi.db.rows = BiFold(NoRows, Before(bi.db.cur))
    /\ bi.mem = bi.db.cur

\* Whatever order conflicting transactions are admitted and removed in, and
\* wherever a transaction commits, a row of mempool_spends names a transaction
\* the pool has: mempool_projection's double-spend lookup never points at one
\* that is gone.
SpenderInPool ==
  \A o \in Prevout : mp.db.rows.spends[o] \in mp.db.rows.tx \cup {NoTx}
=============================================================================
