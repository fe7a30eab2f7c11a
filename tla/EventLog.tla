------------------------------ MODULE EventLog ------------------------------
(***************************************************************************)
(* The append-only event log (lib/storage/src/event_log.c): the appender,  *)
(* the recovery walk of event_log_open, and the crashes between them.      *)
(*                                                                         *)
(* The file is an array of cells.  An event takes one cell for its header, *)
(* PayloadLen[e] cells for its payload and one for its fsync sentinel.  A  *)
(* cell is written or not written as a whole; an event is torn when some   *)
(* of its cells are.  The header's length and CRC stand for the event they *)
(* were computed from, so two events never share a CRC.                    *)
(*                                                                         *)
(* cache is what read(2) returns, disk what survives a loss of power, and  *)
(* dirty the cells written since they last reached the disk: the kernel    *)
(* may write any of them back, in any order, at any time.  A crash is one  *)
(* of two kinds.  When the process is killed the cache survives; when the  *)
(* power goes, only the disk does.                                         *)
(***************************************************************************)
EXTENDS Integers, Sequences, FiniteSetsExt

CONSTANTS
  Event,          \* the events the node emits
  PayloadLen,     \* cells of each event's payload
  FileCells,      \* bound: cells the file can have
  MaxAppends,     \* bound: calls of event_log_append
  MaxCrashes,     \* bound: crashes
  ReadsMayFail    \* whether pread or malloc may fail in the recovery walk

ASSUME EventLogAssumption ==
  /\ PayloadLen \in [Event -> Nat]
  /\ FileCells \in Nat /\ MaxAppends \in Nat /\ MaxCrashes \in Nat
  /\ ReadsMayFail \in BOOLEAN

VARIABLES
  cache, disk,    \* the file as the process and as the platter has it
  dirty,          \* cells of cache that may not be on disk
  up,             \* the log handle is published
  end_offset,     \* log->end_offset
  app,            \* the append under way, or Idle
  acked,          \* ghost: the events event_log_append returned an offset for
  log,            \* ghost: the events below end_offset, in file order
  appends,        \* ghost: calls of event_log_append so far
  crashes, kinds  \* ghost: crashes so far, and the kinds this run may see

logVars == <<cache, disk, dirty, up, end_offset, app, acked, log, appends,
             crashes, kinds>>

----------------------------------------------------------------------------
(* The file *)

Cell == 0 .. FileCells - 1
Hole == <<"hole">>
Header(e) == <<"hdr", e>>
Payload(e, i) == <<"pay", e, i>>
Sentinel(off) == <<"end", off>>
Frame(e) == PayloadLen[e] + 2

Idle == [pc |-> "idle"]

\* The file's length: one past its last written cell.
Size(f) ==
  LET written == {c \in Cell : f[c] # Hole}
  IN IF written = {} THEN 0 ELSE 1 + Max(written)

\* Mutated forms of WellFormed: the CRC is not compared; the last frame of a
\* file is taken for a partial one.
WellFormedNoCrc(f, off, lim) ==
  /\ off \in Cell
  /\ f[off][1] = "hdr"
  /\ off + Frame(f[off][2]) <= lim
  /\ f[off + Frame(f[off][2]) - 1] = Sentinel(off)

WellFormedStrict(f, off, lim) ==
  /\ WellFormedNoCrc(f, off, lim)
  /\ off + Frame(f[off][2]) < lim
  /\ \A i \in 1 .. PayloadLen[f[off][2]] : f[off + i] = Payload(f[off][2], i)

\* The event at off passes every test of the walk: its frame ends by lim, its
\* sentinel names off, and its payload has the header's CRC.
WellFormed(f, off, lim) ==
  /\ off \in Cell
  /\ f[off][1] = "hdr"
  /\ LET e == f[off][2]
     IN /\ off + Frame(e) <= lim
        /\ f[off + Frame(e) - 1] = Sentinel(off)
        /\ \A i \in 1 .. PayloadLen[e] : f[off + i] = Payload(e, i)

\* The events the walk accepts, from offset from, until the first it refuses.
Walk(f, from, lim) ==
  LET W[o \in 0 .. FileCells] ==
        IF WellFormed(f, o, lim)
        THEN <<[off |-> o, ev |-> f[o][2]]>> \o W[o + Frame(f[o][2])]
        ELSE <<>>
  IN W[from]

\* The offset after the last event of a walk that began at from.
EndOf(evs, from) ==
  LET last == evs[Len(evs)]
  IN IF evs = <<>> THEN from ELSE last.off + Frame(last.ev)

\* The file with the cells of a write replaced.
Written(f, cells) == [c \in Cell |-> IF c \in DOMAIN cells THEN cells[c] ELSE f[c]]

\* header and payload of e at off; the first n cells of them
BodyCells(e, off, n) ==
  [c \in off .. off + n - 1 |->
     IF c = off THEN Header(e) ELSE Payload(e, c - off)]
SentinelCell(off, e) == [c \in {off + Frame(e) - 1} |-> Sentinel(off)]

----------------------------------------------------------------------------
(* External: the kernel's page cache *)

\* pwrite of cells
Pwrite(cells) ==
  /\ cache' = Written(cache, cells)
  /\ dirty' = dirty \cup DOMAIN cells
  /\ UNCHANGED disk

\* The cells of S reach the disk.
Flushed(S) == [c \in Cell |-> IF c \in S THEN cache[c] ELSE disk[c]]

FsyncOk ==
  /\ disk' = Flushed(dirty)
  /\ dirty' = {}
  /\ UNCHANGED cache

\* A failing fsync has written back some of the cells; the others stay dirty.
FsyncFails ==
  /\ \E S \in SUBSET dirty :
       /\ disk' = Flushed(S)
       /\ dirty' = dirty \ S
  /\ UNCHANGED cache

----------------------------------------------------------------------------
(* event_log_append, under log->lock from its first write to its last *)

LogIdle == up /\ app = Idle

\* pwrite of header and payload
AppendBody(e) ==
  /\ LogIdle
  /\ appends < MaxAppends
  /\ end_offset + Frame(e) <= FileCells
  /\ Pwrite(BodyCells(e, end_offset, Frame(e) - 1))
  /\ app' = [pc |-> "body", ev |-> e, start |-> end_offset]
  /\ appends' = appends + 1
  /\ UNCHANGED <<up, end_offset, acked, log, crashes, kinds>>

\* The same pwrite failing part of the way: the call returns UINT64_MAX, and
\* the cells it wrote stay behind end_offset.
AppendBodyFails(e) ==
  /\ LogIdle
  /\ appends < MaxAppends
  /\ end_offset + Frame(e) <= FileCells
  /\ \E n \in 1 .. Frame(e) - 2 : Pwrite(BodyCells(e, end_offset, n))
  /\ appends' = appends + 1
  /\ UNCHANGED <<up, end_offset, app, acked, log, crashes, kinds>>

\* the first fsync
SyncBody ==
  /\ app.pc = "body"
  /\ \/ FsyncOk /\ app' = [app EXCEPT !.pc = "synced"]
     \/ FsyncFails /\ app' = Idle
  /\ UNCHANGED <<up, end_offset, acked, log, appends, crashes, kinds>>

\* pwrite of the sentinel
WriteSentinel ==
  /\ app.pc = "synced"
  /\ Pwrite(SentinelCell(app.start, app.ev))
  /\ app' = [app EXCEPT !.pc = "sentinel"]
  /\ UNCHANGED <<up, end_offset, acked, log, appends, crashes, kinds>>

SentinelFails ==
  /\ app.pc = "synced"
  /\ app' = Idle
  /\ UNCHANGED <<cache, disk, dirty, up, end_offset, acked, log, appends,
                 crashes, kinds>>

\* the second fsync, the publication of end_offset and the return
Published(a) ==
  /\ end_offset' = a.start + Frame(a.ev)
  /\ acked' = acked \cup {[off |-> a.start, ev |-> a.ev]}
  /\ log' = Append(log, [off |-> a.start, ev |-> a.ev])

\* Mutated form of SyncSentinel: the call returns without the second fsync.
SyncSentinelUnsynced ==
  /\ app.pc = "sentinel"
  /\ Published(app)
  /\ app' = Idle
  /\ UNCHANGED <<cache, disk, dirty, up, appends, crashes, kinds>>

SyncSentinel ==
  /\ app.pc = "sentinel"
  /\ FsyncOk
  /\ Published(app)
  /\ app' = Idle
  /\ UNCHANGED <<up, appends, crashes, kinds>>

SyncSentinelFails ==
  /\ app.pc = "sentinel"
  /\ FsyncFails
  /\ app' = Idle
  /\ UNCHANGED <<up, end_offset, acked, log, appends, crashes, kinds>>

----------------------------------------------------------------------------
(* event_log_open, event_log_close and the crashes *)

\* ftruncate to n: the cells from n on are holes again.
Truncate(n) ==
  /\ cache' = [c \in Cell |-> IF c < n THEN cache[c] ELSE Hole]
  /\ dirty' = dirty \cup (n .. Size(cache) - 1)
  /\ UNCHANGED disk

TruncateAndFsync(n) ==
  /\ cache' = [c \in Cell |-> IF c < n THEN cache[c] ELSE Hole]
  /\ disk' = [c \in Cell |-> IF c \in dirty \/ c >= n THEN cache'[c] ELSE disk[c]]
  /\ dirty' = {}

\* What recover_truncate_partial accepts.  A pread or malloc that fails ends
\* the walk like an invalid event does.
Recovered ==
  LET whole == Walk(cache, 0, Size(cache))
  IN {SubSeq(whole, 1, n) :
        n \in IF ReadsMayFail THEN 0 .. Len(whole) ELSE {Len(whole)}}

\* The handle is published at the end of the last good event.  Only a
\* truncation is followed by an fsync.
Open ==
  /\ ~up
  /\ \E good \in Recovered :
       LET last_good_end == EndOf(good, 0)
       IN /\ IF last_good_end < Size(cache)
             THEN TruncateAndFsync(last_good_end)
             ELSE UNCHANGED <<cache, disk, dirty>>
          /\ end_offset' = last_good_end
          /\ log' = good
  /\ up' = TRUE
  /\ UNCHANGED <<app, acked, appends, crashes, kinds>>

\* The fsync after the truncation fails and event_log_open returns NULL.
OpenFails ==
  /\ ~up
  /\ \E good \in Recovered :
       /\ EndOf(good, 0) < Size(cache)
       /\ Truncate(EndOf(good, 0))
  /\ UNCHANGED <<up, end_offset, app, acked, log, appends, crashes, kinds>>

Close ==
  /\ LogIdle
  /\ FsyncOk
  /\ up' = FALSE
  /\ UNCHANGED <<end_offset, app, acked, log, appends, crashes, kinds>>

\* External: the process dies; the kernel and its cache live on.
Kill ==
  /\ up /\ "kill" \in kinds /\ crashes < MaxCrashes
  /\ up' = FALSE
  /\ app' = Idle
  /\ crashes' = crashes + 1
  /\ UNCHANGED <<cache, disk, dirty, end_offset, acked, log, appends, kinds>>

\* External: the machine loses power; some of the dirty cells had been
\* written back.
PowerLoss ==
  /\ "power" \in kinds /\ crashes < MaxCrashes
  /\ \E S \in SUBSET dirty : disk' = Flushed(S) /\ cache' = Flushed(S)
  /\ dirty' = {}
  /\ up' = FALSE
  /\ app' = Idle
  /\ crashes' = crashes + 1
  /\ UNCHANGED <<end_offset, acked, log, appends, kinds>>

----------------------------------------------------------------------------

LogInit ==
  /\ cache = [c \in Cell |-> Hole]
  /\ disk = cache
  /\ dirty = {}
  /\ up = FALSE
  /\ end_offset = 0
  /\ app = Idle
  /\ acked = {}
  /\ log = <<>>
  /\ appends = 0
  /\ crashes = 0
  /\ kinds \in {{"kill"}, {"power"}, {"kill", "power"}}

\* steps of event_log_append, called with one of events
AppendStep(events) ==
  \/ \E e \in events : AppendBody(e) \/ AppendBodyFails(e)
  \/ SyncBody
  \/ WriteSentinel \/ SentinelFails
  \/ SyncSentinel \/ SyncSentinelFails

----------------------------------------------------------------------------
(* Properties *)

CellValue ==
  {Hole} \cup {Header(e) : e \in Event} \cup {Sentinel(o) : o \in Cell}
    \cup {Payload(e, i) : e \in Event, i \in 1 .. FileCells}

LogTypeOK ==
  /\ cache \in [Cell -> CellValue] /\ disk \in [Cell -> CellValue]
  /\ dirty \subseteq Cell
  /\ up \in BOOLEAN
  /\ end_offset \in 0 .. FileCells
  /\ app.pc \in {"idle", "body", "synced", "sentinel"}
  /\ \A c \in Cell \ dirty : cache[c] = disk[c]

\* Every cell of r's frame is in f: its own header, its own payload, its own
\* sentinel.
Whole(f, r) ==
  /\ f[r.off] = Header(r.ev)
  /\ \A i \in 1 .. PayloadLen[r.ev] : f[r.off + i] = Payload(r.ev, i)
  /\ f[r.off + Frame(r.ev) - 1] = Sentinel(r.off)

\* "No torn writes are ever observable to readers": below end_offset the file
\* is a run of whole events with no gap, whatever an append that is under way,
\* or one that failed there before, has left in the file.
ReadersSeeWhole ==
  up => /\ \A i \in DOMAIN log : Whole(cache, log[i])
        /\ \A i \in DOMAIN log :
             log[i].off = EndOf(SubSeq(log, 1, i - 1), 0)
        /\ end_offset = EndOf(log, 0)

\* An event whose append returned an offset is on the disk at that offset, and
\* so is everything before it: whatever crash comes next, the walk of the next
\* open reaches it.
AckedOnDisk ==
  acked \subseteq Range(Walk(disk, 0, FileCells))

\* A run that sees only one kind of crash
OneKind == kinds # {"kill", "power"}

\* Opening the log again finds every event the last run could read, plus at
\* most the one whose append was cut short.  With both kinds of crash in one
\* run it does not: see RecoveredIsDurable.
RecoveryKeepsLog ==
  [][(OneKind /\ ~up /\ up') =>
       /\ Len(log') \in {Len(log), Len(log) + 1}
       /\ log = SubSeq(log', 1, Len(log))]_logVars

\* "Event is well-formed and durable" (event_log.c:308), of every event the
\* recovery walk accepts: once the handle is published, what can be read back
\* is on the disk.
RecoveredIsDurable ==
  up => Range(log) \subseteq Range(Walk(disk, 0, FileCells))
=============================================================================
