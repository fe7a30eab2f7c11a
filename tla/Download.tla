------------------------------ MODULE Download ------------------------------
(***************************************************************************)
(* The block download manager (lib/net/src/download.c) with the threads    *)
(* that drive it: the message thread (msg_send_messages, the block and     *)
(* notfound handlers, the tip-stall watchdog), the socket thread that      *)
(* drops peers, and the gap-fill thread.  Every dl_* call runs under       *)
(* dm->cs and is one step; what the gap-fill thread computed before a call *)
(* and uses in it (`fill') may be stale by then.                           *)
(*                                                                         *)
(* The in-flight table is kept slot by slot: open addressing with linear   *)
(* probing, deletion gaps that keep their hash, growth and compaction.     *)
(***************************************************************************)
EXTENDS Integers, FiniteSets, Sequences, SequencesExt, FiniteSetsExt

CONSTANTS
  Block, Peer, NoBlock, NoPeer,
  Height,          \* the height the block index gives each block
  HashOf,          \* FNV-1a of a block hash, before masking
  Chain,           \* the best-header chain above the first tip, lowest first
  Loopback,        \* peers on the loopback interface
  InitialSlots,    \* INITIAL_SLOTS, a power of two
  QueueCap,        \* 65536, where dl_queue_grow refuses
  MaxTotalIbd, MaxTotal,       \* DL_MAX_IN_FLIGHT_TOTAL_IBD, .._TOTAL
  MaxPerPeer, MinPerPeer, MaxPerLoopback,
  Batches,         \* the max_assign values syncsvc_plan_block_assignment plans
  SizeModulus,     \* 2^w of size_t, above every count of the instance
  GapWindow, PriorityN,        \* GAPFILL_WINDOW, GAPFILL_PRIORITY_BOTTOM_N
  HighWater,       \* DOWNLOAD_QUEUE_HIGH_WATER in blocks
  MaxFaults        \* bound on lost answers, dropped peers, failed allocations

VARIABLES
  slots,        \* dm->slots: 0 .. num_slots-1 -> slot
  num_active,
  queue,        \* dm->queue with its heights
  ibd,          \* dl_is_ibd(): the sync state is one of the download states
  sending,      \* the message thread is between dl_check_timeouts and assignment
  fill,         \* the gap-fill pass: its stage and its value copy of hashes
  stored,       \* blocks with BLOCK_HAVE_DATA
  watch,        \* tip_watchdog g_active
  faults

dm   == <<slots, num_active, queue>>
env  == <<ibd, stored, watch, faults>>
vars == <<slots, num_active, queue, ibd, sending, fill, stored, watch, faults>>

-----------------------------------------------------------------------------
(* The in-flight table.                                                    *)

Virgin == [hash |-> NoBlock, peer |-> NoPeer, active |-> FALSE, old |-> FALSE]

\* A slot whose entry is gone keeps its hash; the rest of it is dead.
Gap(b) == [Virgin EXCEPT !.hash = b]

NumSlots(t) == Cardinality(DOMAIN t)

EmptyTable(n) == [i \in 0 .. n - 1 |-> Virgin]

SlotOrder(t) == [k \in 1 .. NumSlots(t) |-> k - 1]

NoSlot == -1

ProbeAt(t, b, i) == (HashOf[b] + i) % NumSlots(t)

\* The probe offsets find_slot visits: it stops after a never-used slot.
Probed(t, b) ==
  {i \in DOMAIN t : \A j \in 0 .. i - 1 : t[ProbeAt(t, b, j)].hash # NoBlock}

\* Mutant: a deletion gap ends the probe chain.
FindSlotStopsAtGap(t, b, find_empty) ==
  LET probed == {i \in DOMAIN t : \A j \in 0 .. i - 1 : t[ProbeAt(t, b, j)].active}
      hits == {i \in probed : /\ t[ProbeAt(t, b, i)].active
                              /\ t[ProbeAt(t, b, i)].hash = b}
      free == {i \in probed : ~t[ProbeAt(t, b, i)].active}
  IN IF hits # {} THEN ProbeAt(t, b, Min(hits))
     ELSE IF find_empty /\ free # {} THEN ProbeAt(t, b, Min(free))
     ELSE NoSlot

FindSlot(t, b, find_empty) ==
  LET hits == {i \in Probed(t, b) : /\ t[ProbeAt(t, b, i)].active
                                    /\ t[ProbeAt(t, b, i)].hash = b}
      free == {i \in Probed(t, b) : ~t[ProbeAt(t, b, i)].active}
  IN IF hits # {} THEN ProbeAt(t, b, Min(hits))
     ELSE IF find_empty /\ free # {} THEN ProbeAt(t, b, Min(free))
     ELSE NoSlot

InFlight(t, b) == FindSlot(t, b, FALSE) # NoSlot

\* dl_rehash copies the active entries, in slot order, to a table of n.
Rehash(t, n) ==
  LET place(nt, i) ==
        IF ~t[i].active THEN nt
        ELSE LET at(j) == (HashOf[t[i].hash] + j) % n
             IN [nt EXCEPT ![at(Min({j \in 0 .. n - 1 : ~nt[at(j)].active}))] = t[i]]
  IN FoldLeft(place, EmptyTable(n), SlotOrder(t))

\* ok: whether the calloc of dl_rehash succeeds (it is silent otherwise).
MaybeGrow(t, active, ok) ==
  LET n == NumSlots(t)
  IN IF ~ok THEN t
     ELSE IF active * 2 >= n THEN Rehash(t, 2 * n)
     ELSE IF n > InitialSlots /\ active * 4 < n THEN Rehash(t, n)
     ELSE t

ActiveSlots(t) == {i \in DOMAIN t : t[i].active}

PeerCount(t, p) == Cardinality({i \in ActiveSlots(t) : t[i].peer = p})

-----------------------------------------------------------------------------
(* The queue, lowest height first.                                         *)

\* dl_queue_push: after every entry that is not higher; refused when full.
QueuePush(q, b) ==
  IF Len(q) >= QueueCap THEN q
  ELSE InsertAt(q, 1 + Cardinality({i \in DOMAIN q : Height[q[i]] <= Height[b]}), b)

Queued(q, b) == b \in ToSet(q)

\* Mutant: does not look at the in-flight table.
QueueBlocksNoCheck(t, q, bs) ==
  FoldLeft(LAMBDA acc, b : IF Queued(acc, b) THEN acc ELSE QueuePush(acc, b), q, bs)

QueueBlocks(t, q, bs) ==
  FoldLeft(LAMBDA acc, b :
             IF InFlight(t, b) \/ Queued(acc, b) THEN acc ELSE QueuePush(acc, b),
           q, bs)

QueuePriority(t, q, b) ==
  IF InFlight(t, b) THEN q
  ELSE QueuePush(SelectSeq(q, LAMBDA c : c # b), b)

\* Moves the entries at `gone' back to the queue in slot order; a push the
\* queue refuses is not noticed and the block leaves the manager.
\* (Mutant first: the blocks are forgotten.)
RequeueNothing(q, t, gone) == q

Requeue(q, t, gone) ==
  FoldLeft(LAMBDA acc, i : IF i \in gone THEN QueuePush(acc, t[i].hash) ELSE acc,
           q, SlotOrder(t))

Deactivate(t, gone) ==
  [i \in DOMAIN t |-> IF i \in gone THEN Gap(t[i].hash) ELSE t[i]]

-----------------------------------------------------------------------------
(* Assignment.                                                             *)

MaxInFlightTotal == IF ibd THEN MaxTotalIbd ELSE MaxTotal

\* The window a peer may get: fixed on loopback, else scaled by its score,
\* which depends on delivery times only.
PeerWindows(p) ==
  IF p \in Loopback THEN {MaxPerLoopback} ELSE MinPerPeer .. MaxPerPeer

\* Mutant: no global limit.
AvailableNoTotal(peer_count, peer_limit, max_assign) ==
  Min({IF peer_count < peer_limit THEN peer_limit - peer_count ELSE 0,
       max_assign, Len(queue)})

\* `available' of dl_assign_to_peer; the last subtraction is in size_t.
Available(peer_count, peer_limit, max_assign) ==
  LET own == Min({IF peer_count < peer_limit THEN peer_limit - peer_count ELSE 0,
                  max_assign, Len(queue)})
  IN IF num_active + own > MaxInFlightTotal
     THEN (MaxInFlightTotal - num_active) % SizeModulus
     ELSE own

\* One turn of the loop: a popped block that finds no slot is dropped.
AssignOne(acc, b, p, available, ok) ==
  IF acc.assigned >= available THEN [acc EXCEPT !.rest = Append(@, b)]
  ELSE LET t == MaybeGrow(acc.t, acc.n, ok)
           i == FindSlot(t, b, TRUE)
       IN IF i = NoSlot THEN [acc EXCEPT !.t = t]
          ELSE [acc EXCEPT !.t = [t EXCEPT ![i] = [hash |-> b, peer |-> p,
                                                   active |-> TRUE, old |-> FALSE]],
                           !.n = @ + 1, !.assigned = @ + 1]

AssignToPeer(p, max_assign, peer_limit, ok) ==
  LET available == Available(PeerCount(slots, p), peer_limit, max_assign)
      done == FoldLeft(LAMBDA acc, b : AssignOne(acc, b, p, available, ok),
                       [t |-> slots, n |-> num_active, rest |-> <<>>, assigned |-> 0],
                       queue)
  IN /\ slots' = done.t
     /\ num_active' = done.n
     /\ queue' = done.rest

-----------------------------------------------------------------------------
(* The message thread.                                                     *)

Fault == faults < MaxFaults /\ faults' = faults + 1

\* msg_send_messages for one peer of the cycle's snapshot: dl_check_timeouts.
CheckTimeouts(ok) ==
  LET gone == {i \in ActiveSlots(slots) : slots[i].old}
  IN /\ ~sending
     /\ queue' = Requeue(queue, slots, gone)
     /\ num_active' = num_active - Cardinality(gone)
     /\ slots' = MaybeGrow(Deactivate(slots, gone), num_active', ok)
     /\ sending' = TRUE
     /\ IF ok THEN UNCHANGED faults ELSE Fault
     /\ UNCHANGED <<ibd, fill, stored, watch>>

\* ... then syncsvc_assign_peer_blocks, though the socket thread may have
\* dropped the peer in between.
Assign(p, max_assign, peer_limit, ok) ==
  /\ sending
  /\ AssignToPeer(p, max_assign, peer_limit, ok)
  /\ sending' = FALSE
  /\ IF ok THEN UNCHANGED faults ELSE Fault
  /\ UNCHANGED <<ibd, fill, stored, watch>>

\* dl_mark_received of a requested or an unsolicited block.
MarkReceived(b) ==
  LET i == FindSlot(slots, b, FALSE)
  IN /\ slots' = IF i = NoSlot THEN slots ELSE Deactivate(slots, {i})
     /\ num_active' = IF i = NoSlot THEN num_active ELSE num_active - 1

\* process_block_msg: dl_mark_received, then block_submit stores the body,
\* unless snapshot sync is active, the block was seen before or is refused.
\* The watchdog drops the message before dispatch while it is active.  (A body
\* that is neither asked for nor new would change nothing.)
BlockMessage(b, keep) ==
  /\ ~sending /\ ~watch
  /\ InFlight(slots, b) \/ b \notin stored
  /\ MarkReceived(b)
  /\ IF keep THEN stored' = stored \union {b} /\ UNCHANGED faults
     ELSE Fault /\ UNCHANGED stored
  /\ UNCHANGED <<queue, ibd, sending, fill, watch>>

\* dl_peer_disconnected gives back everything asked of the peer.
PeerDisconnected(p) ==
  LET gone == {i \in ActiveSlots(slots) : slots[i].peer = p}
  IN /\ queue' = Requeue(queue, slots, gone)
     /\ slots' = Deactivate(slots, gone)
     /\ num_active' = num_active - Cardinality(gone)

\* The socket thread's cleanup of a dropped node, whose place a new one takes,
\* and process_notfound for a node that stays.
PeerGivesBack(p) ==
  /\ Fault
  /\ PeerDisconnected(p)
  /\ UNCHANGED <<ibd, sending, fill, stored, watch>>

\* process_headers, stall recovery, collect_active_tip_successors.
HeadersQueue(b) ==
  /\ ~sending /\ b \notin stored
  /\ queue' = QueueBlocks(slots, queue, <<b>>)
  /\ UNCHANGED <<slots, num_active, ibd, sending, fill, stored, watch,
                 faults>>

\* dl_drain_for_backpressure.
Drain ==
  /\ queue' = <<>>
  /\ slots' = Deactivate(slots, ActiveSlots(slots))
  /\ num_active' = 0

\* tip_watchdog_tick: entered when the tip has not advanced for a while (the
\* clock is free here) and there is much to download, left when it has advanced
\* or the cooldown is over.
WatchdogEnter ==
  /\ ~sending /\ ~watch /\ Fault
  /\ Len(queue) + num_active > HighWater
  /\ watch' = TRUE
  /\ Drain
  /\ UNCHANGED <<ibd, sending, fill, stored>>

WatchdogLeave ==
  /\ ~sending /\ watch
  /\ watch' = FALSE
  /\ UNCHANGED <<slots, num_active, queue, ibd, sending, fill, stored,
                 faults>>

-----------------------------------------------------------------------------
(* The other threads and the clock.                                        *)

\* gap_fill_pass under cs_main: the lowest GapWindow blocks above the tip that
\* have no body and are not in flight, copied highest first.
Tip == Max({n \in 0 .. Len(Chain) : \A i \in 1 .. n : Chain[i] \in stored})

\* Mutant: the window is taken from the top of the gap, not from its bottom.
GapWindowFromTop ==
  SelectSeq(SubSeq(Reverse(Chain), 1, Min({Len(Chain) - Tip, GapWindow})),
            LAMBDA b : b \notin stored /\ ~InFlight(slots, b))

GapWindowNeed ==
  SelectSeq(Reverse(SubSeq(Chain, Tip + 1, Min({Len(Chain), Tip + GapWindow}))),
            LAMBDA b : b \notin stored /\ ~InFlight(slots, b))

\* Where the pass is after its next call, and the part of its copy still to do.
FillNext ==
  LET n == Min({Len(fill.need), PriorityN})
  IN CASE fill.stage = "idle"  -> [stage |-> "queue", need |-> GapWindowNeed]
       [] fill.stage = "queue" ->
            [stage |-> "priority",
             need |-> SubSeq(fill.need, Len(fill.need) - n + 1, Len(fill.need))]
       [] fill.stage = "priority" ->
            IF Len(fill.need) = 1 THEN [stage |-> "idle", need |-> <<>>]
            ELSE [fill EXCEPT !.need = Front(@)]

FillReady == fill.stage = "idle" => GapWindowNeed # <<>>

GapFillCollect ==
  /\ fill.stage = "idle" /\ FillReady
  /\ fill' = FillNext
  /\ UNCHANGED <<dm, sending, env>>

\* ... outside the lock, dl_queue_blocks with the copy,
GapFillQueue ==
  /\ fill.stage = "queue"
  /\ queue' = QueueBlocks(slots, queue, fill.need)
  /\ fill' = FillNext
  /\ UNCHANGED <<slots, num_active, sending, env>>

\* ... then dl_queue_priority for the lowest ones, lowest first.
GapFillPriority ==
  /\ fill.stage = "priority"
  /\ queue' = QueuePriority(slots, queue, Last(fill.need))
  /\ fill' = FillNext
  /\ UNCHANGED <<slots, num_active, sending, env>>

\* sync_monitor_queue_active_frontier_body, syncsvc_queue_next_block_download.
\* That the body may arrive between their look-up and the call is left to the
\* gap-fill pass, whose copy goes stale in the same way.
FrontierPriority(b) ==
  /\ b \notin stored
  /\ queue' = QueuePriority(slots, queue, b)
  /\ UNCHANGED <<slots, num_active, sending, fill, env>>

\* The answer to a request does not come in time.
RequestAges(i) ==
  /\ slots[i].active /\ ~slots[i].old /\ Fault
  /\ slots' = [slots EXCEPT ![i].old = TRUE]
  /\ UNCHANGED <<num_active, queue, ibd, sending, fill, stored, watch>>

\* sync_set_state moves the node between the download states and the others.
SyncStateChanges ==
  /\ ibd' = ~ibd
  /\ UNCHANGED <<dm, sending, fill, stored, watch, faults>>

-----------------------------------------------------------------------------
Init ==
  /\ slots = EmptyTable(InitialSlots) /\ num_active = 0 /\ queue = <<>>
  /\ ibd = TRUE
  /\ sending = FALSE /\ fill = [stage |-> "idle", need |-> <<>>]
  /\ stored = {} /\ watch = FALSE
  /\ faults = 0

AssignTurn ==
  \E p \in Peer, max_assign \in Batches, ok \in BOOLEAN :
    \E peer_limit \in PeerWindows(p) : Assign(p, max_assign, peer_limit, ok)

SendTurn == \E ok \in BOOLEAN : CheckTimeouts(ok)

GapFillStep == GapFillCollect \/ GapFillQueue \/ GapFillPriority

Next ==
  \/ SendTurn \/ AssignTurn
  \/ \E b \in Block, keep \in BOOLEAN : BlockMessage(b, keep)
  \/ \E b \in Block : HeadersQueue(b) \/ FrontierPriority(b)
  \/ \E p \in Peer : PeerGivesBack(p)
  \/ WatchdogEnter \/ WatchdogLeave
  \/ GapFillStep
  \/ \E i \in DOMAIN slots : RequestAges(i)
  \/ SyncStateChanges

\* The message thread visits every peer of its snapshot on each cycle and
\* handles what has arrived; a request that is not lost is answered; the
\* gap-fill thread runs a pass every GAPFILL_TICK_SECS; the watchdog's cooldown
\* ends.  Each condition names the steps by what they do to the thread's place.
Fairness ==
  /\ SF_sending(~sending /\ sending' = TRUE)
  /\ WF_sending(sending /\ sending' = FALSE)
  /\ SF_num_active(/\ ~sending /\ ~watch /\ num_active > 0
                   /\ sending' = sending /\ num_active' = num_active - 1)
  /\ WF_fill(FillReady /\ fill' = FillNext)
  /\ SF_watch(~sending /\ watch /\ watch' = FALSE)

Spec == Init /\ [][Next]_vars
FairSpec == Spec /\ Fairness

-----------------------------------------------------------------------------
\* Types of the manager's state and of what the threads hold.
TypeOK ==
  /\ DOMAIN slots = 0 .. NumSlots(slots) - 1
  /\ \A i \in DOMAIN slots :
       slots[i] \in [hash : Block \union {NoBlock}, peer : Peer \union {NoPeer},
                     active : BOOLEAN, old : BOOLEAN]
  /\ num_active \in 0 .. Cardinality(Block)
  /\ ToSet(queue) \subseteq Block /\ Len(queue) <= QueueCap
  /\ ibd \in BOOLEAN /\ stored \subseteq Block
  /\ sending \in BOOLEAN
  /\ fill.stage \in {"idle", "queue", "priority"} /\ ToSet(fill.need) \subseteq Block
  /\ watch \in BOOLEAN /\ faults \in 0 .. MaxFaults

\* find_slot reaches every active entry in spite of deletion gaps, growth and
\* compaction, so the table is a map from hashes, and num_active counts it:
\* what dl_mark_received, the duplicate checks and the limits rely on.
TableIsMap ==
  /\ \A i \in ActiveSlots(slots) : FindSlot(slots, slots[i].hash, FALSE) = i
  /\ num_active = Cardinality(ActiveSlots(slots))

\* Whatever order headers, gap-fill copies, timeouts, notfound and disconnects
\* push in (dl_check_timeouts and dl_peer_disconnected push without looking),
\* a block is never queued twice nor queued while in flight, and the front of
\* the queue is the lowest: "structurally impossible for any caller's enqueue
\* order to tail-starve the connectable bottom" (dl_assign_to_peer).
QueueSound ==
  /\ IsInjective(queue)
  /\ \A i \in ActiveSlots(slots) : ~Queued(queue, slots[i].hash)
  /\ \A i, j \in DOMAIN queue : i < j => Height[queue[i]] <= Height[queue[j]]

\* What dl_assign_to_peer hands out stays in the peer's window and, when the
\* manager was within the global limit before, in the global limit.
AssignWithinLimits ==
  [][num_active' > num_active =>
       /\ num_active <= MaxInFlightTotal => num_active' <= MaxInFlightTotal
       /\ \A p \in Peer :
            PeerCount(slots', p) > PeerCount(slots, p) /\ num_active <= MaxInFlightTotal
              => PeerCount(slots', p) <= Max(PeerWindows(p))]_vars

\* As download.h states it: dl_assign_to_peer respects DL_MAX_IN_FLIGHT_TOTAL.
AssignRespectsTotal ==
  [][num_active' > num_active => num_active' <= MaxInFlightTotal]_vars

\* As tip_watchdog.h states it: while the watchdog is active peers are not asked
\* for new blocks.
NoRequestWhileActive == [][watch => num_active' <= num_active]_vars

Tracked(t, q) == ToSet(q) \union {t[i].hash : i \in ActiveSlots(t)}

\* A block the manager tracks leaves it only by arriving, by a backpressure
\* drain, or because the queue was at its capacity or the table could not grow.
NothingLost ==
  [][\A b \in Tracked(slots, queue) \ Tracked(slots', queue') :
       \/ ~sending /\ UNCHANGED <<queue, sending>> /\ MarkReceived(b)
       \/ watch' /\ ~watch
       \/ Len(queue') = QueueCap
       \/ num_active' = NumSlots(slots')]_vars

\* With finitely many lost answers, dropped peers, drains and failed
\* allocations the whole gap is downloaded: what a full queue, a drain or a full
\* table dropped is found again by the gap-fill pass.
GapCloses == <>(ToSet(Chain) \subseteq stored)

=============================================================================
