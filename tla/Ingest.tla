------------------------------- MODULE Ingest -------------------------------
(***************************************************************************)
(* The synchronous ingest of a block (reducer_ingest_block): the header    *)
(* goes to the inbox of header_admit, the caller takes the activation      *)
(* mutex, drains the two header stages, saves the body, drains all eight   *)
(* stages to convergence, lets the mutex go and only then reads back what  *)
(* became of the block.  header_admit empties the inbox into a small ring  *)
(* of raw headers and creates the index entry of a height the active chain *)
(* does not have from it.                                                  *)
(*                                                                         *)
(* The stages are those of Pipeline.  A drive takes them in order, each    *)
(* until it does not advance; the supervisor drains one stage per tick and *)
(* begins no tick during an ingest, but one that has begun goes on.        *)
(***************************************************************************)
EXTENDS Pipeline, Sequences

CONSTANTS Callers,       \* threads that ingest blocks or kick the reducer
          Nobody,        \* the activation mutex is free
          PendingCap,    \* HEADER_ADMIT_PENDING_CAP
          InboxCap,      \* HEADER_ADMIT_INBOX_CAPACITY
          Deployments    \* the callers that run together and the stages
                         \* the supervisor ticks besides them

ASSUME IngestAssumption ==
    /\ PendingCap \in Nat \ {0} /\ InboxCap \in Nat \ {0}
    /\ Nobody \notin Callers
    /\ \A D \in Deployments : D \subseteq Callers \cup Stages

VARIABLES actors,    \* the deployment
          index,     \* map_block_index
          inbox,     \* the mailbox of header_admit
          ring,      \* g_pending and the static rr of pending_header_stage
          holder,    \* ctl->mutex
          call,      \* what each caller is doing, with which block
          drive,     \* the pass of the holder: its stage, has it advanced,
                     \* did a stage go FATAL since the drive began
          tick,      \* the stage the supervisor drains
          broken,    \* the stage whose commits fail
          accepted,  \* blocks reducer_ingest_block returned true for
          paged      \* EV_OPERATOR_NEEDED was emitted

queues == <<inbox, ring, index>>
callVars == <<holder, call, drive, tick, accepted, paged>>
ivars == <<vars, queues, callVars, broken, actors>>

Order == <<"header_admit", "validate_headers", "body_fetch", "body_persist",
           "script_validate", "proof_validate", "utxo_apply", "tip_finalize">>
PrefixEnd == 2
PassEnd == 8

NoStage == "none"
IdleCall == [pc |-> "idle", block |-> NoBlock, live |-> FALSE]
NoDrive == [at |-> 1, adv |-> FALSE, fatal |-> FALSE]

IngestInit ==
    /\ Init
    /\ actors \in Deployments
    /\ index = {Genesis} /\ inbox = <<>>
    /\ ring = [slots |-> [i \in 0 .. PendingCap - 1 |-> NoBlock], rr |-> 0]
    /\ holder = Nobody /\ call = [t \in Callers |-> IdleCall]
    /\ drive = NoDrive /\ tick = NoStage
    /\ broken = NoStage /\ accepted = {} /\ paged = FALSE

(* The headers that fail contextual_check_block_header.                    *)
Uncontextual == Bad["header_admit"]

Parent(b) == Chain[b][HeightOf[b] - 1]

-----------------------------------------------------------------------------
(* header_admit: the inbox, the ring and the producer.                     *)

(* Mutant: a full ring refuses the header.                                 *)
StagedIfFree(r, b) ==
    LET free == {i \in DOMAIN r.slots : r.slots[i] = NoBlock} IN
    IF \E i \in DOMAIN r.slots : r.slots[i] = b THEN r
    ELSE IF free # {} THEN [r EXCEPT !.slots[Min(free)] = b]
    ELSE r

(* pending_header_stage: the first free slot, or the next in turn.         *)
Staged(r, b) ==
    LET free == {i \in DOMAIN r.slots : r.slots[i] = NoBlock}
        turn == (r.rr + 1) % PendingCap
    IN  IF \E i \in DOMAIN r.slots : r.slots[i] = b THEN r
        ELSE IF free # {} THEN [r EXCEPT !.slots[Min(free)] = b]
        ELSE [slots |-> [r.slots EXCEPT ![turn] = b], rr |-> turn]

(* The ring once the inbox is drained.                                     *)
Drained ==
    LET R[n \in 0 .. Len(inbox)] ==
          IF n = 0 THEN ring ELSE Staged(R[n - 1], inbox[n].block)
    IN  R[Len(inbox)]

(* A message with a height hint logs the header if the active chain has it. *)
Hinted ==
    LET H == {HeightOf[b] : b \in
                 {m.block : m \in {n \in Range(inbox) :
                     /\ n.hinted /\ HasActive(window, HeightOf[n.block])
                     /\ Chain[window][HeightOf[n.block]] = n.block}}}
    IN  [h \in Heights |-> IF h \in H THEN Row("ok", Chain[window][h])
                           ELSE log["header_admit"][h]]

(* pending_header_take: slots whose header would land at height h.         *)
Landing(r, h) ==
    {i \in DOMAIN r.slots : /\ r.slots[i] # NoBlock
                            /\ HeightOf[r.slots[i]] = h
                            /\ Parent(r.slots[i]) \in index}

(* The height header_admit works on and the block it has for it.           *)
AdmitHeight == AdmitCursor(window)
Produces == ~ HasActive(Extended, AdmitHeight) /\ Landing(Drained, AdmitHeight) # {}
Produced == Drained.slots[Min(Landing(Drained, AdmitHeight))]

(* Mutant: the producer does not check the header it creates an entry for. *)
AdmitsUnchecked == HasActive(Extended, AdmitHeight) \/ Produces

(* The contextual check that the ingest of a child before its parent       *)
(* skipped is made here; a rejected header has left its slot.              *)
Admits == \/ HasActive(Extended, AdmitHeight)
          \/ Produces /\ Produced \notin Uncontextual
Admitted == IF Produces THEN Produced ELSE Chain[Extended][AdmitHeight]

(* The best header advances to a block with more work.                     *)
BestHeaderWith(b) == IF HeightOf[b] > HeightOf[candidate] THEN b ELSE candidate

(* header_admit_stage_step_once.  A failed commit loses the row and the    *)
(* cursor; the slot is taken, the entry and the best header remain.        *)
Admit(commits) ==
    LET c == AdmitHeight IN
    /\ inbox' = <<>>
    /\ ring' = IF Produces
               THEN [Drained EXCEPT !.slots[Min(Landing(Drained, c))] = NoBlock]
               ELSE Drained
    /\ index' = IF Admits THEN index \cup {Admitted} ELSE index
    /\ candidate' = IF Admits THEN BestHeaderWith(Admitted) ELSE candidate
    /\ window' = Extended
    /\ log' = [log EXCEPT !["header_admit"] =
                  IF Admits /\ commits
                  THEN [Hinted EXCEPT ![c] = Row("ok", Admitted)] ELSE Hinted]
    /\ cursor' = [cursor EXCEPT !["header_admit"] =
                     IF Admits /\ commits THEN c + 1 ELSE c]
    /\ UNCHANGED <<frontier, scripted, floor, published, stores>>

-----------------------------------------------------------------------------
(* One call of a stage's step: it advances, or it does not.                *)
BatchReady == NextBatch # {} /\ \A h \in NextBatch : HasActive(Extended, h)
Advances(s) ==
    CASE s = "header_admit" -> Admits
      [] s = "validate_headers" -> BatchReady
      [] s \in Checks -> SkipReady(s) \/ CheckReady(s)
      [] s = "utxo_apply" -> /\ UnwindAllowed(Extended)
                             /\ Appliable(Extended, ApplyCursor(Extended))
      [] s = "tip_finalize" -> Finalizable(Extended, FinalizeCursor(Extended))

Advance(s) ==
    /\ Advances(s) /\ s # broken
    /\ \/ s = "header_admit" /\ Admit(TRUE)
       \/ /\ \/ s = "validate_headers" /\ ValidateHeaders
             \/ s \in Checks /\ (SkipFailed(s) \/ Check(s))
             \/ s = "utxo_apply" /\ UtxoApply
             \/ s = "tip_finalize" /\ FinalizeTip
          /\ UNCHANGED queues

(* Only the window may have moved.                                         *)
Rests ==
    /\ window' = Extended
    /\ UNCHANGED <<cursor, log, frontier, candidate, scripted, floor, published,
                   stores>>

(* What a step does that does not advance: a rewind or a recheck stays.    *)
Idle(s) ==
    /\ ~ Advances(s)
    /\ CASE s = "header_admit" -> Admit(TRUE)
         [] s = "validate_headers" /\ RecheckStart < cursor[s]
            -> RecheckHeaders /\ UNCHANGED queues
         [] s = "utxo_apply" /\ UnwindAllowed(Extended)
                             /\ ApplyCursor(Extended) # cursor[s]
            -> UtxoApply /\ UNCHANGED queues
         [] s = "tip_finalize" /\ FinalizeCursor(Extended) # cursor[s]
            -> RewindTip /\ UNCHANGED queues
         [] OTHER -> Rests /\ UNCHANGED queues

(* The step ran and its COMMIT failed: FATAL.  These are the stages whose  *)
(* step has changed more by then than the transaction takes back.          *)
Breakable == {"header_admit", "script_validate", "tip_finalize"}

Fatal(s) ==
    /\ s = broken /\ Advances(s)
    /\ \/ s = "header_admit" /\ Admit(FALSE)
       \/ /\ s = "script_validate"
          /\ window' = Extended
          /\ scripted' = IF CheckReady(s)
                         THEN scripted \cup ({Chain[Extended][cursor[s]]} \ Bad[s])
                         ELSE scripted
          /\ UNCHANGED <<cursor, log, frontier, candidate, floor, published,
                         stores, queues>>
       \/ /\ s = "tip_finalize"
          /\ LET c == FinalizeCursor(Extended)
                 new == Chain[Extended][c + 1]
             IN  /\ cursor' = [cursor EXCEPT ![s] = c]
                 /\ window' = new
                 /\ scripted' = scripted \cup {new}
                 /\ published' = IF c + 1 >= published.height
                                 THEN [height |-> c, hash |-> new] ELSE published
          /\ UNCHANGED <<log, frontier, candidate, floor, stores, queues>>

-----------------------------------------------------------------------------
(* reducer_ingest_block up to the mutex: the contextual gate (an unknown   *)
(* parent defers it), the solution, the inbox.  A full inbox is a          *)
(* transient error: nothing changes.                                       *)
Push(t, b) ==
    /\ call[t] = IdleCall
    /\ Parent(b) \in index => b \notin Uncontextual
    /\ Len(inbox) < InboxCap
    /\ inbox' = Append(inbox, [block |-> b, hinted |-> FALSE])
    /\ solved' = IF {b, Parent(b)} \cap index # {}
                 THEN solved \cup ({b} \cap Unsolved) ELSE solved
    /\ call' = [call EXCEPT ![t] = [IdleCall EXCEPT !.pc = "pushed", !.block = b]]
    /\ UNCHANGED <<cursor, log, frontier, window, candidate, bodies, scripted,
                   floor, published, headers, faults, ring, index, holder,
                   drive, tick, accepted, paged, broken>>

(* The mutex, the mark of the drive, and the anchor at the active tip if   *)
(* tip_finalize has not passed it.                                         *)
Enter(t) ==
    /\ call[t].pc = "pushed" /\ holder = Nobody
    /\ holder' = t /\ drive' = NoDrive
    /\ call' = [call EXCEPT ![t].pc = "prefix"]
    /\ IF cursor["tip_finalize"] < HeightOf[published.hash] + 1
       THEN SeedAnchor ELSE UNCHANGED vars
    /\ UNCHANGED <<queues, tick, accepted, paged, broken>>

(* reducer_kick: the mutex only, and no mark.                              *)
Kick(t) ==
    /\ call[t] = IdleCall /\ holder = Nobody
    /\ holder' = t /\ drive' = NoDrive
    /\ call' = [call EXCEPT ![t].pc = "kick"]
    /\ UNCHANGED <<vars, queues, tick, accepted, paged, broken>>

Driving(t) == call[t].pc \in {"prefix", "full", "kick"}
EndOf(t) == IF call[t].pc = "prefix" THEN PrefixEnd ELSE PassEnd

DriveAdvance(t) ==
    /\ Driving(t) /\ Advance(Order[drive.at])
    /\ drive' = [drive EXCEPT !.adv = TRUE]
    /\ UNCHANGED <<holder, call, tick, accepted, paged, broken>>

(* A stage that does not advance, with or without a FATAL.                 *)
Halts(s) == (Idle(s) \/ Fatal(s)) /\ UNCHANGED <<tick, accepted, broken>>
FatalNow(s) == drive.fatal \/ (s = broken /\ Advances(s))

(* The drive goes on to the next stage, and after the last one to a new    *)
(* pass if this one advanced anything.                                     *)
DriveOn(t) ==
    LET over == drive.at = EndOf(t) IN
    /\ Driving(t) /\ (over => drive.adv)
    /\ Halts(Order[drive.at])
    /\ drive' = [at |-> IF over THEN 1 ELSE drive.at + 1,
                 adv |-> ~ over /\ drive.adv,
                 fatal |-> FatalNow(Order[drive.at])]
    /\ UNCHANGED <<holder, call, paged>>

(* The prefix has converged: the body is saved next.                       *)
PrefixOver(t) ==
    /\ call[t].pc = "prefix" /\ drive.at = PrefixEnd /\ ~ drive.adv
    /\ Halts(Order[PrefixEnd])
    /\ call' = [call EXCEPT ![t].pc = "save"]
    /\ drive' = NoDrive
    /\ UNCHANGED <<holder, paged>>

(* What a caller keeps when it lets the mutex go: is its block in the      *)
(* index, and is it the active tip?                                        *)
Release(t) ==
    LET b == call[t].block IN
    /\ holder' = Nobody /\ drive' = NoDrive
    /\ call' = [call EXCEPT ![t] =
                    IF @.pc = "full" /\ b \in index
                    THEN [pc |-> "reading", block |-> b,
                          live |-> published'.hash = b]
                    ELSE IdleCall]

(* Only a block with an index entry is saved.                              *)
Saved(b) == bodies \cup ({b} \cap index)

(* reducer_persist_ingested_body_locked: a block without an index entry is *)
(* not saved, a rejected header or a failed write ends the ingest.         *)
Save(t) ==
    LET b == call[t].block
        rejected == log["validate_headers"][HeightOf[b]].status \in {"bad", "retry"}
    IN  /\ call[t].pc = "save"
        /\ IF b \in index \ bodies /\ rejected
           THEN bodies' = bodies /\ Release(t)
           ELSE /\ bodies' = Saved(b)
                /\ call' = [call EXCEPT ![t].pc = "full"]
                /\ UNCHANGED <<holder, drive>>
        /\ UNCHANGED <<cursor, log, frontier, window, candidate, scripted, solved,
                       floor, published, headers, faults, queues, tick,
                       accepted, paged, broken>>

SaveFails(t) ==
    /\ call[t].pc = "save" /\ call[t].block \in index \ bodies
    /\ faults < MaxFaults /\ faults' = faults + 1
    /\ Release(t)
    /\ UNCHANGED <<cursor, log, frontier, window, candidate, bodies, scripted,
                   solved, floor, published, headers, queues, tick, accepted,
                   paged, broken>>

(* Mutant: the generation to compare with is read at the end of the drive. *)
PagesLateSnapshot(s) == paged

(* A drive that ends for want of progress pages if a stage went FATAL.     *)
Pages(s) == paged \/ FatalNow(s)

(* reducer_drain_to_convergence ends: no advance in a pass, or the budget  *)
(* is used up after one that advanced (nobody is paged then).              *)
Converge(t) ==
    LET s == Order[PassEnd] IN
    /\ call[t].pc \in {"full", "kick"} /\ drive.at = PassEnd /\ ~ drive.adv
    /\ Halts(s)
    /\ paged' = Pages(s)
    /\ Release(t)

BudgetUsed(t) ==
    /\ call[t].pc \in {"full", "kick"} /\ drive.at = PassEnd /\ drive.adv
    /\ Halts(Order[PassEnd])
    /\ paged' = paged
    /\ Release(t)

-----------------------------------------------------------------------------
(* Mutant: any indexed block with an applied height is accepted.           *)
VerdictAnyTip(c) ==
    LET h == HeightOf[c.block]
        row == log["tip_finalize"][h]
    IN  /\ log["validate_headers"][h].status \notin {"bad", "retry"}
        /\ \/ row.status \in {"ok", "anchor"} /\ row.hash = c.block
           \/ c.block \in bodies /\ log["utxo_apply"][h].status = "ok"

(* reducer_read_back_verdict and reducer_pending_body_is_accepted, after   *)
(* the mutex is free: the finalized row of the height names the block, or  *)
(* the block was the active tip and its height has an applied row.         *)
Verdict(c) ==
    LET h == HeightOf[c.block]
        row == log["tip_finalize"][h]
    IN  /\ log["validate_headers"][h].status \notin {"bad", "retry"}
        /\ \/ row.status \in {"ok", "anchor"} /\ row.hash = c.block
           \/ /\ c.live /\ c.block \in bodies
              /\ log["utxo_apply"][h].status = "ok"

ReadBack(t) ==
    /\ call[t].pc = "reading"
    /\ accepted' = IF Verdict(call[t]) THEN accepted \cup {call[t].block}
                   ELSE accepted
    /\ call' = [call EXCEPT ![t] = IdleCall]
    /\ UNCHANGED <<vars, queues, holder, drive, tick, paged, broken>>

-----------------------------------------------------------------------------
(* staged_stage_tick: no new tick while an ingest has marked its drive.    *)
Marked == \E t \in Callers : call[t].pc \in {"prefix", "save", "full"}
TickBegin(s) ==
    /\ tick = NoStage /\ ~ Marked
    /\ tick' = s
    /\ UNCHANGED <<vars, queues, holder, call, drive, accepted, paged, broken>>
TickAdvance ==
    /\ tick # NoStage /\ Advance(tick)
    /\ UNCHANGED <<callVars, broken>>
TickEnd ==
    /\ tick # NoStage /\ (Idle(tick) \/ Fatal(tick))
    /\ tick' = NoStage
    /\ drive' = IF holder = Nobody THEN drive
                ELSE [drive EXCEPT !.fatal = FatalNow(tick)]
    /\ UNCHANGED <<holder, call, accepted, paged, broken>>

(* Headers from the network (accept_block_header) and from the probe,      *)
(* which also posts a hint to the inbox.                                   *)
NetworkHeader(b) ==
    /\ b \in headers \ (index \cup Uncontextual) /\ Parent(b) \in index
    /\ index' = index \cup {b}
    /\ candidate' = BestHeaderWith(b)
    /\ UNCHANGED <<cursor, log, frontier, window, scripted, floor, published,
                   stores, inbox, ring, callVars, broken>>

Probe(b) ==
    /\ b \in index /\ Len(inbox) < InboxCap
    /\ inbox' = Append(inbox, [block |-> b, hinted |-> TRUE])
    /\ UNCHANGED <<vars, ring, index, callVars, broken>>

Break(s) ==
    /\ broken = NoStage /\ faults < MaxFaults
    /\ broken' = s /\ faults' = faults + 1
    /\ UNCHANGED <<cursor, log, frontier, window, candidate, bodies, scripted,
                   solved, floor, published, headers, queues, callVars>>

Drive(t) ==
    \/ Enter(t) \/ DriveAdvance(t) \/ DriveOn(t) \/ PrefixOver(t)
    \/ Save(t) \/ SaveFails(t)
    \/ Converge(t) \/ BudgetUsed(t) \/ ReadBack(t)

Ticks == (\E s \in Stages \cap actors : TickBegin(s)) \/ TickAdvance \/ TickEnd

Peers ==
    \/ \E t \in Callers \cap actors : \/ \E b \in headers \ {Genesis} : Push(t, b)
                                     \/ Kick(t)
    \/ \E b \in headers : NetworkHeader(b) \/ Probe(b)

IngestNext ==
    /\ \/ \E t \in Callers \cap actors : Drive(t)
       \/ Ticks
       \/ Peers
       \/ \E s \in Breakable : Break(s)
    /\ UNCHANGED actors

IngestSpec == IngestInit /\ [][IngestNext]_ivars

(* A caller under way is scheduled and leaves a stage in the end (a drain  *)
(* takes a bounded number of steps); a block that peers have is delivered  *)
(* again and again: weak fairness of the drive, strong fairness of Push,   *)
(* with the guards and the effects written out.                            *)
DriveReady == \/ holder # Nobody
              \/ \E t \in actors \cap Callers : call[t].pc \in {"pushed", "reading"}
DriveMoves == \/ drive' # drive \/ holder' # holder
              \/ \E t \in Callers : call[t].pc = "reading" /\ call'[t] # call[t]
PushReady(b) ==
    /\ b \in headers /\ (Parent(b) \in index => b \notin Uncontextual)
    /\ Len(inbox) < InboxCap
    /\ \E t \in actors \cap Callers : call[t] = IdleCall
Pushes(b) ==
    \E t \in Callers : call[t].pc # "pushed" /\ call'[t].pc = "pushed"
                                              /\ call'[t].block = b
IngestFairness ==
    /\ []<>(~ DriveReady) \/ []<><<DriveMoves>>_ivars
    /\ \A b \in UNION Linears \ {Genesis} :
          <>[](~ PushReady(b)) \/ []<><<Pushes(b)>>_ivars

-----------------------------------------------------------------------------
(* The ring and the inbox keep their bounds and a header is staged once;   *)
(* one caller at a time drives, the one that holds the mutex; an indexed   *)
(* block has its parent in the index and a saved one is indexed.           *)
IngestTypeOK ==
    /\ index \subseteq headers /\ bodies \subseteq index
    /\ \A b \in index \ {Genesis} : Parent(b) \in index
    /\ Len(inbox) <= InboxCap /\ ring.rr \in DOMAIN ring.slots
    /\ \A i, j \in DOMAIN ring.slots :
          ring.slots[i] = ring.slots[j] /\ ring.slots[i] # NoBlock => i = j
    /\ {t \in Callers : Driving(t) \/ call[t].pc = "save"} = {holder} \ {Nobody}
    /\ drive.at \in 1 .. PassEnd

(* reducer_ingest_block: "a fork can't borrow another block's row": no     *)
(* block whose scripts fail is accepted, though the verdict is read by     *)
(* height and after the mutex is free.                                     *)
AcceptedScriptChecked == accepted \cap Bad["script_validate"] = {}

(* produce_block_index: "bad-diffbits / time-too-old headers never enter   *)
(* the index", also where the child was delivered before its parent and    *)
(* the gate of the ingest had no parent to check it against.               *)
IndexContextual == index \cap Uncontextual = {}

(* reducer_pending_body_is_accepted: "the live tip is accepted ONLY if it  *)
(* cleared utxo_apply": no accepted block is one that a stage rejects.     *)
AcceptedWasApplied == \A s \in Stages : accepted \cap Bad[s] = {}

(* The header ring holds few headers, keeps those it cannot use and        *)
(* overwrites in turn; a body that comes before its parent is dropped.     *)
(* Still, where blocks are delivered again and again, in any order, every  *)
(* block of one chain before the first rejected one gets applied, a failed *)
(* write of a body included.                                               *)
DeliveredConverges ==
    <>[](\/ ~ OneChain
         \/ cursor["utxo_apply"] > HeightOf[Best[headers]]
         \/ Holed
         \/ broken # NoStage)

(* reducer_drain_to_convergence: "a wedged stage masquerading as idle, so  *)
(* we page EV_OPERATOR_NEEDED": a stage that has work and fails every      *)
(* commit is paged in the end, though a drive that uses up its budget and  *)
(* a supervisor tick page nobody.                                          *)
WedgePaged == <>[](broken # NoStage /\ Advances(broken)) => <>paged
=============================================================================
