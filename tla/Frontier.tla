------------------------------ MODULE Frontier ------------------------------
(***************************************************************************)
(* The provable frontier H* of the reducer and the repair that starts from *)
(* it.  reducer_frontier_compute_hstar reads the stage logs and cursors    *)
(* and gives the highest height up to which every stage has passed every   *)
(* block; the condition reducer_frontier_reconcile_light compares the      *)
(* flags and cursors with it once the tip is stale, and mends them while   *)
(* the stages go on running.                                               *)
(*                                                                         *)
(* The repair reads H* and the cursors in one locked section and acts on   *)
(* them in later ones: a step of a stage, an anchor or a restart may come  *)
(* between.  coins_applied_height is the cursor of utxo_apply (UtxoApply   *)
(* shows that it is).                                                      *)
(***************************************************************************)
EXTENDS Pipeline

CONSTANT TrustedHeight   \* the height of the compiled UTXO checkpoint

ASSUME TrustedAssumption == TrustedHeight \in Heights

VARIABLES unresolved,    \* heights whose script row says prevout_unresolved
          markers,       \* blocks with a one-shot script_replay marker
          snapshot       \* what the repair under way has read

fvars == <<vars, unresolved, markers, snapshot>>

(* k_logs.                                                                 *)
KLogs == {"validate_headers", "script_validate", "body_persist",
          "proof_validate", "utxo_apply", "tip_finalize"}

Passed(s, h) == log[s][h].status \in {"ok", "anchor"}
Present(s, h) == log[s][h].status # "none"

(* log_contiguous_prefix.                                                  *)
Prefix(s, anchor) ==
    Max({anchor} \cup {h \in Heights :
                          /\ anchor < h /\ h < cursor[s]
                          /\ \A k \in anchor + 1 .. h : Passed(s, k)})

(* Mutant: an anchor row counts wherever the stages are.                   *)
AnchorOkAnywhere(h) == TRUE

(* reducer_anchor_candidate_ok: every stage is past the anchor, and passed *)
(* the height above it if it got that far.                                 *)
AnchorOk(h) ==
    \A s \in KLogs : /\ cursor[s] >= h + 1
                     /\ cursor[s] > h + 1 => Passed(s, h + 1)

(* reducer_trusted_anchor.                                                 *)
TrustedAnchor ==
    Max({TrustedHeight} \cup
        {h \in Heights : /\ h >= TrustedHeight
                         /\ log["tip_finalize"][h].status = "anchor"
                         /\ AnchorOk(h)})

(* The two hashes of height h differ (apply_hash_agreement).               *)
Split(h) ==
    LET v == log["validate_headers"][h].hash
        s == log["script_validate"][h].hash
    IN  v # NoBlock /\ s # NoBlock /\ v # s

(* reducer_frontier_compute_hstar.                                         *)
HStar ==
    LET a == TrustedAnchor
        top == Min({Prefix(s, a) : s \in KLogs})
        split == {h \in a + 1 .. top : Split(h)}
    IN  IF split = {} THEN top ELSE Min(split) - 1

(* tip_finalize_served_floor.                                              *)
ServedFloor == Max({0} \cup {h \in Heights : Passed("tip_finalize", h)})

(* read_frontier_snapshot: one locked read.                                *)
SweepTop ==
    Max({ServedFloor} \cup {cursor[s] - 1 : s \in Stages \ {"header_admit"}})
Snapshot == [hstar |-> HStar, top |-> SweepTop, cursor |-> cursor]
None == [hstar |-> -1, top |-> -1, cursor |-> [s \in Stages |-> 0]]

-----------------------------------------------------------------------------
(* script_validate cannot look up an output that exists: the row says that *)
(* the block failed.                                                       *)
PrevoutMissed ==
    LET c == cursor["script_validate"]
        b == Chain[Extended][c]
    IN  /\ faults < MaxFaults
        /\ CheckReady("script_validate") /\ b # Genesis
        /\ window' = Extended
        /\ log' = [log EXCEPT !["script_validate"][c] = Row("bad", b)]
        /\ cursor' = [cursor EXCEPT !["script_validate"] = c + 1]
        /\ unresolved' = unresolved \cup {c}
        /\ faults' = faults + 1
        /\ UNCHANGED <<frontier, candidate, bodies, scripted, solved, floor,
                       published, headers, markers, snapshot>>

(* A step of the pipeline; a row that is written again loses its status.   *)
Pipelines ==
    /\ Runs
    /\ unresolved' = unresolved \
          (cursor["script_validate"] .. cursor'["script_validate"] - 1)
    /\ UNCHANGED <<markers, snapshot>>

Reboots ==
    /\ Restarts
    /\ snapshot' = None
    /\ UNCHANGED <<unresolved, markers>>

-----------------------------------------------------------------------------
(* Mutant: only a row below the coins is looked for.                       *)
StaleHeightsApplied ==
    {h \in unresolved : \A s \in {"script_validate", "proof_validate",
                                  "utxo_apply"} : h < cursor[s]}

(* maybe_repair_stale_script.  The lowest such row below the cursor, with  *)
(* the stages on both sides past it.                                       *)
StaleHeights ==
    {h \in unresolved : \A s \in {"script_validate", "proof_validate",
                                  "body_persist"} : h < cursor[s]}
StaleHole == Min(StaleHeights)
StaleFound ==
    /\ StaleHeights # {}
    /\ \A h \in unresolved : h < cursor["script_validate"] => h >= StaleHole

(* The replay starts at the coins' frontier if that is lower.              *)
ReplayFirst == Min({StaleHole, cursor["utxo_apply"]})

Readable(h) == HasActive(window, h) /\ Chain[window][h] \in bodies

(* The block is read, and every body the replay needs is indexed.          *)
ReplayTried == StaleFound /\ Readable(StaleHole)
ReplayRuns ==
    /\ \A h \in ReplayFirst .. cursor["body_persist"] - 1 :
          Present("body_persist", h) \/ Readable(h)
    /\ \A h \in ReplayFirst .. cursor["utxo_apply"] - 1 :
          Present("utxo_apply", h)
ReplayAllowed ==
    Chain[window][StaleHole] \notin Bad["script_validate"] \cup markers

(* Rows of stage s from height h on.                                       *)
Deleted(s, h) ==
    [k \in Heights |-> IF h <= k /\ k < cursor[s] THEN NoRow ELSE log[s][k]]

(* stale_script_replay_tx: one transaction.                                *)
Replay ==
    LET first == ReplayFirst IN
    /\ log' = [s \in Stages |->
                  IF s \in {"script_validate", "proof_validate", "utxo_apply"}
                  THEN Deleted(s, first) ELSE log[s]]
    /\ cursor' = [s \in Stages |->
                     CASE s \in {"script_validate", "proof_validate",
                                 "tip_finalize"} -> first
                       [] s = "utxo_apply" -> Min({first, cursor[s]})
                       [] OTHER -> cursor[s]]
    /\ unresolved' = {h \in unresolved : h < first}
    /\ markers' = markers \cup {Chain[window][StaleHole]}
    /\ UNCHANGED scripted

-----------------------------------------------------------------------------
(* The refill scans.  Each looks at the heights between H* and the cursor  *)
(* its stage had, and finds the lowest row that the stage above has and it *)
(* has not.                                                                *)
Above(snap, s) ==
    snap.hstar + 1 .. Min({snap.cursor[s] - 1, snap.top})
HeaderHoles(snap) ==
    {h \in Above(snap, "validate_headers") :
        Present("header_admit", h) /\ ~ Present("validate_headers", h)}
SplitHoles(snap) ==
    {h \in Above(snap, "validate_headers") :
        /\ Passed("validate_headers", h) /\ Passed("script_validate", h)
        /\ Split(h)}
FetchHoles(snap) ==
    {h \in Above(snap, "body_fetch") :
        Passed("validate_headers", h) /\ ~ Present("body_fetch", h)}
PersistHoles(snap) ==
    {h \in Above(snap, "body_persist") :
        Passed("body_fetch", h) /\ ~ Present("body_persist", h)}

Lowest(H) == IF H = {} THEN {} ELSE {Min(H)}

(* The heights each cursor is asked to go back to.                         *)
RefillTargets(snap) ==
    LET header == Lowest(HeaderHoles(snap))
        fetch == Lowest(FetchHoles(snap))
        unsaved == {h \in header \cup fetch : ~ Present("body_persist", h)}
        targets ==
            [s \in Stages |->
                CASE s = "validate_headers" -> header \cup SplitHoles(snap)
                  [] s = "body_fetch" -> header \cup fetch
                  [] s = "body_persist" -> unsaved \cup PersistHoles(snap)
                  [] OTHER -> {}]
    IN  [s \in Stages |-> {h \in targets[s] : h < snap.cursor[s]}]

(* Mutant: off by one.                                                     *)
TipFloorAtHStar(snap) == Min({snap.hstar, snap.cursor["utxo_apply"]})

(* reconcile_tip_finalize_cursor: H* + 1, no higher than the coins.        *)
TipFloor(snap) == Min({snap.hstar + 1, snap.cursor["utxo_apply"]})

(* The cursors after stage_reducer_frontier_reconcile_refill_cursors and   *)
(* the clamp; a stage that was already at its target is left where it is.  *)
Reconciled(snap) ==
    LET target == RefillTargets(snap) IN
    [s \in Stages |->
        CASE s = "tip_finalize" /\ snap.cursor[s] # TipFloor(snap) ->
                TipFloor(snap)
          [] target[s] # {} -> Min(target[s])
          [] OTHER -> cursor[s]]

(* Mutant: the rows count for any block of their height.                   *)
ReflaggedByHeight(snap) ==
    scripted \cup {b \in bodies :
        /\ snap.hstar < HeightOf[b] /\ HeightOf[b] <= snap.top
        /\ Passed("script_validate", HeightOf[b])}

(* reconcile_block_index_flags: the script level follows the hash-bound    *)
(* rows above H*.                                                          *)
Reflagged(snap) ==
    scripted \cup {b \in headers :
        /\ snap.hstar < HeightOf[b] /\ HeightOf[b] <= snap.top
        /\ log["script_validate"][HeightOf[b]] = Row("ok", b)}

(* The coins are past H*: only a stale header verdict is mended.           *)
CoinTear(snap) == snap.cursor["utxo_apply"] > snap.hstar + 1

Reconcile(snap) ==
    /\ IF CoinTear(snap)
       THEN /\ cursor' = IF SplitHoles(snap) = {} THEN cursor
                         ELSE [cursor EXCEPT !["validate_headers"] =
                                  Min(SplitHoles(snap))]
            /\ UNCHANGED scripted
       ELSE /\ cursor' = Reconciled(snap)
            /\ scripted' = Reflagged(snap)
    /\ UNCHANGED <<log, unresolved, markers>>

-----------------------------------------------------------------------------
(* detect_reducer_frontier_reconcile_light on a stale tip: the dry run     *)
(* finds something to do.                                                  *)
Needed ==
    LET snap == Snapshot IN
    /\ frontier
    /\ \/ StaleFound
       \/ IF CoinTear(snap) THEN SplitHoles(snap) # {}
          ELSE Reconciled(snap) # cursor \/ Reflagged(snap) # scripted

BeginRepair ==
    /\ snapshot = None /\ Needed
    /\ snapshot' = Snapshot
    /\ UNCHANGED <<vars, unresolved, markers>>

(* reducer_frontier_reconcile_light_impl after its snapshot: a replay ends *)
(* it, and so does one that cannot be run.                                 *)
EndRepair ==
    /\ snapshot # None
    /\ snapshot' = None
    /\ CASE ReplayTried /\ ~ ReplayRuns ->
               UNCHANGED <<cursor, log, scripted, unresolved, markers>>
         [] ReplayTried /\ ReplayRuns /\ ReplayAllowed -> Replay
         [] OTHER -> Reconcile(snapshot)
    /\ UNCHANGED <<frontier, window, candidate, bodies, solved, floor,
                   published, headers, faults>>

FrontierInit ==
    Init /\ unresolved = {} /\ markers = {} /\ snapshot = None

Repairs == BeginRepair \/ EndRepair

FrontierNext == Pipelines \/ Reboots \/ PrevoutMissed \/ Repairs

FrontierSpec == FrontierInit /\ [][FrontierNext]_fvars

(* A step of a stage: neither an anchor nor a repair.                      *)
StageTicks ==
    LET c == cursor'["tip_finalize"] IN
    /\ Drives /\ UNCHANGED snapshot
    /\ c > cursor["tip_finalize"] => log'["tip_finalize"][c - 1].status = "ok"

(* The stages are ticked for ever, and the condition engine polls for      *)
(* ever: neither rests while it has a step to take.                        *)
RepairReady == snapshot # None \/ Needed
FrontierFairness ==
    /\ []<>(~ StageReady) \/ []<><<StageTicks>>_vars
    /\ []<>(~ RepairReady) \/ []<><<TRUE>>_snapshot

-----------------------------------------------------------------------------
(* reducer_frontier.h: "[0, H*] is a provably-consistent prefix": on one   *)
(* chain no stage would reject a block at or below H*, and the coins are   *)
(* past it, whatever anchors, restarts and repairs came before.            *)
HStarSound ==
    OneChain =>
        \A b \in UNION {Bad[s] : s \in Stages} \cap headers :
            HeightOf[b] > HStar

(* "a quantity the heal can't move": whatever the stages did since the     *)
(* repair read H*, it deletes no row and moves no cursor back at or below  *)
(* that height.                                                            *)
RepairKeepsHStar ==
    [][EndRepair /\ OneChain => \A s \in Stages :
          /\ cursor'[s] > snapshot.hstar \/ cursor'[s] >= cursor[s]
          /\ \A h \in 0 .. snapshot.hstar : log'[s][h] = log[s][h]]_fvars

(* On one chain, once everything has arrived, a script verdict that was    *)
(* only a failed lookup is found and replayed: the tip converges as if it  *)
(* had passed.  Not where a restart or an anchor left a hole.              *)
HealConverges ==
    <>[]Arrived =>
        <>[](\/ ~ OneChain
             \/ /\ cursor["utxo_apply"] > HeightOf[Best[headers]]
                /\ cursor["tip_finalize"] >= HeightOf[Best[headers]]
             \/ Holed
             \/ ~ frontier
             \/ ~ FloorHoldsFailures)

(* stage_repair.h: "it never deletes log rows and never mutates coins".    *)
RepairKeepsRows ==
    [][EndRepair => \A s \in Stages, h \in Heights :
                        Present(s, h) => log'[s][h] = log[s][h]]_fvars

(* self-healing-reducer-plan.md: "the upstream validation cursors          *)
(* (header_admit..proof_validate) are reset ONLY if their logs have a      *)
(* genuine ok=0/hole above H*": on one chain a hole that an anchor left    *)
(* above the coins is filled in the end.                                   *)
HolesRefilled == <>[]Arrived => <>[](~ OneChain \/ ~ Holed)
=============================================================================
