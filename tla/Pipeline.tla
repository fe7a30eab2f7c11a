------------------------------ MODULE Pipeline ------------------------------
(***************************************************************************)
(* The eight stages of the reducer on one block tree.  Each stage has a    *)
(* durable cursor and a log with one row per height; it takes the height   *)
(* of its cursor once the stage above it has a row there, reads the block  *)
(* at that height from the active-chain window and writes its verdict.     *)
(* Rows are keyed by height: header_admit, utxo_apply and tip_finalize     *)
(* compare the hash in their rows with the window and go back after a      *)
(* reorg, the five stages between them never do.  tip_finalize publishes   *)
(* the block above its cursor; an ingested block first re-anchors every    *)
(* stage at the published tip.                                             *)
(*                                                                         *)
(* One action is one stage step with its commit (Stage shows that the two  *)
(* are atomic), the window is the branch below its top (ActiveChain shows  *)
(* that it is), and the coins are the branch of blocks applied (UtxoApply  *)
(* shows what else they are).  A row holds the block it was written for    *)
(* even where the table has no hash column; the actions do not read it     *)
(* there.                                                                  *)
(***************************************************************************)
EXTENDS Integers, FiniteSetsExt

CONSTANTS Block, NoBlock, Genesis,
          HeightOf,       \* the height of a block
          Chain,          \* Chain[b][h]: the ancestor of b at height h
          Trees,          \* the sets of headers the network may hold
          Bad,            \* Bad[s]: the blocks stage s rejects
          Unsolved,       \* headers stored without their Equihash solution
          FinalityDepth,  \* ZCL_FINALITY_DEPTH
          RewindMax,      \* HEADER_ADMIT_REORG_REWIND_MAX_DEPTH
          Batch,          \* VH_BATCH_SIZE
          MaxFaults       \* bound on restarts and failed commits

Stages == {"header_admit", "validate_headers", "body_fetch", "body_persist",
           "script_validate", "proof_validate", "utxo_apply", "tip_finalize"}

(* The log and cursor each stage waits for.                                *)
Upstream == [validate_headers |-> "header_admit",
             body_fetch |-> "validate_headers",
             body_persist |-> "body_fetch",
             script_validate |-> "body_persist",
             proof_validate |-> "script_validate",
             utxo_apply |-> "proof_validate",
             tip_finalize |-> "utxo_apply"]

Heights == UNION {0 .. HeightOf[b] : b \in Block}

ASSUME TreeAssumption ==
    /\ NoBlock \notin Block
    /\ HeightOf \in [Block -> Nat]
    /\ Genesis \in Block /\ HeightOf[Genesis] = 0
    /\ \A b \in Block : /\ Chain[b] \in [0 .. HeightOf[b] -> Block]
                        /\ Chain[b][HeightOf[b]] = b
                        /\ \A h \in 0 .. HeightOf[b] : HeightOf[Chain[b][h]] = h
    /\ \A t \in Trees : /\ Genesis \in t /\ t \subseteq Block
                        /\ \A b \in t : Chain[b] \in [0 .. HeightOf[b] -> t]
    /\ Unsolved \subseteq Block
    /\ RewindMax \in Nat /\ Batch \in Nat \ {0} /\ MaxFaults \in Nat

VARIABLES cursor,     \* the durable cursor of each stage
          log,        \* the rows of each stage by height
          frontier,   \* does the coins_applied_height key exist?
          window,     \* the block at the top of the active-chain window
          candidate,  \* pindex_best_header
          bodies,     \* blocks with BLOCK_HAVE_DATA
          scripted,   \* blocks at level BLOCK_VALID_SCRIPTS in memory
          solved,     \* headers whose solution was backfilled
          floor,      \* g_failure_recheck_cursor
          published,  \* g_last_advance_height and g_last_advance_hash
          headers,    \* the tree this network has
          faults

stores == <<bodies, solved, headers, faults>>
vars == <<cursor, log, frontier, window, candidate, bodies, scripted, solved,
          floor, published, headers, faults>>

(* ok and bad are ok=1 and ok=0; retry is an ok=0 row of validate_headers  *)
(* for want of a solution; anchor is an ok=1 row of tip_finalize that      *)
(* holds the hash of its own height instead of the one above.              *)
Status == {"none", "ok", "bad", "retry", "anchor"}
NoRow == [status |-> "none", hash |-> NoBlock]
Row(s, b) == [status |-> s, hash |-> b]

(* A node that has never run: the tip is genesis, no stage has a row.      *)
Init ==
    /\ cursor = [s \in Stages |-> 0]
    /\ log = [s \in Stages |-> [h \in Heights |-> NoRow]]
    /\ frontier = FALSE
    /\ window = Genesis /\ candidate = Genesis
    /\ bodies = {Genesis} /\ scripted = {} /\ solved = {}
    /\ floor = 0
    /\ published = [height |-> 0, hash |-> Genesis]
    /\ headers \in Trees
    /\ faults = 0

HasActive(w, h) == h \in 0 .. HeightOf[w]

(* reducer_extend_window_to_candidate: the window only grows.              *)
Extended == IF HeightOf[candidate] > HeightOf[window] THEN candidate
            ELSE window

(* Row h of stage s names another block than the window does.              *)
Differs(w, s, h) ==
    /\ log[s][h].status # "none"
    /\ HasActive(w, h)
    /\ log[s][h].hash # Chain[w][h]
Agrees(w, s, h) ==
    log[s][h].status # "none" /\ HasActive(w, h) /\ ~ Differs(w, s, h)

-----------------------------------------------------------------------------
(* Mutant: only the row just below the cursor is compared.                 *)
AdmitCursorTop(w) ==
    LET c == cursor["header_admit"]
    IN  IF c > 0 /\ Differs(w, "header_admit", c - 1) THEN c - 1 ELSE c

(* header_admit: go back to the deepest recent row of another branch, then *)
(* admit the next header of the window.                                    *)
AdmitCursor(w) ==
    LET c == cursor["header_admit"]
        D == {h \in Heights : /\ c - RewindMax <= h /\ h < c
                              /\ Differs(w, "header_admit", h)}
    IN  IF D = {} THEN c ELSE Min(D)

HeaderAdmit ==
    LET c == AdmitCursor(window)
        ready == HasActive(Extended, c)
    IN  /\ window' = Extended
        /\ cursor' = [cursor EXCEPT !["header_admit"] =
                         IF ready THEN c + 1 ELSE c]
        /\ log' = IF ready
                  THEN [log EXCEPT !["header_admit"][c] =
                           Row("ok", Chain[Extended][c])]
                  ELSE log
        /\ UNCHANGED <<frontier, candidate, scripted, floor, published, stores>>

-----------------------------------------------------------------------------
(* validate_headers: PoW and Equihash of a header.                         *)
HeaderVerdict(b) ==
    CASE b \in Bad["validate_headers"] -> "bad"
      [] b \in Unsolved \ solved -> "retry"
      [] OTHER -> "ok"

(* The log with the header verdicts of the window at the heights in H.     *)
Validated(w, H) ==
    [log EXCEPT !["validate_headers"] =
        [h \in Heights |-> IF h \in H
                           THEN Row(HeaderVerdict(Chain[w][h]), Chain[w][h])
                           ELSE @[h]]]

(* The heights of the next batch.                                          *)
NextBatch ==
    {h \in Heights : /\ cursor["validate_headers"] <= h
                     /\ h < cursor["validate_headers"] + Batch
                     /\ h < cursor["header_admit"]}

(* The recheck floor stays at the lowest failure that may still be mended. *)
FloorAfterBatch(H) ==
    LET mendable == {h \in H : HeaderVerdict(Chain[Extended][h]) = "retry"}
    IN  IF mendable # {} THEN Min({floor, Min(mendable)})
        ELSE Max({floor, Max(H) + 1})

ValidateHeaders ==
    /\ NextBatch # {}
    /\ \A h \in NextBatch : HasActive(Extended, h)
    /\ window' = Extended
    /\ log' = Validated(Extended, NextBatch)
    /\ cursor' = [cursor EXCEPT !["validate_headers"] = Max(NextBatch) + 1]
    /\ floor' = FloorAfterBatch(NextBatch)
    /\ UNCHANGED <<frontier, candidate, scripted, published, stores>>

(* The recheck starts at the floor or the lower of two cursors further     *)
(* down the pipeline, whichever is higher.                                 *)
RecheckStart ==
    LET moved == {cursor[s] : s \in {"tip_finalize", "body_fetch"}} \ {0}
    IN  Max({floor} \cup IF moved = {} THEN {} ELSE {Min(moved)})

(* recheck_failed_rows: with nothing new, validate failed rows again.      *)
RecheckHeaders ==
    LET top == cursor["validate_headers"]
        failed == {h \in RecheckStart .. top - 1 :
                      log["validate_headers"][h].status \in {"bad", "retry"}}
        picked == {h \in failed :
                      Cardinality({k \in failed : k < h}) < Batch}
        known == {h \in picked : HasActive(Extended, h)}
        still == {h \in known : HeaderVerdict(Chain[Extended][h]) = "retry"}
    IN  /\ \/ NextBatch = {}
           \/ \E h \in NextBatch : ~ HasActive(Extended, h)
        /\ RecheckStart < top
        /\ window' = Extended
        /\ log' = Validated(Extended, known)
        /\ floor' = Min((picked \ known) \cup still
                        \cup {IF known = {} THEN top ELSE Max(picked) + 1})
        /\ UNCHANGED <<cursor, frontier, candidate, scripted, published, stores>>

-----------------------------------------------------------------------------
(* body_fetch, body_persist, script_validate, proof_validate: one shape.   *)
Checks == {"body_fetch", "body_persist", "script_validate", "proof_validate"}

(* Mutant: the skip is recorded as a pass.                                 *)
SkipRowPasses(s, w, c) == Row("ok", NoBlock)

(* Only body_fetch looks for the block before it records a skip.           *)
SkipRow(s, w, c) ==
    Row("bad", IF s = "body_fetch" THEN Chain[w][c] ELSE NoBlock)

(* Mutant: off by one, the stage stays a height behind the one above.      *)
OfferedBehind(s) ==
    /\ cursor[s] + 1 < cursor[Upstream[s]]
    /\ log[Upstream[s]][cursor[s]].status # "none"

(* The height of the cursor, once the stage above has a row there.         *)
Offered(s) ==
    /\ cursor[s] < cursor[Upstream[s]]
    /\ log[Upstream[s]][cursor[s]].status # "none"

(* An ok=0 row above becomes an ok=0 row here; a missing solution blocks.  *)
SkipReady(s) ==
    /\ Offered(s)
    /\ log[Upstream[s]][cursor[s]].status = "bad"
    /\ s = "body_fetch" => HasActive(Extended, cursor[s])

SkipFailed(s) ==
    LET c == cursor[s] IN
    /\ SkipReady(s)
    /\ window' = Extended
    /\ log' = [log EXCEPT ![s][c] = SkipRow(s, Extended, c)]
    /\ cursor' = [cursor EXCEPT ![s] = c + 1]
    /\ UNCHANGED <<frontier, candidate, scripted, floor, published, stores>>

(* A passed height whose block can be read.                                *)
CheckReady(s) ==
    /\ Offered(s)
    /\ log[Upstream[s]][cursor[s]].status = "ok"
    /\ HasActive(Extended, cursor[s])
    /\ Chain[Extended][cursor[s]] \in bodies

(* The block of the window is read and checked; script_validate raises the *)
(* validity level of the block it passes.                                  *)
Check(s) ==
    LET c == cursor[s]
        b == Chain[Extended][c]
        pass == b \notin Bad[s]
    IN  /\ CheckReady(s)
        /\ window' = Extended
        /\ log' = [log EXCEPT ![s][c] = Row(IF pass THEN "ok" ELSE "bad", b)]
        /\ cursor' = [cursor EXCEPT ![s] = c + 1]
        /\ scripted' = IF s = "script_validate" /\ pass
                       THEN scripted \cup {b} ELSE scripted
        /\ UNCHANGED <<frontier, candidate, floor, published, stores>>

-----------------------------------------------------------------------------
(* utxo_apply: unwind to the last height whose row is on the window's      *)
(* branch (-1 if none), unless that is too deep; then apply one block.     *)
ForkPoint(w, c) ==
    Max({-1} \cup {h \in 0 .. c - 2 : Agrees(w, "utxo_apply", h)})

Lost(w, c) == c > 0 /\ Differs(w, "utxo_apply", c - 1)

(* Where the stage goes on after the unwind.                               *)
ApplyCursor(w) ==
    LET c == cursor["utxo_apply"] IN
    IF Lost(w, c) THEN ForkPoint(w, c) + 1 ELSE c

UnwindAllowed(w) ==
    LET c == cursor["utxo_apply"] IN
    Lost(w, c) => c - 1 - ForkPoint(w, c) <= FinalityDepth

(* step_apply has all it needs at height c.  The verdict row it reads      *)
(* carries no hash.                                                        *)
Appliable(w, c) ==
    /\ c < cursor["proof_validate"]
    /\ log["proof_validate"][c].status = "ok"
    /\ HasActive(w, c)
    /\ Chain[w][c] \in bodies \ Bad["utxo_apply"]

UtxoApply ==
    LET w == Extended
        c == ApplyCursor(w)
        applies == Appliable(w, c)
    IN  /\ UnwindAllowed(w)
        /\ applies \/ c # cursor["utxo_apply"]
        /\ window' = w
        /\ log' = [log EXCEPT !["utxo_apply"] =
                      [h \in Heights |->
                          CASE h < c -> @[h]
                            [] h = c /\ applies -> Row("ok", Chain[w][c])
                            [] OTHER -> IF c = cursor["utxo_apply"] THEN @[h]
                                        ELSE NoRow]]
        /\ cursor' = [cursor EXCEPT !["utxo_apply"] =
                         IF applies THEN c + 1 ELSE c]
        /\ frontier' = TRUE
        /\ UNCHANGED <<candidate, scripted, floor, published, stores>>

-----------------------------------------------------------------------------
(* tip_finalize.  Row h of a finalized height holds the hash of the block  *)
(* above it; an anchor row is not compared.                                *)
Compared(w, h) == log["tip_finalize"][h].status = "ok" /\ HasActive(w, h + 1)
Matches(w, h) ==
    Compared(w, h) /\ log["tip_finalize"][h].hash = Chain[w][h + 1]

(* rewind_cursor_if_active_chain_reorged.                                  *)
FinalizeCursor(w) ==
    LET c == cursor["tip_finalize"] IN
    IF c > 0 /\ Compared(w, c - 1) /\ ~ Matches(w, c - 1)
    THEN Max({0} \cup {h + 1 : h \in {k \in 0 .. c - 2 : Matches(w, k)}})
    ELSE c

(* Mutant: an ok=1 row counts for any block of its height.                 *)
script_log_ok_any_hash(b) ==
    log["script_validate"][HeightOf[b]].status = "ok"

(* finalize_script_log_ok: an ok=1 row counts for the block it names.      *)
finalize_script_log_ok(b) ==
    log["script_validate"][HeightOf[b]] = Row("ok", b)

(* step_finalize at height c: the block above it is ready to be the tip.   *)
Finalizable(w, c) ==
    /\ c < cursor["utxo_apply"]
    /\ log["utxo_apply"][c].status = "ok"
    /\ HasActive(w, c + 1)
    /\ LET new == Chain[w][c + 1] IN
       /\ new \in bodies
       /\ new \in scripted \/ finalize_script_log_ok(new)

FinalizeTip ==
    LET w == Extended
        c == FinalizeCursor(w)
        new == Chain[w][c + 1]
    IN  /\ Finalizable(w, c)
        /\ log' = [log EXCEPT !["tip_finalize"][c] = Row("ok", new)]
        /\ cursor' = [cursor EXCEPT !["tip_finalize"] = c + 1]
        /\ window' = new
        /\ scripted' = scripted \cup {new}
        /\ published' = IF c + 1 >= published.height
                        THEN [height |-> c, hash |-> new] ELSE published
        /\ UNCHANGED <<frontier, candidate, floor, stores>>

(* The COMMIT after step_finalize fails: the row and the cursor are rolled *)
(* back, the window and the published tip have moved.                      *)
FinalizeCommitFails ==
    LET w == Extended
        c == FinalizeCursor(w)
        new == Chain[w][c + 1]
    IN  /\ faults < MaxFaults
        /\ Finalizable(w, c)
        /\ cursor' = [cursor EXCEPT !["tip_finalize"] = c]
        /\ window' = new
        /\ scripted' = scripted \cup {new}
        /\ published' = IF c + 1 >= published.height
                        THEN [height |-> c, hash |-> new] ELSE published
        /\ faults' = faults + 1
        /\ UNCHANGED <<log, frontier, candidate, floor, bodies, solved, headers>>

(* The COMMIT after script_validate fails: the level stays raised.         *)
ScriptCommitFails ==
    LET b == Chain[Extended][cursor["script_validate"]] IN
    /\ faults < MaxFaults
    /\ CheckReady("script_validate") /\ b \notin Bad["script_validate"]
    /\ window' = Extended
    /\ scripted' = scripted \cup {b}
    /\ faults' = faults + 1
    /\ UNCHANGED <<cursor, log, frontier, candidate, floor, published, bodies,
                   solved, headers>>

(* The rewind is durable even if the step that follows it idles.           *)
RewindTip ==
    LET c == FinalizeCursor(Extended) IN
    /\ c # cursor["tip_finalize"]
    /\ ~ Finalizable(Extended, c)
    /\ cursor' = [cursor EXCEPT !["tip_finalize"] = c]
    /\ window' = Extended
    /\ UNCHANGED <<log, frontier, candidate, scripted, floor, published, stores>>

-----------------------------------------------------------------------------
(* stage_anchor_upstream_cursors_to: no stage is left behind target, but   *)
(* utxo_apply is not carried past the coins once their frontier is known.  *)
AnchoredUpstream(target) ==
    [s \in Stages |->
        IF s = "utxo_apply" /\ frontier THEN cursor[s]
        ELSE Max({cursor[s], target})]

(* reducer_ingest_block, before it drains: the published tip becomes an    *)
(* anchor if tip_finalize has not passed it (tip_finalize_stage_seed_anchor). *)
SeedAnchor ==
    LET b == published.hash
        target == HeightOf[b] + 1
    IN  /\ cursor["tip_finalize"] < target
        /\ log' = [log EXCEPT !["tip_finalize"][HeightOf[b]] = Row("anchor", b)]
        /\ cursor' = [AnchoredUpstream(target) EXCEPT !["tip_finalize"] = target]
        /\ published' = [height |-> HeightOf[b], hash |-> b]
        /\ UNCHANGED <<frontier, window, candidate, scripted, floor, stores>>

-----------------------------------------------------------------------------
(* Restart.  Boot makes a block of the coins' branch the tip, and          *)
(* tip_finalize_stage_init anchors its log there; then the finalized       *)
(* frontier is adopted if it extends that tip                              *)
(* (block_index_loader_seed_tip_from_finalized).                           *)
BootTips ==
    {log["utxo_apply"][h].hash :
        h \in {k \in Heights : log["utxo_apply"][k].status = "ok"}} \cup {Genesis}

(* anchor_cursor_to_authority, for a stage with prior progress.            *)
InitAnchors(tip) ==
    LET h == HeightOf[tip]
        old == log["tip_finalize"][h]
        progress == \/ cursor["tip_finalize"] > 0
                    \/ \E k \in Heights : log["tip_finalize"][k] # NoRow
    IN  IF ~ progress THEN <<cursor["tip_finalize"], log["tip_finalize"]>>
        ELSE <<Max({cursor["tip_finalize"], h + 1}),
               [log["tip_finalize"] EXCEPT ![h] =
                   IF old.status \in {"ok", "anchor"} /\ old.hash = tip THEN old
                   ELSE Row("anchor", tip)]>>

(* The forward walk of the seed: the row just below the cursor names a     *)
(* block of its own height on top of the tip, every link ready.            *)
SeedsForward(tip, c, rows, ready) ==
    LET row == rows[c - 1] IN
    /\ c - 1 > HeightOf[tip]
    /\ row.status \in {"ok", "anchor"}
    /\ HeightOf[row.hash] = c - 1
    /\ Chain[row.hash][HeightOf[tip]] = tip
    /\ \A h \in HeightOf[tip] + 1 .. c - 1 :
          Chain[row.hash][h] \in bodies \cap ready

(* Memory is lost; what the block index keeps of the validity levels       *)
(* depends on how far its projection had come.                             *)
Restart(tip, kept) ==
    LET anchored == InitAnchors(tip)
        c == anchored[1]
        top == IF SeedsForward(tip, c, anchored[2], kept)
               THEN anchored[2][c - 1].hash ELSE tip
    IN  /\ faults < MaxFaults
        /\ cursor' = [cursor EXCEPT !["tip_finalize"] = c]
        /\ log' = [log EXCEPT !["tip_finalize"] = anchored[2]]
        /\ frontier' = (frontier \/ cursor["utxo_apply"] > 0)
        /\ window' = top /\ published' = [height |-> HeightOf[top], hash |-> top]
        /\ scripted' = kept /\ floor' = 0
        /\ faults' = faults + 1
        /\ UNCHANGED <<candidate, bodies, solved, headers>>

-----------------------------------------------------------------------------
(* The network.  More work is a greater height here.                       *)
NewCandidate(b) ==
    /\ HeightOf[b] > HeightOf[candidate]
    /\ candidate' = b
    /\ UNCHANGED <<cursor, log, frontier, window, scripted, floor, published,
                   stores>>

(* Bodies of the best chain, lowest first: no stage gets to a body above a *)
(* missing one.                                                            *)
BodyArrives(b) ==
    /\ b \in headers \ bodies
    /\ HasActive(candidate, HeightOf[b]) /\ Chain[candidate][HeightOf[b]] = b
    /\ Chain[b][HeightOf[b] - 1] \in bodies
    /\ bodies' = bodies \cup {b}
    /\ UNCHANGED <<cursor, log, frontier, window, candidate, scripted, solved,
                   floor, published, headers, faults>>

SolutionArrives(b) ==
    /\ b \in Unsolved \ solved
    /\ solved' = solved \cup {b}
    /\ UNCHANGED <<cursor, log, frontier, window, candidate, bodies, scripted,
                   floor, published, headers, faults>>

StageSteps ==
    \/ HeaderAdmit
    \/ ValidateHeaders \/ RecheckHeaders
    \/ \E s \in Checks : SkipFailed(s) \/ Check(s)
    \/ UtxoApply
    \/ FinalizeTip \/ RewindTip

Restarts == \E tip \in BootTips, kept \in SUBSET scripted : Restart(tip, kept)

Runs ==
    \/ StageSteps
    \/ SeedAnchor
    \/ FinalizeCommitFails \/ ScriptCommitFails
    \/ \E b \in headers : NewCandidate(b) \/ BodyArrives(b) \/ SolutionArrives(b)

Next == Runs \/ Restarts

Spec == Init /\ [][Next]_vars

(* Some stage has a step that changes something: ENABLED <<StageSteps>>_vars. *)
StageReady ==
    LET w == Extended
        h == AdmitCursor(window)
        a == ApplyCursor(w)
        f == FinalizeCursor(w)
        rows == <<window, log, floor>>
    IN  \/ w # window
        \/ h # cursor["header_admit"] \/ HasActive(w, h)
        \/ ENABLED ValidateHeaders \/ ENABLED <<RecheckHeaders>>_rows
        \/ \E s \in Checks : SkipReady(s) \/ CheckReady(s)
        \/ UnwindAllowed(w) /\ (Appliable(w, a) \/ a # cursor["utxo_apply"])
        \/ f # cursor["tip_finalize"] \/ Finalizable(w, f)

(* A step of the thread that drives the stages, an anchor included.        *)
Drives == UNCHANGED <<candidate, bodies, solved, faults>>

(* staged_sync_supervisor ticks every stage for ever: the pipeline does    *)
(* not rest while a stage can step (weak fairness of StageSteps, with the  *)
(* anchor of an ingest counted as a step of the drive).                    *)
FairSpec ==
    /\ Spec
    /\ []<>(~ StageReady) \/ []<><<Drives>>_vars

-----------------------------------------------------------------------------
Cursors == {0} \cup {h + 1 : h \in Heights}

(* The state has its shape; a block at the script level has a body.        *)
TypeOK ==
    /\ cursor \in [Stages -> Cursors]
    /\ log \in [Stages -> [Heights -> [status : Status, hash : Block \cup {NoBlock}]]]
    /\ frontier \in BOOLEAN
    /\ window \in headers /\ candidate \in headers
    /\ bodies \subseteq headers /\ scripted \subseteq bodies
    /\ solved \subseteq Unsolved
    /\ floor \in Cursors
    /\ published \in [height : Heights, hash : headers]
    /\ headers \in Trees
    /\ faults \in 0 .. MaxFaults

(* "We therefore trust ok=1 ONLY when the row's block_hash equals the hash *)
(* of the block being finalized": no block whose scripts fail is ever      *)
(* finalized, whatever verdict rows a losing branch left at its height and *)
(* whatever validity levels a restart forgot.                              *)
FinalizedScriptChecked ==
    \A h \in Heights :
        log["tip_finalize"][h].status = "ok" =>
            log["tip_finalize"][h].hash \notin Bad["script_validate"]

(* utxo_apply_stage.h: "utxo_apply is downstream of script_validate +      *)
(* proof_validate, so an ok=1 row here implies both of those passed at     *)
(* `height`": no block that either would reject is applied to the coins.   *)
AppliedWasValidated ==
    \A h \in Heights :
        log["utxo_apply"][h].status = "ok" =>
            \A s \in {"script_validate", "proof_validate"} :
                log["utxo_apply"][h].hash \notin Bad[s]

(* The networks that have one chain.                                       *)
Linears ==
    {t \in Trees : \A a, b \in t : HeightOf[a] = HeightOf[b] => a = b}
OneChain == headers \in Linears

(* The same where no reorg can happen, anchors and restarts included.      *)
AppliedWasValidatedOnOneChain == OneChain => AppliedWasValidated

(* header_admit: "stale rows get re-admitted (INSERT OR REPLACE) with the  *)
(* canonical hashes on the forward re-walk": the header log ends up on the *)
(* best chain, also where the stale row lies below a matching one.         *)
HeaderLogFollows ==
    <>[](\A h \in 0 .. HeightOf[candidate] :
            log["header_admit"][h] \in {NoRow, Row("ok", Chain[candidate][h])})

(* The best block of a network up to which nothing is rejected.            *)
GoodTo(b) == \A h \in 0 .. HeightOf[b] : \A s \in Stages : Chain[b][h] \notin Bad[s]
Best == [t \in Trees |->
            CHOOSE b \in t :
                GoodTo(b) /\ \A c \in t : GoodTo(c) => HeightOf[c] <= HeightOf[b]]
Arrived ==
    /\ headers \subseteq bodies
    /\ Unsolved \cap headers \subseteq solved
    /\ \A b \in headers : HeightOf[b] <= HeightOf[candidate]

(* An anchor carried a stage over a height it has no row for, above the    *)
(* coins: every stage below waits for that row.                            *)
Holed ==
    \E s \in Stages : \E h \in cursor["utxo_apply"] .. cursor[s] - 1 :
        s # "tip_finalize" /\ log[s][h] = NoRow

(* validate_headers, of the recheck floor: "It must NEVER advance past a   *)
(* still-failing (ok=0) row."  A header that waits for its solution at or  *)
(* above body_fetch is not below the floor.                                *)
FloorHoldsFailures ==
    \A h \in cursor["body_fetch"] .. floor - 1 :
        log["validate_headers"][h].status # "retry"

(* On one chain, once its headers, solutions and bodies are there, every   *)
(* block before the first rejected one is applied and every height below   *)
(* the last of them is finalized: a missing solution, a late body or an    *)
(* anchor does not stop the pipeline for good.  Not where an anchor left   *)
(* a hole or the floor passed a failure.                                   *)
TipConverges ==
    <>[]Arrived =>
        <>[](\/ ~ OneChain
             \/ /\ cursor["utxo_apply"] > HeightOf[Best[headers]]
                /\ cursor["tip_finalize"] >= HeightOf[Best[headers]]
             \/ Holed
             \/ ~ FloorHoldsFailures)
=============================================================================
