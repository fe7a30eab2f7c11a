---------------------------- MODULE WindowDrive -----------------------------
(***************************************************************************)
(* The threads that drive the stages and with them the window, which is    *)
(* under no lock: the staged-sync supervisor, the synchronous ingest of a  *)
(* block and the reducer kick.  The two synchronous drivers share the      *)
(* activation mutex; an ingest also raises the drive depth, which the      *)
(* supervisor reads before a tick.  A fill of the window is the loop of    *)
(* active_chain_fill_window: the top first, one slot per step going down,  *)
(* the new height last.  Deployments are the sets of threads that run      *)
(* together: the mutex keeps synchronous drivers apart and nothing keeps   *)
(* them apart from the supervisor (reducer_kick does not raise the depth). *)
(***************************************************************************)
EXTENDS ActiveChain, FiniteSets

CONSTANTS Supervisors,   \* the staged-sync supervisor thread
          Sync,          \* threads that ingest blocks or kick the reducer
          Deployments,   \* the sets of threads that run together
          NoThread       \* the activation mutex is free

Driver == Supervisors \cup Sync

ASSUME ThreadsAssumption ==
    /\ NoThread \notin Driver
    /\ Supervisors \cap Sync = {}
    /\ \A d \in Deployments : d \subseteq Driver

VARIABLES threads, \* the deployment: the threads that run
          mutex,   \* ctl->mutex: its holder
          depth,   \* g_reducer_drive_depth
          pc,      \* what a thread is doing
          walk,    \* its fill in progress: the new top and the next height
          rest     \* the window after the last fill that was completed

driveVars == <<threads, mutex, depth, pc>>
allVars ==
    <<chain, height, candidate, ready, threads, mutex, depth, pc, walk, rest>>

NoWalk == [bi |-> NoBlock, h |-> -1]

DriveInit ==
    /\ Init
    /\ threads \in Deployments
    /\ mutex = NoThread /\ depth = 0
    /\ pc = [t \in Driver |-> "idle"]
    /\ walk = [t \in Driver |-> NoWalk]
    /\ rest = [chain |-> chain, height |-> height]

-----------------------------------------------------------------------------
(* staged_stage_tick: skipped while a synchronous drive is marked.         *)
SupervisorTick(t) ==
    /\ t \in threads /\ pc[t] = "idle" /\ depth = 0
    /\ pc' = [pc EXCEPT ![t] = "tick"]
    /\ UNCHANGED <<threads, mutex, depth, vars, walk, rest>>

(* reducer_ingest_block: the mutex, then the mark.                         *)
IngestEnter(t) ==
    /\ t \in threads /\ pc[t] = "idle" /\ mutex = NoThread
    /\ mutex' = t /\ depth' = depth + 1
    /\ pc' = [pc EXCEPT ![t] = "ingest"]
    /\ UNCHANGED <<threads, vars, walk, rest>>

(* Mutant of KickEnter: the drain without the activation mutex.            *)
KickEnterUnlocked(t) ==
    /\ t \in threads /\ pc[t] = "idle"
    /\ pc' = [pc EXCEPT ![t] = "kick"]
    /\ UNCHANGED <<threads, mutex, depth, vars, walk, rest>>

(* reducer_kick: the mutex only.                                           *)
KickEnter(t) ==
    /\ t \in threads /\ pc[t] = "idle" /\ mutex = NoThread
    /\ mutex' = t
    /\ pc' = [pc EXCEPT ![t] = "kick"]
    /\ UNCHANGED <<threads, depth, vars, walk, rest>>

(* The end of a tick, an ingest (on each of its returns) or a kick.        *)
Leave(t) ==
    /\ pc[t] # "idle" /\ walk[t] = NoWalk
    /\ mutex' = IF mutex = t THEN NoThread ELSE mutex
    /\ depth' = IF pc[t] = "ingest" THEN depth - 1 ELSE depth
    /\ pc' = [pc EXCEPT ![t] = "idle"]
    /\ UNCHANGED <<threads, vars, walk, rest>>

-----------------------------------------------------------------------------
(* What a draining thread may fill the window to: the best header (every   *)
(* stage step), or the successor a finalization collapses the window to.   *)
FillsTo(bi) ==
    \/ bi = candidate /\ HeightOf[bi] > height
    \/ height >= 0 /\ bi \in {chain[h] : h \in 0 .. height}

(* Mutant of FillBegin: the new height is published first.                 *)
FillBeginHeightFirst(t, bi) ==
    /\ pc[t] # "idle" /\ walk[t] = NoWalk
    /\ FillsTo(bi)
    /\ chain' = [chain EXCEPT ![HeightOf[bi]] = bi]
    /\ height' = HeightOf[bi]
    /\ walk' = [walk EXCEPT ![t] = [bi |-> bi, h |-> HeightOf[bi] - 1]]
    /\ UNCHANGED <<candidate, ready, driveVars, rest>>

FillBegin(t, bi) ==
    /\ pc[t] # "idle" /\ walk[t] = NoWalk
    /\ FillsTo(bi)
    /\ chain' = [chain EXCEPT ![HeightOf[bi]] = bi]
    /\ walk' = [walk EXCEPT ![t] = [bi |-> bi, h |-> HeightOf[bi] - 1]]
    /\ UNCHANGED <<height, candidate, ready, driveVars, rest>>

Done(w) == w.h >= 0 => Stops(chain, height, w.bi, w.h)

FillSlot(t) ==
    /\ walk[t] # NoWalk /\ ~ Done(walk[t])
    /\ chain' = [chain EXCEPT ![walk[t].h] = Anc[walk[t].bi][walk[t].h]]
    /\ walk' = [walk EXCEPT ![t].h = @ - 1]
    /\ UNCHANGED <<height, candidate, ready, driveVars, rest>>

FillEnd(t) ==
    /\ walk[t] # NoWalk /\ Done(walk[t])
    /\ height' = HeightOf[walk[t].bi]
    /\ walk' = [walk EXCEPT ![t] = NoWalk]
    /\ rest' = [chain |-> chain, height |-> height']
    /\ UNCHANGED <<chain, candidate, ready, driveVars>>

(* Header ingress on another thread.                                       *)
BestHeader(b) == NewBestHeader(b) /\ UNCHANGED <<driveVars, walk, rest>>

DriveNext ==
    \/ \E t \in Supervisors : SupervisorTick(t)
    \/ \E t \in Sync : IngestEnter(t) \/ KickEnter(t)
    \/ \E t \in Driver : Leave(t) \/ FillSlot(t) \/ FillEnd(t)
    \/ \E t \in Driver, b \in Block : FillBegin(t, b)
    \/ \E b \in Block : BestHeader(b)

DriveSpec == DriveInit /\ [][DriveNext]_allVars

-----------------------------------------------------------------------------
(* The drive depth counts the ingests under way, and the mutex has one     *)
(* holder (reducer_drive_enter and exit are balanced on every path).       *)
DriveTypeOK ==
    /\ TypeOK
    /\ mutex \in Sync \cup {NoThread}
    /\ pc \in [Driver -> {"idle", "tick", "ingest", "kick"}]
    /\ depth = Cardinality({t \in Driver : pc[t] = "ingest"})
    /\ \A t \in Driver : walk[t].h \in -1 .. MaxHeight

(* Where the mutex keeps the drivers apart, a driver between two fills     *)
(* sees one chain in the window: what step_finalize reads at H and H+1 are *)
(* parent and child.                                                       *)
DriverSeesOneChain ==
    \A t \in Driver : pc[t] # "idle" /\ walk[t] = NoWalk => WindowIsAncestry

(* The loop of active_chain_fill_window, seen when it is over, is one move *)
(* of the window: with the mutex the drivers implement ActiveChain.        *)
Window == INSTANCE ActiveChain WITH chain <- rest.chain, height <- rest.height
ImplementsWindow == Window!Spec
=============================================================================
