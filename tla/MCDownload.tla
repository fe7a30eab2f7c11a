----------------------------- MODULE MCDownload -----------------------------
EXTENDS Download, TLC

CONSTANTS b1, b2, b3, p1, p2

MCHeight == b1 :> 1 @@ b2 :> 2 @@ b3 :> 3

\* All three start their probe in one place of a table of four.
MCHashOf == b1 :> 1 @@ b2 :> 5 @@ b3 :> 1

MCChain == <<b1, b2, b3>>

\* What a run has besides the regular steps: a fault, or sync-state changes
VARIABLE mode

MCInit ==
  /\ Init
  /\ mode \in {"fault", "states"}

\* Every step is a step of Next.  Headers announce the top block, and the
\* frontier look-up asks for the lowest.
MCNext ==
  /\ \/ SendTurn \/ AssignTurn
     \/ \E b \in Block, keep \in BOOLEAN : BlockMessage(b, keep)
     \/ HeadersQueue(b3) \/ FrontierPriority(b1)
     \/ \E p \in Peer : PeerGivesBack(p)
     \/ WatchdogEnter \/ WatchdogLeave
     \/ GapFillStep
     \/ \E i \in DOMAIN slots : RequestAges(i)
     \/ mode = "states" /\ SyncStateChanges
  /\ mode = "states" => faults' = 0
  /\ UNCHANGED mode

MCSpec == MCInit /\ [][MCNext]_<<vars, mode>> /\ Fairness
=============================================================================
