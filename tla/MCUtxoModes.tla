---------------------------- MODULE MCUtxoModes -----------------------------
(***************************************************************************)
(* Three questions about UtxoApply in one run, each on a tree of its own:  *)
(* reorgs with a failure (fork), snapshots with a failure (seed), and a    *)
(* window that another thread moves together with the poison repair        *)
(* (race).  Every step of MCNext is a step of Next.                        *)
(***************************************************************************)
EXTENDS MCUtxoApply

VARIABLE mode

TreeOf == [fork |-> ForkTree, seed |-> SeedTree, race |-> LinearTree]
FailuresIn == [fork |-> 1, seed |-> 1, race |-> 0]

MCNext ==
    /\ UNCHANGED mode
    /\ \/ StepOnce
       \/ failures < FailuresIn[mode] /\ StepFails
       \/ failures < FailuresIn[mode] /\ \E b \in TreeOf[mode] : Crash(b)
       \/ \E b \in TreeOf[mode] : NewCandidate(b)
       \/ mode = "seed" /\ \E b \in TreeOf[mode] : SeedSnapshot(b)
       \/ \E ok \in BOOLEAN : ProofValidate(ok)
       \/ \E h \in DOMAIN db.delta : TipFinalize(h)
       \/ mode = "race" /\ (RacingExtend \/ PoisonRewind)
       \/ \E h \in pv.bad : StaleScriptReplay(h)

(* WF_vars(StepOnce) written out for speed.  A step of the stage is always *)
(* enabled, and changes the state unless it refuses a reorg again; failures *)
(* are bounded, so infinitely many changes of pc or at are steps of it.    *)
Refuses ==
    /\ pc = "idle" /\ window = Extended /\ Diverged(window)
    /\ \A f \in -1 .. db.cursor - 2 :
          IsFork(window, f) => ~ reorg_is_allowed(db.cursor - 1, f)
StepFairness == []<>Refuses \/ []<><<pc' # pc \/ at' # at>>_vars

MCInit == Init /\ mode \in DOMAIN TreeOf
MCSpec == MCInit /\ [][MCNext]_<<vars, mode>> /\ StepFairness
=============================================================================
