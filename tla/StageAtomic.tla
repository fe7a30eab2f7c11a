---------------------------- MODULE StageAtomic ----------------------------
(***************************************************************************)
(* What the stage runner promises its stages: "cursor advance and step     *)
(* output are atomic" (lib/util/src/stage.c).  The durable state of every  *)
(* stage is a cursor and the set of heights that have a log row, and it    *)
(* changes only when a step that covered every height from the old cursor  *)
(* up to the new one lands as a whole, or when somebody moves the cursor   *)
(* by name without touching the rows.                                      *)
(***************************************************************************)
EXTENDS Integers

CONSTANTS Stage,        \* the stage names
          MaxCursor     \* bound on the cursor

VARIABLES cursor,       \* [Stage -> Nat]: table stage_cursor
          rows          \* [Stage -> SUBSET Nat]: the stage's log table

vars == <<cursor, rows>>

Init == /\ cursor = [s \in Stage |-> 0]
        /\ rows = [s \in Stage |-> {}]

(* A step took the stage from its cursor to `out`, all its rows with it.   *)
Advance(s, out) ==
    /\ out > cursor[s]
    /\ cursor' = [cursor EXCEPT ![s] = out]
    /\ rows' = [rows EXCEPT ![s] = @ \cup (cursor[s] .. out - 1)]

(* Anchoring and repair place the cursor anywhere and write no row.        *)
Place(s, v) ==
    /\ cursor' = [cursor EXCEPT ![s] = v]
    /\ UNCHANGED rows

Next == \E s \in Stage, v \in 0 .. MaxCursor : Advance(s, v) \/ Place(s, v)

Spec == Init /\ [][Next]_vars
=============================================================================
