---------------------------- MODULE ActiveChain -----------------------------
(***************************************************************************)
(* The active-chain window: an array of blocks by height and the height of *)
(* its top.  Every stage of the reducer reads its next block from it.  The *)
(* array is never cleared: a move to a lower block leaves the slots above  *)
(* in place, and a fill walks down from the new top only until it meets    *)
(* what is already there.  A block whose parent is not linked (after an    *)
(* import) has no known ancestors.                                         *)
(***************************************************************************)
EXTENDS Integers

CONSTANTS Block, NoBlock,
          HeightOf,   \* the height of a block
          Anc,        \* Anc[b][h]: the ancestor of b at height h, if linked
          Bodies,     \* blocks whose body ever arrives
          MaxHeight,  \* bound: the heights of the model
          MaxGap      \* ACTIVE_CHAIN_EXTEND_HAVE_DATA_MAX_GAP

Heights == 0 .. MaxHeight

ASSUME LinksAssumption ==
    /\ NoBlock \notin Block /\ Bodies \subseteq Block
    /\ MaxHeight \in Nat /\ MaxGap \in Nat
    /\ \A b \in Block :
          /\ HeightOf[b] \in Heights
          /\ Anc[b] \in [0 .. HeightOf[b] -> Block \cup {NoBlock}]
          /\ Anc[b][HeightOf[b]] = b
          /\ \A h \in 0 .. HeightOf[b] :
                /\ Anc[b][h] # NoBlock => HeightOf[Anc[b][h]] = h
                /\ \A k \in 0 .. h :
                      Anc[b][k] = IF Anc[b][h] = NoBlock THEN NoBlock
                                  ELSE Anc[Anc[b][h]][k]

VARIABLES chain,      \* c->chain
          height,     \* c->height, -1 when the window is empty
          candidate,  \* pindex_best_header
          ready       \* blocks with data, valid scripts and no failure

vars == <<chain, height, candidate, ready>>

(* active_chain_init and the zeroed array of the first realloc.            *)
Init ==
    /\ chain = [h \in Heights |-> NoBlock]
    /\ height = -1
    /\ candidate = NoBlock
    /\ ready = {}

-----------------------------------------------------------------------------
(* Mutant of Stops: a stale slot above the window also ends the walk.      *)
StopsAnywhere(c, ht, bi, h) ==
    \/ h <= ht /\ Anc[bi][h] = NoBlock
    \/ c[h] = Anc[bi][h]

(* Mutant of Stops: an unlinked ancestor does not end the walk.            *)
StopsWhenEqual(c, ht, bi, h) == h <= ht /\ c[h] = Anc[bi][h]

(* The downward walk of a fill breaks at height h: below a gap in the      *)
(* links the old window is kept, and an equal slot has equal ancestors.    *)
Stops(c, ht, bi, h) == h <= ht /\ Anc[bi][h] \in {NoBlock, c[h]}

(* Mutant of Filled: the top itself is not written.                        *)
FilledBelowTop(c, ht, bi) ==
    [h \in Heights |->
        IF /\ h < HeightOf[bi]
           /\ \A k \in h .. HeightOf[bi] - 1 : ~ Stops(c, ht, bi, k)
        THEN Anc[bi][h] ELSE c[h]]

(* The array after active_chain_fill_window: the walk from the top writes  *)
(* the ancestor of bi, or NULL, at each height until it stops.             *)
Filled(c, ht, bi) ==
    [h \in Heights |->
        IF /\ h <= HeightOf[bi]
           /\ \A k \in h .. HeightOf[bi] - 1 : ~ Stops(c, ht, bi, k)
        THEN Anc[bi][h] ELSE c[h]]

FillWindow(bi) ==
    /\ chain' = Filled(chain, height, bi)
    /\ height' = HeightOf[bi]

(* active_chain_move_window_tip, from tip_finalize, the tip setters, the   *)
(* invalidation of a block and the self-heal.                              *)
MoveWindowTip(bi) == FillWindow(bi) /\ UNCHANGED <<candidate, ready>>
ClearWindow == height' = -1 /\ UNCHANGED <<chain, candidate, ready>>

(* active_chain_extend_window, to the best header: never retreats.         *)
ExtendWindow ==
    /\ candidate # NoBlock
    /\ HeightOf[candidate] > height
    /\ FillWindow(candidate)
    /\ UNCHANGED <<candidate, ready>>

(* active_chain_extend_window_have_data: up from the top through ready     *)
(* children, no further than max or MaxGap blocks.                         *)
Climbs(b, max) ==
    /\ HeightOf[b] \in height + 1 .. max
    /\ HeightOf[b] <= height + MaxGap
    /\ Anc[b][height] = chain[height]
    /\ \A k \in height + 1 .. HeightOf[b] : Anc[b][k] \in ready

ExtendWindowHaveData(max) ==
    /\ height >= 0 /\ max > height
    /\ \E b \in Block :
          /\ Climbs(b, max)
          /\ \A c \in Block : Climbs(c, max) /\ HeightOf[c] = HeightOf[b] + 1
                                 => Anc[c][HeightOf[b]] # b
          /\ FillWindow(b)
    /\ UNCHANGED <<candidate, ready>>

-----------------------------------------------------------------------------
(* The rest of the node: header ingress, where only a header with more     *)
(* work (here: a higher one) replaces the best, and the stages and         *)
(* operators that mark blocks.                                             *)
NewBestHeader(b) ==
    /\ candidate # NoBlock => HeightOf[b] > HeightOf[candidate]
    /\ candidate' = b
    /\ UNCHANGED <<chain, height, ready>>
MarkReady(b) == ready' = ready \cup {b} /\ UNCHANGED <<chain, height, candidate>>
MarkFailed(b) == ready' = ready \ {b} /\ UNCHANGED <<chain, height, candidate>>

Next ==
    \/ ClearWindow \/ ExtendWindow
    \/ \E b \in Block : MoveWindowTip(b) \/ NewBestHeader(b)
    \/ \E b \in Bodies : MarkReady(b) \/ MarkFailed(b)
    \/ \E max \in Heights : ExtendWindowHaveData(max)

Spec == Init /\ [][Next]_vars

-----------------------------------------------------------------------------
(* The array holds blocks at their own height, and a window that is not    *)
(* empty has a block at its top (active_chain_cached_tip).                 *)
TypeOK ==
    /\ chain \in [Heights -> Block \cup {NoBlock}]
    /\ height \in -1 .. MaxHeight
    /\ candidate \in Block \cup {NoBlock}
    /\ ready \subseteq Block
    /\ \A h \in Heights : chain[h] # NoBlock => HeightOf[chain[h]] = h
    /\ height >= 0 => chain[height] # NoBlock

(* Every linked ancestor of a visible block is the visible block at its    *)
(* height, whatever moves, retreats and extensions came before: the early  *)
(* break of the fill never leaves a block above another branch.            *)
WindowIsAncestry ==
    \A k \in 0 .. height : chain[k] # NoBlock =>
        \A h \in 0 .. k :
            Anc[chain[k]][h] # NoBlock => chain[h] = Anc[chain[k]][h]

(* A step to a new top that descends from the old one, or whose links do   *)
(* not reach down to it, leaves every visible slot alone: the finalized    *)
(* part of the window is not rewritten (extend_window_have_data, and the   *)
(* break of fill_window at a gap).                                         *)
DescendantKeepsWindow ==
    [][/\ height >= 0 /\ height' >= height
       /\ Anc[chain'[height']][height] \in {NoBlock, chain[height]}
       => \A h \in 0 .. height : chain'[h] = chain[h]]_vars
=============================================================================
