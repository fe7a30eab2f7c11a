---------------------------- MODULE WindowProofs ----------------------------
(***************************************************************************)
(* The active-chain window holds one chain, for every block tree with any  *)
(* missing links, whatever sequence of moves and extensions came before.   *)
(* The window is stated over the array c and the height ht, so that a fill *)
(* is a function of both and its lemmas say nothing about actions.  The    *)
(* second half takes the fill slot by slot: where one driver works at a    *)
(* time, the threads of WindowDrive implement ActiveChain.                 *)
(***************************************************************************)
EXTENDS WindowDrive, TLAPS

Slots(c) ==
    /\ c \in [Heights -> Block \cup {NoBlock}]
    /\ \A h \in Heights : c[h] # NoBlock => HeightOf[c[h]] = h

OneChain(c, ht) ==
    \A k \in 0 .. ht : c[k] # NoBlock =>
        \A h \in 0 .. k : Anc[c[k]][h] # NoBlock => c[h] = Anc[c[k]][h]

(* The walk reaches height h.                                              *)
Reaches(c, ht, bi, h) ==
    h <= HeightOf[bi] /\ \A k \in h .. HeightOf[bi] - 1 : ~ Stops(c, ht, bi, k)

-----------------------------------------------------------------------------
LEMMA FilledSlot ==
    ASSUME NEW c, NEW ht, NEW bi, NEW h \in Heights
    PROVE  Filled(c, ht, bi)[h] =
               IF Reaches(c, ht, bi, h) THEN Anc[bi][h] ELSE c[h]
BY DEF Filled, Reaches

(* A fill writes blocks at their own heights and the new top at its own.   *)
LEMMA FillSlots ==
    ASSUME NEW c, NEW ht, NEW bi \in Block, Slots(c)
    PROVE  /\ Slots(Filled(c, ht, bi))
           /\ Filled(c, ht, bi)[HeightOf[bi]] = bi
           /\ HeightOf[bi] \in Heights
<1>1. /\ HeightOf[bi] \in Heights /\ HeightOf[bi] \in Int
      /\ Anc[bi] \in [0 .. HeightOf[bi] -> Block \cup {NoBlock}]
      /\ Anc[bi][HeightOf[bi]] = bi
      /\ \A h \in 0 .. HeightOf[bi] :
            Anc[bi][h] # NoBlock => HeightOf[Anc[bi][h]] = h
  BY LinksAssumption DEF Heights
<1>2. Filled(c, ht, bi)[HeightOf[bi]] = bi
  BY <1>1, FilledSlot DEF Reaches
<1>3. \A h \in Heights : Reaches(c, ht, bi, h) => h \in 0 .. HeightOf[bi]
  BY <1>1, LinksAssumption DEF Reaches, Heights
<1>4. Filled(c, ht, bi) \in [Heights -> Block \cup {NoBlock}]
  BY <1>1, <1>3 DEF Slots, Filled, Reaches
<1>5. \A h \in Heights : Filled(c, ht, bi)[h] # NoBlock
                             => HeightOf[Filled(c, ht, bi)[h]] = h
  BY <1>1, <1>3, FilledSlot DEF Slots
<1> QED BY <1>1, <1>2, <1>4, <1>5 DEF Slots

(* The early break is sound: below the height where the walk stops the old *)
(* window already holds the ancestors.                                     *)
LEMMA FillKeepsOneChain ==
    ASSUME NEW c, NEW ht \in Int, NEW bi \in Block, Slots(c), OneChain(c, ht)
    PROVE  OneChain(Filled(c, ht, bi), HeightOf[bi])
<1> DEFINE n == Filled(c, ht, bi)
           H == HeightOf[bi]
<1>1. /\ H \in Nat /\ 0 .. H \subseteq Heights
      /\ \A h \in 0 .. H : /\ Anc[bi][h] \in Block \cup {NoBlock}
                           /\ Anc[bi][h] # NoBlock => HeightOf[Anc[bi][h]] = h
                           /\ \A k \in 0 .. h : Anc[bi][h] # NoBlock =>
                                 Anc[bi][k] = Anc[Anc[bi][h]][k]
  BY LinksAssumption DEF Heights
<1> SUFFICES ASSUME NEW k \in 0 .. H, n[k] # NoBlock, NEW h \in 0 .. k,
                    Anc[n[k]][h] # NoBlock
             PROVE  n[h] = Anc[n[k]][h]
  BY DEF OneChain
<1>2. /\ n[k] = IF Reaches(c, ht, bi, k) THEN Anc[bi][k] ELSE c[k]
      /\ n[h] = IF Reaches(c, ht, bi, h) THEN Anc[bi][h] ELSE c[h]
      /\ h \in 0 .. H /\ h \in Heights /\ k \in Heights
  BY <1>1, FilledSlot
<1> HIDE DEF n
<1>3. CASE Reaches(c, ht, bi, h)
  <2>1. Reaches(c, ht, bi, k)
    BY <1>1, <1>3 DEF Reaches
  <2> QED BY <1>1, <1>2, <1>3, <2>1
<1>4. CASE ~ Reaches(c, ht, bi, h) /\ Reaches(c, ht, bi, k)
  <2>1. PICK j \in h .. H - 1 : Stops(c, ht, bi, j)
    BY <1>1, <1>2, <1>4 DEF Reaches
  <2>2. j < k /\ j \in 0 .. k /\ j \in 0 .. H /\ h \in 0 .. j /\ j \in Heights
    BY <1>1, <1>4, <2>1 DEF Reaches
  <2>3. n[k] = Anc[bi][k] /\ n[k] \in Block /\ HeightOf[n[k]] = k
    BY <1>1, <1>2, <1>4
  <2>4. Anc[n[k]][j] # NoBlock
    BY <2>2, <2>3, LinksAssumption
  <2>5. Anc[bi][j] = Anc[n[k]][j]
    BY <1>1, <2>2, <2>3
  <2>6. j <= ht /\ c[j] = Anc[n[k]][j] /\ c[j] # NoBlock
    BY <2>1, <2>4, <2>5, SMTT(30) DEF Stops
  <2>7. Anc[c[j]][h] = Anc[n[k]][h]
    BY <2>2, <2>3, <2>4, <2>6, LinksAssumption
  <2>8. c[h] = Anc[c[j]][h]
    BY <2>2, <2>6, <2>7 DEF OneChain
  <2> QED BY <1>2, <1>4, <2>7, <2>8
<1>5. CASE ~ Reaches(c, ht, bi, h) /\ ~ Reaches(c, ht, bi, k)
  <2>1. PICK j \in k .. H - 1 : Stops(c, ht, bi, j)
    BY <1>1, <1>5 DEF Reaches
  <2>2. k \in 0 .. ht
    BY <1>1, <2>1 DEF Stops
  <2> QED BY <1>2, <1>5, <2>2 DEF OneChain
<1>6. Reaches(c, ht, bi, h) \/ ~ Reaches(c, ht, bi, h)
  OBVIOUS
<1> QED BY <1>3, <1>4, <1>5

(* A fill to a block whose ancestor at the old top is the old top, or is   *)
(* unknown, writes nothing at or below the old top.                        *)
LEMMA FillKeepsSlots ==
    ASSUME NEW c, NEW ht \in Nat, NEW bi \in Block, OneChain(c, ht),
           ht <= HeightOf[bi], Anc[bi][ht] \in {NoBlock, c[ht]},
           NEW h \in 0 .. ht
    PROVE  Filled(c, ht, bi)[h] = c[h]
<1>1. /\ HeightOf[bi] \in Nat /\ 0 .. HeightOf[bi] \subseteq Heights
      /\ Anc[bi][HeightOf[bi]] = bi /\ bi # NoBlock
  BY LinksAssumption DEF Heights
<1>2. h \in Heights /\ h \in Int
  BY <1>1
<1>3. CASE ht < HeightOf[bi]
  <2>1. ~ Reaches(c, ht, bi, h)
    BY <1>1, <1>3 DEF Reaches, Stops
  <2> QED BY <1>2, <2>1, FilledSlot
<1>4. CASE ht = HeightOf[bi] /\ h = ht
  BY <1>1, <1>2, <1>4, FilledSlot DEF Reaches
<1>5. CASE ht = HeightOf[bi] /\ h < ht
  <2>1. c[ht] = bi
    BY <1>1, <1>5
  <2>2. Anc[bi][ht - 1] # NoBlock => c[ht - 1] = Anc[bi][ht - 1]
    BY <1>1, <1>5, <2>1 DEF OneChain
  <2>3. Stops(c, ht, bi, ht - 1)
    BY <1>5, <2>2 DEF Stops
  <2>4. ~ Reaches(c, ht, bi, h)
    BY <1>1, <1>5, <2>3 DEF Reaches
  <2> QED BY <1>2, <2>4, FilledSlot
<1> QED BY <1>1, <1>3, <1>4, <1>5

-----------------------------------------------------------------------------
WindowInv == TypeOK /\ OneChain(chain, height)

LEMMA WindowInit == Init => WindowInv
<1> SUFFICES ASSUME Init PROVE WindowInv
  OBVIOUS
<1>1. MaxHeight \in Nat
  BY LinksAssumption
<1>2. TypeOK
  BY <1>1 DEF Init, TypeOK, Heights
<1>3. OneChain(chain, height)
  BY DEF Init, OneChain
<1> QED BY <1>2, <1>3 DEF WindowInv

(* Every step is a fill to some block, a clearing, or leaves the window.   *)
LEMMA StepKinds ==
    ASSUME TypeOK, [Next]_vars
    PROVE  \/ \E bi \in Block : FillWindow(bi) /\ UNCHANGED <<candidate, ready>>
           \/ height' = -1 /\ UNCHANGED <<chain, candidate, ready>>
           \/ /\ UNCHANGED <<chain, height>>
              /\ candidate' \in Block \cup {NoBlock} /\ ready' \subseteq Block
<1> DEFINE Kind ==
      \/ \E bi \in Block : FillWindow(bi) /\ UNCHANGED <<candidate, ready>>
      \/ height' = -1 /\ UNCHANGED <<chain, candidate, ready>>
      \/ /\ UNCHANGED <<chain, height>>
         /\ candidate' \in Block \cup {NoBlock} /\ ready' \subseteq Block
<1>1. ASSUME ClearWindow PROVE Kind
  BY <1>1 DEF ClearWindow
<1>2. ASSUME ExtendWindow PROVE Kind
  BY <1>2 DEF ExtendWindow, TypeOK
<1>3. ASSUME NEW b \in Block, MoveWindowTip(b) PROVE Kind
  BY <1>3 DEF MoveWindowTip
<1>4. ASSUME NEW b \in Block, NewBestHeader(b) PROVE Kind
  BY <1>4 DEF NewBestHeader, TypeOK
<1>5. ASSUME NEW b \in Bodies, MarkReady(b) \/ MarkFailed(b) PROVE Kind
  BY <1>5, LinksAssumption DEF MarkReady, MarkFailed, TypeOK
<1>6. ASSUME NEW max \in Heights, ExtendWindowHaveData(max) PROVE Kind
  BY <1>6 DEF ExtendWindowHaveData
<1>7. ASSUME UNCHANGED vars PROVE Kind
  BY <1>7 DEF vars, TypeOK
<1> QED BY <1>1, <1>2, <1>3, <1>4, <1>5, <1>6, <1>7 DEF Next

LEMMA WindowStep == WindowInv /\ [Next]_vars => WindowInv'
<1> SUFFICES ASSUME WindowInv, [Next]_vars PROVE WindowInv'
  OBVIOUS
<1>1. TypeOK /\ OneChain(chain, height) /\ Slots(chain) /\ height \in Int
  BY LinksAssumption DEF WindowInv, TypeOK, Slots
<1>2. CASE \E bi \in Block : FillWindow(bi) /\ UNCHANGED <<candidate, ready>>
  <2>1. PICK bi \in Block : FillWindow(bi) /\ UNCHANGED <<candidate, ready>>
    BY <1>2
  <2>2. chain' = Filled(chain, height, bi) /\ height' = HeightOf[bi]
    BY <2>1 DEF FillWindow
  <2>3. OneChain(chain', height')
    BY <1>1, <2>2, FillKeepsOneChain
  <2>4. Slots(chain') /\ chain'[height'] = bi /\ height' \in Heights
    BY <1>1, <2>2, FillSlots
  <2>5. TypeOK'
    BY <1>1, <2>1, <2>4, LinksAssumption DEF TypeOK, Slots, Heights
  <2> QED BY <2>3, <2>5 DEF WindowInv, OneChain
<1>3. CASE height' = -1 /\ UNCHANGED <<chain, candidate, ready>>
  <2>1. TypeOK'
    BY <1>1, <1>3, LinksAssumption DEF TypeOK, Heights
  <2>2. OneChain(chain', height')
    BY <1>3 DEF OneChain
  <2> QED BY <2>1, <2>2 DEF WindowInv, OneChain
<1>4. CASE /\ UNCHANGED <<chain, height>>
           /\ candidate' \in Block \cup {NoBlock} /\ ready' \subseteq Block
  <2>1. TypeOK'
    BY <1>1, <1>4 DEF TypeOK
  <2>2. OneChain(chain', height')
    BY <1>1, <1>4 DEF OneChain
  <2> QED BY <2>1, <2>2 DEF WindowInv, OneChain
<1> QED BY <1>1, <1>2, <1>3, <1>4, StepKinds

(* The array keeps its type and a window that is not empty its top block,  *)
(* for every block tree (active_chain_fill_window, active_chain_cached_tip).*)
THEOREM TypeCorrect == Spec => []TypeOK
<1>1. WindowInv => TypeOK
  BY DEF WindowInv
<1> QED BY <1>1, WindowInit, WindowStep, PTL DEF Spec

(* Every linked ancestor of a visible block is the visible block at its    *)
(* height: the early break of active_chain_fill_window is sound for every  *)
(* tree, every missing link and every sequence of moves.                   *)
THEOREM AncestryKept == Spec => []WindowIsAncestry
<1>1. WindowInv => WindowIsAncestry
  BY DEF WindowInv, OneChain, WindowIsAncestry
<1> QED BY <1>1, WindowInit, WindowStep, PTL DEF Spec

(* A move to a descendant of the top, or across a gap in the links, leaves *)
(* every visible slot alone (active_chain_extend_window_have_data).        *)
THEOREM DescendantsKeepWindow == Spec => DescendantKeepsWindow
<1>1. ASSUME WindowInv, [Next]_vars, height >= 0, height' >= height,
             Anc[chain'[height']][height] \in {NoBlock, chain[height]},
             NEW h \in 0 .. height
      PROVE  chain'[h] = chain[h]
  <2>1. TypeOK /\ OneChain(chain, height) /\ Slots(chain) /\ height \in Nat
    BY <1>1, LinksAssumption DEF WindowInv, TypeOK, Slots
  <2>2. CASE \E bi \in Block : FillWindow(bi) /\ UNCHANGED <<candidate, ready>>
    <3>1. PICK bi \in Block : FillWindow(bi)
      BY <2>2
    <3>2. chain' = Filled(chain, height, bi) /\ height' = HeightOf[bi]
      BY <3>1 DEF FillWindow
    <3>3. chain'[height'] = bi
      BY <2>1, <3>2, FillSlots
    <3> QED BY <1>1, <2>1, <3>2, <3>3, FillKeepsSlots
  <2>3. CASE height' = -1
    BY <1>1, <2>1, <2>3
  <2> QED BY <1>1, <2>1, <2>2, <2>3, StepKinds
<1>2. WindowInv /\ [Next]_vars =>
        [/\ height >= 0 /\ height' >= height
         /\ Anc[chain'[height']][height] \in {NoBlock, chain[height]}
         => \A h \in 0 .. height : chain'[h] = chain[h]]_vars
  BY <1>1
<1> QED BY <1>2, WindowInit, WindowStep, PTL DEF Spec, DescendantKeepsWindow

-----------------------------------------------------------------------------
(* Each deployment leaves the window to one driver at a time: synchronous  *)
(* drivers share the activation mutex, a supervisor runs without them.     *)
KeptApart ==
    \A d \in Deployments : d \subseteq Sync \/ \E t \in Supervisors : d = {t}

(* A driver at work runs, and a synchronous one holds the mutex.           *)
Holds ==
    /\ threads \in Deployments
    /\ pc \in [Driver -> {"idle", "tick", "ingest", "kick"}]
    /\ DOMAIN walk = Driver
    /\ \A t \in Driver :
          /\ pc[t] # "idle" => t \in threads /\ (t \in Sync => mutex = t)
          /\ pc[t] = "idle" => walk[t] = NoWalk

(* A walk that has reached height h with the new top bi: the slots above h *)
(* hold the ancestors of bi, the others what the last fill left.           *)
Walked(c, old, ht, bi, h) ==
    /\ h \in -1 .. HeightOf[bi] - 1
    /\ \A k \in h + 1 .. HeightOf[bi] - 1 : ~ Stops(old, ht, bi, k)
    /\ c = [k \in Heights |->
              IF k \in h + 1 .. HeightOf[bi] THEN Anc[bi][k] ELSE old[k]]

(* The window between two fills is the one the last fill left, and during  *)
(* a fill it is the one the walk has made of it.                           *)
Walks ==
    /\ (\A t \in Driver : walk[t] = NoWalk) => chain = rest.chain
    /\ \A t \in Driver : walk[t] # NoWalk =>
          /\ walk[t] = [bi |-> walk[t].bi, h |-> walk[t].h]
          /\ walk[t].bi \in Block
          /\ Walked(chain, rest.chain, height, walk[t].bi, walk[t].h)

Rested ==
    /\ rest = [chain |-> rest.chain, height |-> height]
    /\ Slots(rest.chain) /\ height \in Int
    /\ OneChain(rest.chain, height)

DriveInv == Holds /\ Walks /\ Rested

LEMMA DriveStart == DriveInit => DriveInv
<1> SUFFICES ASSUME DriveInit PROVE DriveInv
  OBVIOUS
<1>1. rest.chain = chain /\ rest = [chain |-> rest.chain, height |-> height]
  BY DEF DriveInit
<1>2. Slots(chain) /\ height \in Int /\ OneChain(chain, height)
  BY LinksAssumption DEF DriveInit, Init, Slots, OneChain, Heights
<1>3. Holds
  BY DEF DriveInit, Holds
<1>4. Walks
  BY <1>1 DEF DriveInit, Walks
<1> QED BY <1>1, <1>2, <1>3, <1>4 DEF DriveInv, Rested

(* Two drivers are never at work together.                                 *)
LEMMA OneDriver ==
    ASSUME KeptApart, Holds, NEW t \in Driver, NEW u \in Driver,
           pc[t] # "idle", pc[u] # "idle"
    PROVE  t = u
<1>1. t \in threads /\ u \in threads /\ threads \in Deployments
  BY DEF Holds
<1>2. CASE threads \subseteq Sync
  BY <1>1, <1>2 DEF Holds
<1>3. CASE \E s \in Supervisors : threads = {s}
  BY <1>1, <1>3
<1> QED BY <1>1, <1>2, <1>3 DEF KeptApart

(* The first write of a fill, each further slot, and its end.              *)
LEMMA WalkBegins ==
    ASSUME NEW c, NEW ht, NEW bi \in Block, Slots(c)
    PROVE  Walked([c EXCEPT ![HeightOf[bi]] = bi], c, ht, bi, HeightOf[bi] - 1)
<1> DEFINE d == [c EXCEPT ![HeightOf[bi]] = bi]
           H == HeightOf[bi]
<1>1. H \in Heights /\ H \in Nat /\ Anc[bi][H] = bi /\ DOMAIN c = Heights
  BY LinksAssumption DEF Slots, Heights
<1>2. Heights \subseteq Int
  BY DEF Heights
<1>3. \A k \in Heights : k \in H - 1 + 1 .. H <=> k = H
  BY <1>1, <1>2
<1>4. \A k \in Heights :
        d[k] = IF k \in H - 1 + 1 .. H THEN Anc[bi][k] ELSE c[k]
  BY <1>1, <1>3
<1>5. d = [k \in Heights |-> IF k \in H - 1 + 1 .. H THEN Anc[bi][k] ELSE c[k]]
  BY <1>1, <1>4
<1> HIDE DEF d, H
<1>6. H - 1 \in -1 .. H - 1 /\ H - 1 + 1 .. H - 1 = {}
  BY <1>1
<1> QED BY <1>5, <1>6 DEF Walked, H, d

LEMMA WalkGoesOn ==
    ASSUME NEW c, NEW old, NEW ht, NEW bi \in Block, NEW h, Slots(old),
           Walked(c, old, ht, bi, h), h >= 0, ~ Stops(c, ht, bi, h)
    PROVE  Walked([c EXCEPT ![h] = Anc[bi][h]], old, ht, bi, h - 1)
<1> DEFINE H == HeightOf[bi]
<1>1. H \in Heights /\ H \in Nat /\ Heights \subseteq Int /\ h \in 0 .. H - 1
  BY LinksAssumption DEF Heights, Walked
<1>2. h \in Heights /\ c[h] = old[h]
  BY <1>1, LinksAssumption DEF Walked, Heights
<1>3. ~ Stops(old, ht, bi, h)
  BY <1>2 DEF Stops
<1>4. \A k \in h - 1 + 1 .. H - 1 : ~ Stops(old, ht, bi, k)
  BY <1>1, <1>3 DEF Walked
<1> DEFINE d == [c EXCEPT ![h] = Anc[bi][h]]
<1>5. \A k \in Heights :
        d[k] = IF k \in h - 1 + 1 .. H THEN Anc[bi][k] ELSE old[k]
  <2>1. \A k \in Heights :
          k \in h - 1 + 1 .. H <=> k = h \/ k \in h + 1 .. H
    BY <1>1
  <2>2. /\ DOMAIN c = Heights
        /\ \A k \in Heights :
              c[k] = IF k \in h + 1 .. H THEN Anc[bi][k] ELSE old[k]
    BY DEF Walked
  <2> QED BY <1>2, <2>1, <2>2
<1>6. d = [k \in Heights |-> IF k \in h - 1 + 1 .. H THEN Anc[bi][k] ELSE old[k]]
  BY <1>5 DEF Walked
<1> HIDE DEF d, H
<1>7. h - 1 \in -1 .. H - 1
  BY <1>1
<1> QED BY <1>4, <1>6, <1>7 DEF Walked, H, d

LEMMA WalkEnds ==
    ASSUME NEW c, NEW old, NEW ht, NEW bi \in Block, NEW h, Slots(old),
           Walked(c, old, ht, bi, h), h >= 0 => Stops(c, ht, bi, h)
    PROVE  c = Filled(old, ht, bi)
<1> DEFINE H == HeightOf[bi]
<1>1. H \in Heights /\ H \in Nat /\ Heights \subseteq Nat /\ h \in -1 .. H - 1
  BY LinksAssumption DEF Heights, Walked
<1>2. h >= 0 => Stops(old, ht, bi, h)
  <2>1. h >= 0 => h \in Heights
    BY <1>1, LinksAssumption DEF Heights
  <2> QED BY <1>1, <2>1 DEF Stops, Walked
<1>3. ASSUME NEW k \in Heights
      PROVE  Reaches(old, ht, bi, k) <=> k \in h + 1 .. H
  <2>1. k \in Nat
    BY <1>1
  <2>2. CASE k \in h + 1 .. H
    BY <1>1, <2>1, <2>2 DEF Reaches, Walked
  <2>3. CASE k > H
    BY <1>1, <2>1, <2>3 DEF Reaches
  <2>4. CASE k <= h
    BY <1>1, <1>2, <2>1, <2>4 DEF Reaches
  <2> QED BY <1>1, <2>1, <2>2, <2>3, <2>4
<1>4. \A k \in Heights : c[k] = Filled(old, ht, bi)[k]
  BY <1>3, FilledSlot DEF Walked
<1> QED BY <1>4 DEF Walked, Filled

-----------------------------------------------------------------------------
(* What a thread does apart from its fills: the window stays.              *)
LEMMA WindowStays ==
    ASSUME DriveInv, Holds', UNCHANGED <<chain, height, walk, rest>>
    PROVE  DriveInv'
BY DEF DriveInv, Walks, Rested, NoWalk

LEMMA HoldsStep ==
    ASSUME Holds, [DriveNext]_allVars
    PROVE  Holds'
<1> USE DEF Holds
<1>1. ASSUME NEW t \in Supervisors, SupervisorTick(t) PROVE Holds'
  BY <1>1, ThreadsAssumption DEF SupervisorTick, Driver
<1>2. ASSUME NEW t \in Sync, IngestEnter(t) \/ KickEnter(t) PROVE Holds'
  <2>1. \A u \in Driver : pc[u] # "idle" => u \notin Sync
    BY <1>2, ThreadsAssumption DEF IngestEnter, KickEnter, Driver
  <2> QED BY <1>2, <2>1 DEF IngestEnter, KickEnter, Driver
<1>3. ASSUME NEW t \in Driver, Leave(t) PROVE Holds'
  BY <1>3 DEF Leave
<1>4. ASSUME NEW t \in Driver, FillSlot(t) \/ FillEnd(t) PROVE Holds'
  BY <1>4 DEF FillSlot, FillEnd, driveVars
<1>5. ASSUME NEW t \in Driver, NEW b \in Block, FillBegin(t, b) PROVE Holds'
  BY <1>5 DEF FillBegin, driveVars
<1>6. ASSUME NEW b \in Block, BestHeader(b) PROVE Holds'
  BY <1>6 DEF BestHeader, driveVars
<1>7. ASSUME UNCHANGED allVars PROVE Holds'
  BY <1>7 DEF allVars
<1> QED BY <1>1, <1>2, <1>3, <1>4, <1>5, <1>6, <1>7 DEF DriveNext

(* The top of a fill is written: nobody else is at work.                   *)
LEMMA BeginStep ==
    ASSUME KeptApart, DriveInv, Holds', NEW t \in Driver, NEW b \in Block,
           FillBegin(t, b)
    PROVE  DriveInv'
<1>1. /\ pc[t] # "idle" /\ walk[t] = NoWalk
      /\ chain' = [chain EXCEPT ![HeightOf[b]] = b]
      /\ walk' = [walk EXCEPT ![t] = [bi |-> b, h |-> HeightOf[b] - 1]]
      /\ UNCHANGED <<height, rest>>
  BY DEF FillBegin
<1>2. \A u \in Driver : walk[u] = NoWalk
  <2> SUFFICES ASSUME NEW u \in Driver, walk[u] # NoWalk PROVE FALSE
    OBVIOUS
  <2>1. pc[u] # "idle"
    BY DEF DriveInv, Holds
  <2> QED BY <1>1, <2>1, OneDriver DEF DriveInv
<1>3. chain = rest.chain /\ Slots(rest.chain)
  BY <1>2 DEF DriveInv, Walks, Rested
<1>4. Walked(chain', rest.chain, height, b, HeightOf[b] - 1)
  BY <1>1, <1>3, WalkBegins, Zenon
<1>5. /\ walk'[t] = [bi |-> b, h |-> HeightOf[b] - 1]
      /\ \A u \in Driver : u # t => walk'[u] = NoWalk
  BY <1>1, <1>2 DEF DriveInv, Holds
<1>6. walk'[t].bi = b /\ walk'[t].h = HeightOf[b] - 1 /\ walk'[t] # NoWalk
  BY <1>5, LinksAssumption DEF NoWalk
<1>7. Walks'
  <2>1. Walked(chain', rest.chain', height', walk'[t].bi, walk'[t].h)
    BY <1>1, <1>4, <1>6, Zenon
  <2>2. walk'[t] = [bi |-> walk'[t].bi, h |-> walk'[t].h]
    BY <1>5
  <2> HIDE DEF Walked
  <2> QED BY <1>5, <1>6, <2>1, <2>2 DEF Walks, NoWalk
<1>8. Rested'
  BY <1>1 DEF DriveInv, Rested
<1> QED BY <1>7, <1>8 DEF DriveInv

LEMMA SlotStep ==
    ASSUME KeptApart, DriveInv, Holds', NEW t \in Driver, FillSlot(t)
    PROVE  DriveInv'
<1> DEFINE b == walk[t].bi
           h == walk[t].h
<1>1. /\ walk[t] # NoWalk /\ h >= 0 /\ ~ Stops(chain, height, b, h)
      /\ chain' = [chain EXCEPT ![h] = Anc[b][h]]
      /\ walk' = [walk EXCEPT ![t].h = @ - 1]
      /\ UNCHANGED <<height, rest>>
  BY DEF FillSlot, Done
<1>2. /\ walk[t] = [bi |-> b, h |-> h] /\ b \in Block
      /\ Walked(chain, rest.chain, height, b, h) /\ Slots(rest.chain)
  BY <1>1 DEF DriveInv, Walks, Rested
<1>3. \A u \in Driver : u # t => walk[u] = NoWalk
  BY <1>1, OneDriver DEF DriveInv, Holds
<1>4. /\ walk'[t] = [bi |-> b, h |-> h - 1]
      /\ \A u \in Driver : u # t => walk'[u] = NoWalk
  BY <1>1, <1>2, <1>3 DEF DriveInv, Holds
<1> HIDE DEF b, h
<1>5. Walked(chain', rest.chain, height, b, h - 1)
  BY <1>1, <1>2, WalkGoesOn, Zenon
<1>6. walk'[t].bi = b /\ walk'[t].h = h - 1 /\ walk'[t] # NoWalk
  BY <1>2, <1>4, LinksAssumption DEF NoWalk
<1>7. Walks'
  <2>1. Walked(chain', rest.chain', height', walk'[t].bi, walk'[t].h)
    BY <1>1, <1>5, <1>6, Zenon
  <2>2. walk'[t] = [bi |-> walk'[t].bi, h |-> walk'[t].h]
    BY <1>4
  <2> QED BY <1>2, <1>4, <1>6, <2>1, <2>2 DEF Walks, NoWalk
<1>8. Rested'
  BY <1>1 DEF DriveInv, Rested
<1> QED BY <1>7, <1>8 DEF DriveInv

(* The end of a fill: the window is now what one fill makes of the old.    *)
LEMMA EndIsFill ==
    ASSUME DriveInv, NEW t \in Driver, FillEnd(t)
    PROVE  /\ walk[t].bi \in Block
           /\ chain = Filled(rest.chain, height, walk[t].bi)
           /\ rest'.chain = chain /\ rest'.height = HeightOf[walk[t].bi]
           /\ rest' = [chain |-> chain', height |-> height']
<1> DEFINE b == walk[t].bi
           h == walk[t].h
<1>1. /\ walk[t] # NoWalk /\ (h >= 0 => Stops(chain, height, b, h))
      /\ height' = HeightOf[b] /\ chain' = chain
      /\ rest' = [chain |-> chain, height |-> height']
  BY DEF FillEnd, Done
<1>2. /\ b \in Block /\ Walked(chain, rest.chain, height, b, h)
      /\ Slots(rest.chain)
  BY <1>1 DEF DriveInv, Walks, Rested
<1> HIDE DEF b, h
<1>3. chain = Filled(rest.chain, height, b)
  BY <1>1, <1>2, WalkEnds
<1>4. rest'.chain = chain /\ rest'.height = HeightOf[b]
  BY <1>1
<1> QED BY <1>1, <1>2, <1>3, <1>4 DEF b

LEMMA EndStep ==
    ASSUME KeptApart, DriveInv, Holds', NEW t \in Driver, FillEnd(t)
    PROVE  DriveInv'
<1> DEFINE b == walk[t].bi
<1>1. /\ walk[t] # NoWalk /\ height' = HeightOf[b] /\ chain' = chain
      /\ walk' = [walk EXCEPT ![t] = NoWalk]
  BY DEF FillEnd
<1>2. /\ b \in Block /\ chain = Filled(rest.chain, height, b)
      /\ rest'.chain = chain /\ rest' = [chain |-> chain', height |-> height']
  BY EndIsFill
<1>3. \A u \in Driver : walk'[u] = NoWalk
  BY <1>1, OneDriver DEF DriveInv, Holds
<1>4. Walks'
  BY <1>1, <1>2, <1>3 DEF Walks, NoWalk
<1>5. Slots(rest.chain) /\ height \in Int /\ OneChain(rest.chain, height)
  BY DEF DriveInv, Rested
<1> HIDE DEF b
<1>6. Slots(chain) /\ HeightOf[b] \in Int
  BY <1>2, <1>5, FillSlots DEF Heights
<1>7. OneChain(chain, HeightOf[b])
  BY <1>2, <1>5, FillKeepsOneChain
<1>8. Rested'
  BY <1>1, <1>2, <1>6, <1>7 DEF Rested
<1> QED BY <1>4, <1>8 DEF DriveInv

LEMMA DriveStep ==
    ASSUME KeptApart, DriveInv, [DriveNext]_allVars
    PROVE  DriveInv'
<1>1. Holds'
  BY HoldsStep DEF DriveInv
<1>2. ASSUME NEW t \in Supervisors, SupervisorTick(t) PROVE DriveInv'
  BY <1>1, <1>2, WindowStays DEF SupervisorTick, vars
<1>3. ASSUME NEW t \in Sync, IngestEnter(t) \/ KickEnter(t) PROVE DriveInv'
  BY <1>1, <1>3, WindowStays DEF IngestEnter, KickEnter, vars
<1>4. ASSUME NEW t \in Driver, Leave(t) PROVE DriveInv'
  BY <1>1, <1>4, WindowStays DEF Leave, vars
<1>5. ASSUME NEW b \in Block, BestHeader(b) PROVE DriveInv'
  BY <1>1, <1>5, WindowStays DEF BestHeader, NewBestHeader
<1>6. ASSUME UNCHANGED allVars PROVE DriveInv'
  BY <1>1, <1>6, WindowStays DEF allVars
<1> QED
  BY <1>1, <1>2, <1>3, <1>4, <1>5, <1>6, BeginStep, SlotStep, EndStep
  DEF DriveNext

(* Where the mutex keeps the drivers apart, what a driver reads between    *)
(* two fills is one chain (step_finalize at H and H + 1), for every tree,  *)
(* any missing links and any number of threads.                            *)
THEOREM DriversSeeOneChain ==
    ASSUME KeptApart PROVE DriveSpec => []DriverSeesOneChain
<1>1. DriveInv => DriverSeesOneChain
  <2> SUFFICES ASSUME DriveInv, NEW t \in Driver,
                      pc[t] # "idle", walk[t] = NoWalk
               PROVE  WindowIsAncestry
    BY DEF DriverSeesOneChain
  <2>1. \A u \in Driver : walk[u] = NoWalk
    BY OneDriver DEF DriveInv, Holds
  <2>2. OneChain(chain, height)
    BY <2>1 DEF DriveInv, Walks, Rested
  <2> QED BY <2>2 DEF OneChain, WindowIsAncestry
<1>2. DriveInv /\ [DriveNext]_allVars => DriveInv'
  BY DriveStep
<1> QED BY <1>1, <1>2, DriveStart, PTL DEF DriveSpec

(* The loop of active_chain_fill_window, slot by slot with the height      *)
(* last, is one move of the window: the drivers implement ActiveChain.     *)
THEOREM DriversImplementWindow ==
    ASSUME KeptApart PROVE DriveSpec => ImplementsWindow
<1>1. DriveInit => Window!Init
  BY DEF DriveInit, Init, Window!Init, Heights, Window!Heights
<1>2. ASSUME DriveInv, [DriveNext]_allVars PROVE [Window!Next]_(Window!vars)
  <2>1. ASSUME NEW t \in Driver, FillEnd(t) PROVE Window!Next
    <3> DEFINE b == walk[t].bi
    <3>1. /\ b \in Block /\ rest'.chain = Filled(rest.chain, height, b)
          /\ rest'.height = HeightOf[b] /\ rest.height = height
      BY <1>2, <2>1, EndIsFill DEF DriveInv, Rested
    <3>2. UNCHANGED <<candidate, ready>>
      BY <2>1 DEF FillEnd
    <3> HIDE DEF b
    <3>3. Filled(rest.chain, height, b) = Window!Filled(rest.chain, height, b)
      BY DEF Filled, Window!Filled, Stops, Window!Stops, Heights, Window!Heights
    <3>4. Window!MoveWindowTip(b)
      BY <3>1, <3>2, <3>3 DEF Window!MoveWindowTip, Window!FillWindow
    <3> QED BY <3>1, <3>4 DEF Window!Next
  <2>2. ASSUME NEW b \in Block, BestHeader(b) PROVE Window!Next
    <3>1. Window!NewBestHeader(b)
      BY <2>2 DEF BestHeader, NewBestHeader, Window!NewBestHeader
    <3> QED BY <3>1 DEF Window!Next
  <2>3. CASE UNCHANGED <<candidate, ready, rest>>
    BY <2>3 DEF Window!vars
  <2>4. \/ \E t \in Driver : FillEnd(t)
        \/ \E b \in Block : BestHeader(b)
        \/ UNCHANGED <<candidate, ready, rest>>
    BY <1>2
    DEF DriveNext, allVars, SupervisorTick, IngestEnter, KickEnter, Leave,
        FillSlot, FillBegin, vars
  <2> QED BY <2>1, <2>2, <2>3, <2>4
<1>3. DriveInv /\ [DriveNext]_allVars => DriveInv'
  BY DriveStep
<1> QED
  BY <1>1, <1>2, <1>3, DriveStart, PTL
  DEF DriveSpec, ImplementsWindow, Window!Spec
=============================================================================
