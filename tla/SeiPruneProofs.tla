--------------------------- MODULE SeiPruneProofs ---------------------------
(***************************************************************************)
(* For every word size, --keep-blocks and number of runs, errors and kills:*)
(* a Sei run deletes no retained height, leaves no meta without its block, *)
(* and catches up with what earlier runs left.                             *)
(***************************************************************************)
EXTENDS SeiPrune, WordsProofs

\* The prefix of a step of the loop, and how many there are.
LEMMA PrefixType ==
  /\ Len(Prefixes) = 3
  /\ \A i \in 1 .. 3 : Prefixes[i] \in KeyTypes
  /\ Prefixes[1] = "meta" /\ Prefixes[2] = "part" /\ Prefixes[3] = "commit"
  BY DEF Prefixes, KeyTypes

\* A step of the loop deletes heights below the end of the range, all of
\* them unless an error is dropped, under one prefix.
LEMMA LoopStep ==
  ASSUME TypeOK, PruneKeys \/ DropError
  PROVE  /\ pc \in 1 .. 3 /\ pc' = pc + 1 /\ UNCHANGED <<node, run, result>>
         /\ keys' \in [KeyTypes -> SUBSET Nat]
         /\ \A p \in KeyTypes : keys'[p] \subseteq keys[p]
         /\ \A p \in KeyTypes : \A h \in keys[p] \ keys'[p] : h < EndHeight /\ p = Prefixes[pc]
         /\ PruneKeys => /\ UNCHANGED <<dropped, lost>>
                         /\ \A h \in keys'[Prefixes[pc]] : h >= EndHeight
<1>1. pc \in 1 .. 3 /\ pc' = pc + 1 /\ UNCHANGED <<node, run, result>>
  BY PrefixType DEF PruneKeys, DropError
<1>2. PICK p \in KeyTypes : p = Prefixes[pc]
  BY <1>1, PrefixType
<1>3. PICK D \in SUBSET SeiRange(p) : keys' = [keys EXCEPT ![p] = @ \ D]
                                      /\ (PruneKeys => D = SeiRange(p))
  <2>1. CASE PruneKeys
    BY <1>2, <2>1 DEF PruneKeys
  <2>2. CASE DropError /\ ~PruneKeys
    <3>1. PICK n \in 0 .. height :
            keys' = [keys EXCEPT ![Prefixes[pc]] = @ \ {h \in SeiRange(Prefixes[pc]) : h <= n}]
      BY <2>2 DEF DropError
    <3>2. {h \in SeiRange(p) : h <= n} \in SUBSET SeiRange(p)
      OBVIOUS
    <3> QED
      BY <1>2, <2>2, <3>1, <3>2
  <2> QED
    BY <2>1, <2>2
<1>4. keys \in [KeyTypes -> SUBSET Nat] /\ EndHeight \in Int
  BY ToInt64Type DEF TypeOK, EndHeight
<1>5. D \subseteq keys[p] /\ \A h \in D : h < EndHeight
  BY DEF SeiRange
<1>6. keys'[p] = keys[p] \ D /\ \A q \in KeyTypes : q # p => keys'[q] = keys[q]
  BY <1>3, <1>4
<1>7. keys' \in [KeyTypes -> SUBSET Nat]
  BY <1>3, <1>4
<1>8. \A q \in KeyTypes : /\ keys'[q] \subseteq keys[q]
                          /\ \A h \in keys[q] \ keys'[q] : h < EndHeight /\ q = p
  BY <1>5, <1>6
<1>9. ASSUME PruneKeys
      PROVE  UNCHANGED <<dropped, lost>> /\ \A h \in keys'[p] : h >= EndHeight
  <2>1. UNCHANGED <<dropped, lost>>
    BY <1>9, Zenon DEF PruneKeys
  <2>2. ASSUME NEW h \in keys'[p] PROVE h >= EndHeight
    <3>1. h \in Nat /\ h \in keys[p] /\ h \notin SeiRange(p)
      BY <1>3, <1>4, <1>6, <1>9
    <3> QED
      BY <1>4, <3>1 DEF SeiRange
  <2> QED
    BY <2>1, <2>2
<1> QED
  BY <1>1, <1>2, <1>7, <1>8, <1>9

-----------------------------------------------------------------------------

\* The node adds the keys of one height.
LEMMA SaveBlockEffect ==
  ASSUME TypeOK, SaveBlock
  PROVE  /\ height' = height + 1
         /\ UNCHANGED <<first, applied, pc, pruneHeight, floor, dropped, lost, result>>
         /\ keys'["meta"] = keys["meta"] \cup {height + 1}
         /\ keys'["part"] = keys["part"] \cup {height + 1}
         /\ keys'["commit"] = keys["commit"] \cup {height}
  BY DEF SaveBlock, TypeOK, KeyTypes, Lag, run

\* The keys of the first block.
LEMMA InitialTypes ==
  ASSUME Init
  PROVE  TypeOK
<1>1. first \in Nat \ {0}
  BY SeiHeightsAssumption DEF Init
<1>2. \A p \in KeyTypes : first - Lag(p) \in Nat
  BY <1>1 DEF Lag
<1>3. keys \in [KeyTypes -> SUBSET Nat] /\ {first, height, applied} \subseteq Nat
  BY <1>1, <1>2 DEF Init
<1>4. dropped \in BOOLEAN
  BY Zenon DEF Init
<1> QED
  BY <1>3, <1>4 DEF Init, TypeOK

\* Every variable keeps its type, for all values of the constants.
THEOREM SeiTypeCorrect == Spec => []TypeOK
<1>1. Init => TypeOK
  BY InitialTypes
<1>2. TypeOK /\ [Next]_vars => TypeOK'
  <2> SUFFICES ASSUME TypeOK, [Next]_vars PROVE TypeOK'
    OBVIOUS
  <2>1. CASE UNCHANGED vars
    BY <2>1 DEF vars, TypeOK
  <2>2. CASE SaveBlock
    <3>1. \A p \in KeyTypes : height + 1 - Lag(p) \in Nat
      BY DEF TypeOK, Lag
    <3>2. keys' \in [KeyTypes -> SUBSET Nat]
      BY <2>2, <3>1 DEF SaveBlock, TypeOK
    <3> QED
      BY <2>2, <3>2 DEF SaveBlock, TypeOK, run
  <2>3. CASE ApplyBlock
    BY <2>3 DEF ApplyBlock, TypeOK, run
  <2>4. ASSUME NEW k \in Keeps, StartPrune(k) PROVE TypeOK'
    <3>1. k \in Nat /\ applied \in Nat /\ floor \in Nat
      BY SeiKeepsAssumption DEF TypeOK
    <3>2. pruneHeight' \in Nat /\ floor' \in Nat
      <4>1. applied - k \in Int /\ floor' = Max({floor, applied - k})
        BY <2>4, <3>1 DEF StartPrune
      <4>2. floor' = IF floor >= applied - k THEN floor ELSE applied - k
        BY <3>1, <4>1, MaxPair
      <4>3. pruneHeight' = UintMinus(applied, k)
        BY <2>4 DEF StartPrune
      <4> QED
        BY <3>1, <4>2, <4>3, UintMinusType
    <3>3. dropped' \in BOOLEAN
      BY <2>4, Zenon DEF StartPrune
    <3> QED
      BY <2>4, <3>2, <3>3 DEF StartPrune, TypeOK, node
  <2>5. CASE PruneKeys \/ DropError
    <3>0. dropped' \in BOOLEAN
      BY <2>5, Zenon DEF PruneKeys, DropError, TypeOK
    <3>1. lost' \in Nat /\ faults' \in Nat
      <4>1. EndHeight \in Int /\ lost \in Nat
        BY ToInt64Type DEF TypeOK, EndHeight
      <4>2. lost' \in {lost, Max({lost, EndHeight})}
        BY <2>5 DEF PruneKeys, DropError
      <4>3. Max({lost, EndHeight}) \in Nat
        BY <4>1, MaxPair
      <4> QED
        BY <2>5, <4>1, <4>2, <4>3 DEF PruneKeys, DropError, TypeOK
    <3> QED
      BY <2>5, <3>0, <3>1, LoopStep DEF TypeOK, node, run
  <2>6. CASE FinishPrune \/ PruneFails
    BY <2>6 DEF FinishPrune, PruneFails, TypeOK, node, run
  <2> QED
    BY <2>1, <2>2, <2>3, <2>4, <2>5, <2>6 DEF Next
<1> QED
  BY <1>1, <1>2, PTL DEF Spec

-----------------------------------------------------------------------------
(* No meta without its block. *)

\* Once the metas are deleted, those below the end of the range are gone,
\* unless the error was dropped.
MetaInv ==
  /\ MetaHasBlock
  /\ pc >= 2 => \A h \in keys["meta"] : h >= lost => h >= EndHeight

\* Each step keeps it.
LEMMA MetaStep ==
  ASSUME TypeOK, MetaInv, [Next]_vars
  PROVE  MetaInv'
<1>0. /\ keys \in [KeyTypes -> SUBSET Nat] /\ {height, lost, applied} \subseteq Nat
      /\ EndHeight \in Int /\ pc \in 0 .. 4
  BY ToInt64Type DEF TypeOK, EndHeight
<1>1. {"meta", "part", "commit"} = KeyTypes
  BY DEF KeyTypes
<1>2. CASE SaveBlock
  <2>1. pc' = 0
    BY <1>2 DEF SaveBlock
  <2> QED
    BY <1>0, <1>1, <1>2, <2>1, SaveBlockEffect DEF MetaInv, MetaHasBlock
<1>3. CASE \/ ApplyBlock \/ (\E k \in Keeps : StartPrune(k)) \/ FinishPrune \/ PruneFails
           \/ UNCHANGED vars
  <2>1. UNCHANGED <<keys, height, lost>> /\ (pc' \in {0, 1} \/ UNCHANGED <<pc, pruneHeight>>)
    BY <1>3 DEF ApplyBlock, StartPrune, FinishPrune, PruneFails, vars, node, run
  <2> QED
    BY <1>0, <2>1 DEF MetaInv, MetaHasBlock, EndHeight
<1>4. CASE PruneKeys \/ DropError
  <2>1. /\ pc \in 1 .. 3 /\ pc' = pc + 1 /\ UNCHANGED <<height, pruneHeight>>
        /\ keys' \in [KeyTypes -> SUBSET Nat]
        /\ \A p \in KeyTypes : keys'[p] \subseteq keys[p]
        /\ \A p \in KeyTypes : \A h \in keys[p] \ keys'[p] : h < EndHeight /\ p = Prefixes[pc]
    BY <1>4, LoopStep DEF node, run
  <2>2. lost' \in Nat /\ lost <= lost' /\ (pc # 1 => lost' = lost)
        /\ (pc = 1 /\ ~PruneKeys => EndHeight <= lost')
    <3>1. CASE PruneKeys
      BY <1>0, <3>1 DEF PruneKeys
    <3>2. CASE ~PruneKeys
      <4>1. lost' = IF Prefixes[pc] = "meta" THEN Max({lost, EndHeight}) ELSE lost
        BY <1>4, <3>2 DEF DropError
      <4>2. Max({lost, EndHeight}) = IF lost >= EndHeight THEN lost ELSE EndHeight
        BY <1>0, MaxPair
      <4>3. Prefixes[pc] = "meta" <=> pc = 1
        BY <2>1, PrefixType
      <4> QED
        BY <1>0, <4>1, <4>2, <4>3
    <3> QED
      BY <3>1, <3>2
  <2>3. ASSUME NEW h \in keys'["meta"], h >= lost' PROVE h >= EndHeight
    <3>0. h \in Nat /\ h \in keys["meta"]
      BY <1>1, <2>1
    <3>1. CASE pc # 1
      BY <1>0, <2>1, <2>2, <2>3, <3>0, <3>1 DEF MetaInv
    <3>2. CASE pc = 1 /\ PruneKeys
      <4>1. Prefixes[pc] = "meta"
        BY <3>2, PrefixType
      <4> QED
        BY <2>3, <3>2, <4>1, LoopStep
    <3>3. CASE pc = 1 /\ ~PruneKeys
      BY <1>0, <2>2, <2>3, <3>0, <3>3
    <3> QED
      BY <3>1, <3>2, <3>3
  <2>4. ASSUME NEW h \in keys'["meta"], h >= lost'
        PROVE  h \in keys'["part"] /\ (h < height => h \in keys'["commit"])
    <3>1. h \in Nat /\ h \in keys["meta"] /\ h >= lost
      BY <1>0, <1>1, <2>1, <2>2, <2>4
    <3>2. ~(h < EndHeight)
      BY <1>0, <2>3, <2>4, <3>1
    <3>3. h \in keys["part"] /\ (h < height => h \in keys["commit"])
      BY <3>1 DEF MetaInv, MetaHasBlock
    <3> QED
      BY <1>1, <2>1, <3>2, <3>3
  <2>5. EndHeight' = EndHeight
    BY <2>1 DEF EndHeight
  <2> QED
    BY <2>1, <2>3, <2>4, <2>5 DEF MetaInv, MetaHasBlock
<1> QED
  BY <1>2, <1>3, <1>4 DEF Next

\* Wherever a Sei run is cut off, the metas that are left have their block and
\* their commit, because the metas are deleted first.
THEOREM SeiMetaHasBlock == Spec => []MetaHasBlock
<1>1. Init => MetaInv
  <2> SUFFICES ASSUME Init PROVE MetaInv
    OBVIOUS
  <2>1. first \in Nat /\ height = first /\ pc = 0
        /\ keys["meta"] = {first} /\ keys["part"] = {first}
    BY SeiHeightsAssumption DEF Init, KeyTypes, Lag
  <2> QED
    BY <2>1 DEF MetaInv, MetaHasBlock
<1>2. TypeOK /\ MetaInv /\ [Next]_vars => MetaInv'
  BY MetaStep
<1>3. MetaInv => MetaHasBlock
  BY DEF MetaInv
<1> QED
  BY <1>1, <1>2, <1>3, SeiTypeCorrect, PTL DEF Spec

-----------------------------------------------------------------------------
(* The retained heights, and those that are not. *)

\* Heights and --keep-blocks fit in an int64; the latter may well exceed the
\* former.
SeiFit ==
  /\ MaxHeight \in Nat /\ 2 * MaxHeight < Modulus
  /\ \A f \in InitialHeights : f <= MaxHeight
  /\ \A k \in Keeps : 2 * k <= Modulus

\* The range ends at what was given up, and what a run without a dropped
\* error has visited holds nothing below it.
SeiInv ==
  /\ 0 < first /\ first <= applied /\ applied <= height /\ height <= applied + 1
  /\ height <= MaxHeight
  /\ EndHeight <= floor /\ floor <= applied
  /\ RetainedBlocks
  /\ ~dropped =>
       \A i \in 1 .. 3 : (pc > i \/ (pc = 0 /\ result = "ok")) =>
         \A h \in keys[Prefixes[i]] : h >= EndHeight

\* The first block has its keys.
LEMMA SeiInvInit == SeiFit /\ Init => SeiInv
<1> SUFFICES ASSUME SeiFit, Init PROVE SeiInv
  OBVIOUS
<1>1. first \in Nat \ {0} /\ first <= MaxHeight
  BY SeiHeightsAssumption DEF Init, SeiFit
<1>2. EndHeight = 0
  BY ModulusAssumption DEF Init, EndHeight, ToInt64
<1>3. RetainedBlocks
  BY <1>1 DEF Init, RetainedBlocks, Lag
<1>4. pc = 0 /\ result = "none" /\ floor = 0 /\ applied = first /\ height = first
  BY DEF Init
<1> QED
  BY <1>1, <1>2, <1>3, <1>4 DEF SeiInv

\* Each step keeps the invariant.
LEMMA SeiInvStep ==
  ASSUME SeiFit, TypeOK, SeiInv, [Next]_vars
  PROVE  SeiInv'
<1>0. /\ {first, height, applied, floor, pruneHeight} \subseteq Nat
      /\ keys \in [KeyTypes -> SUBSET Nat] /\ pc \in 0 .. 4 /\ EndHeight \in Int
  BY ToInt64Type DEF TypeOK, EndHeight
<1>1. UNCHANGED pruneHeight => EndHeight' = EndHeight
  BY DEF EndHeight
<1> DEFINE Visited ==
      ~dropped =>
        \A i \in 1 .. 3 : (pc > i \/ (pc = 0 /\ result = "ok")) =>
          \A h \in keys[Prefixes[i]] : h >= EndHeight
<1>2. CASE UNCHANGED vars
  BY <1>2 DEF vars, SeiInv, RetainedBlocks, EndHeight
<1>3. CASE SaveBlock
  <2>1. /\ height' = height + 1 /\ height' <= MaxHeight /\ height = applied
        /\ UNCHANGED <<first, applied, pc, pruneHeight, floor>>
    BY <1>0, <1>3, SaveBlockEffect DEF SaveBlock, SeiFit
  <2>2. \A p \in KeyTypes : keys'[p] = keys[p] \cup {height + 1 - Lag(p)}
    BY <1>3 DEF SaveBlock
  <2>3. RetainedBlocks'
    <3> SUFFICES ASSUME NEW p \in KeyTypes, NEW h \in first .. height' - Lag(p), h >= floor
                 PROVE  h \in keys'[p]
      BY <2>1 DEF RetainedBlocks
    <3>1. Lag(p) \in {0, 1}
      BY DEF Lag
    <3>2. h \in first .. height - Lag(p) \/ h = height + 1 - Lag(p)
      BY <1>0, <2>1, <3>1
    <3> QED
      BY <2>2, <3>2 DEF SeiInv, RetainedBlocks
  <2>4. Visited'
    <3> SUFFICES ASSUME ~dropped, NEW i \in 1 .. 3, pc > i \/ (pc = 0 /\ result = "ok"),
                        NEW h \in keys'[Prefixes[i]]
                 PROVE  h >= EndHeight
      BY <1>1, <1>3, <2>1, SaveBlockEffect
    <3>1. Prefixes[i] \in KeyTypes
      BY PrefixType
    <3>2. h \in keys[Prefixes[i]] \/ h = height + 1 - Lag(Prefixes[i])
      BY <2>2, <3>1
    <3>3. Lag(Prefixes[i]) \in {0, 1}
      BY DEF Lag
    <3>4. h = height + 1 - Lag(Prefixes[i]) => h >= EndHeight
      BY <1>0, <2>1, <3>3 DEF SeiInv
    <3>5. h \in keys[Prefixes[i]] => h >= EndHeight
      BY DEF SeiInv
    <3> QED
      BY <3>2, <3>4, <3>5
  <2> HIDE DEF Visited
  <2> QED
    BY <1>0, <1>1, <2>1, <2>3, <2>4 DEF SeiInv, Visited
<1>4. CASE ApplyBlock
  BY <1>0, <1>4 DEF ApplyBlock, SeiInv, RetainedBlocks, EndHeight, run
<1>5. ASSUME NEW k \in Keeps, StartPrune(k) PROVE SeiInv'
  <2>1. k \in Nat /\ 2 * k <= Modulus /\ 2 * applied < Modulus /\ applied > 0
    BY <1>0, SeiKeepsAssumption, ModulusAssumption DEF SeiFit, SeiInv
  <2>2. EndHeight' = applied - k
    BY <1>0, <1>5, <2>1, Int64Difference DEF StartPrune, EndHeight
  <2>3. floor' = IF floor >= applied - k THEN floor ELSE applied - k
    BY <1>0, <1>5, <2>1, MaxPair DEF StartPrune
  <2>4. UNCHANGED <<first, height, applied, keys>> /\ pc' = 1
    BY <1>5 DEF StartPrune, node
  <2>5. floor' \in Nat /\ floor <= floor' /\ floor' <= applied /\ EndHeight' <= floor'
    BY <1>0, <2>1, <2>2, <2>3 DEF SeiInv
  <2>6. RetainedBlocks'
    <3> SUFFICES ASSUME NEW p \in KeyTypes, NEW h \in first .. height - Lag(p), h >= floor'
                 PROVE  h \in keys[p]
      BY <2>4 DEF RetainedBlocks
    <3>1. h \in Int /\ h >= floor
      BY <1>0, <2>5
    <3> QED
      BY <3>1 DEF SeiInv, RetainedBlocks
  <2> QED
    BY <2>4, <2>5, <2>6 DEF SeiInv
<1>6. CASE PruneKeys \/ DropError
  <2>1. /\ pc \in 1 .. 3 /\ pc' = pc + 1
        /\ UNCHANGED <<first, height, applied, pruneHeight, floor, result>>
        /\ \A p \in KeyTypes : keys'[p] \subseteq keys[p]
        /\ \A p \in KeyTypes : \A h \in keys[p] \ keys'[p] : h < EndHeight
    BY <1>6, LoopStep DEF node, run
  <2>2. RetainedBlocks'
    <3> SUFFICES ASSUME NEW p \in KeyTypes, NEW h \in first .. height - Lag(p), h >= floor
                 PROVE  h \in keys'[p]
      BY <2>1 DEF RetainedBlocks
    <3>1. h \in Int /\ ~(h < EndHeight)
      BY <1>0 DEF SeiInv
    <3> QED
      BY <2>1, <3>1 DEF SeiInv, RetainedBlocks
  <2>3. Visited'
    <3>1. CASE DropError
      <4>1. dropped'
        BY <3>1, Zenon DEF DropError
      <4> QED
        BY <4>1
    <3>2. CASE PruneKeys
      <4> SUFFICES ASSUME ~dropped, NEW i \in 1 .. 3, pc + 1 > i, NEW h \in keys'[Prefixes[i]]
                   PROVE  h >= EndHeight
        BY <1>1, <2>1, <3>2, LoopStep
      <4>1. CASE i = pc
        BY <3>2, <4>1, LoopStep
      <4>2. CASE i # pc
        <5>1. pc > i /\ h \in keys[Prefixes[i]]
          BY <2>1, <4>2, PrefixType
        <5> QED
          BY <5>1 DEF SeiInv
      <4> QED
        BY <4>1, <4>2
    <3> QED
      BY <1>6, <3>1, <3>2
  <2> HIDE DEF Visited
  <2> QED
    BY <1>1, <2>1, <2>2, <2>3 DEF SeiInv, Visited
<1>7. CASE FinishPrune \/ PruneFails
  <2>1. /\ UNCHANGED <<first, height, applied, keys, pruneHeight, floor, dropped>> /\ pc' = 0
        /\ result' = "ok" => pc > 3
    BY <1>7, PrefixType DEF FinishPrune, PruneFails, node, run
  <2> QED
    BY <1>0, <1>1, <2>1 DEF SeiInv, RetainedBlocks
<1> QED
  BY <1>2, <1>3, <1>4, <1>5, <1>6, <1>7 DEF Next

\* The invariant holds throughout.
LEMMA SeiAlways == SeiFit => (Spec => []SeiInv)
<1> SUFFICES ASSUME SeiFit PROVE Spec => []SeiInv
  OBVIOUS
<1>1. Init => SeiInv
  BY SeiInvInit
<1>2. TypeOK /\ SeiInv /\ [Next]_vars => SeiInv'
  BY SeiInvStep
<1> QED
  BY <1>1, <1>2, SeiTypeCorrect, PTL DEF Spec

\* A Sei run deletes no height that --keep-blocks retains, even one that is
\* to keep more blocks than there are.
THEOREM SeiRetainedKept == SeiFit => (Spec => []RetainedBlocks)
<1>1. SeiInv => RetainedBlocks
  BY DEF SeiInv
<1> QED
  BY <1>1, SeiAlways, PTL

\* A run that ends well and drops no error leaves nothing below the end of
\* its range, whatever runs before it left.
THEOREM SeiCatchesUp == SeiFit => (Spec => []CatchesUp)
<1>1. SeiInv => CatchesUp
  <2> SUFFICES ASSUME SeiInv, pc = 0, result = "ok", ~dropped,
                      NEW p \in KeyTypes, NEW h \in keys[p]
               PROVE  h >= EndHeight
    BY DEF CatchesUp
  <2>1. PICK i \in 1 .. 3 : Prefixes[i] = p
    BY PrefixType DEF KeyTypes
  <2> QED
    BY <2>1 DEF SeiInv
<1> QED
  BY <1>1, SeiAlways, PTL
=============================================================================
