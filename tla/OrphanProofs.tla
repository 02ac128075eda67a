---------------------------- MODULE OrphanProofs ----------------------------
(***************************************************************************)
(* What deleteHeightRange leaves below pruneHeight.  The heights a store   *)
(* holds are contiguous but for the leftovers of earlier runs, so the loop *)
(* over the numbers of digits reaches every one of them although it stops  *)
(* at the first batch that is empty.                                       *)
(***************************************************************************)
EXTENDS CometPruneProofs

\* The heights that a run may leave.
Orphans == AllNines \cup {0}

\* Apart from orphans, the keys are all the heights from some height on.
Solid(keys, top) == \A h \in keys \ Orphans : \A g \in h .. top : g \in keys

\* The same of the heights from P on.
SolidFrom(P, keys, top) ==
  \A h \in keys \ Orphans : h >= P => \A g \in h .. top : g \in keys

Cleared(P, keys) == \A h \in keys : h < P => h \in Orphans

\* While a prefix is being deleted, with d digits to go: what is left below P
\* has at most d digits, and a key with fewer digits implies one with d, so
\* that the batch that deletes it is not skipped because of an empty one.
\* (A key of two parts with fewer digits is in the batch itself.)
Digging(P, keys, twoParts, d) ==
  \A h \in keys \ Orphans : h < P =>
    /\ Digits(h) <= d
    /\ (~twoParts \/ d = Digits(P)) => \A i \in Digits(h) .. d - 1 : Pow10[i] \in keys

\* A power of the base is the start and the end of its first range, and
\* nothing is deleted.
Progress(P, keys, twoParts, top, d) ==
  IF P \in PowersOfBase THEN d = Digits(P) /\ Solid(keys, top)
  ELSE Digging(P, keys, twoParts, d) /\ SolidFrom(P, keys, top)

Done(P, keys, top) ==
  Solid(keys, top) /\ (P \notin PowersOfBase => Cleared(P, keys))

\* Where a loop goes when it ends a prefix.
Leave(pos, last, after) ==
  IF pos.k < last THEN Move(pos, pos.k + 1, Digits(pos.end)) ELSE after

\* A positive height with d digits that is below the end of its range is in
\* the range.
LEMMA OwnRange ==
  ASSUME NEW P, ExactHeight(P), NEW d \in 1 .. Digits(P), NEW twoParts,
         NEW h \in Nat, h > 0, Digits(h) = d, h < RangeEnd(P, d)
  PROVE  InKeyRange(h, twoParts, RangeStart(d), RangeEnd(P, d))
<1>1. d \in 1 .. MaxDigits /\ RangeEnd(P, d) \in Nat /\ RangeEnd(P, d) <= P
  BY RangeEndsExact
<1>2. P \in Nat /\ P < Pow10[MaxDigits] /\ h < Pow10[MaxDigits]
  BY <1>1, FloatAssumption, MaxDigitsAssumption, Pow10Step DEF ExactHeight
<1>3. Pow10[d - 1] <= h
  BY <1>2, DigitsBound
<1>4. Digits(Pow10[d - 1]) = d /\ Digits(RangeEnd(P, d)) = d /\ Pow10[d - 1] \in Nat
  BY <1>1, PowerDigits DEF RangeEnd
<1>5. ~KeyLess(h, twoParts, Pow10[d - 1])
  BY <1>3, <1>4, SameDigitsOrder
<1>6. KeyLess(h, twoParts, RangeEnd(P, d))
  BY <1>1, <1>4, SameDigitsOrder
<1> QED
  BY <1>5, <1>6 DEF InKeyRange, RangeStart

\* The batch of d digits has the keys with d digits below P, except orphans.
LEMMA OwnBatch ==
  ASSUME NEW P, ExactHeight(P), NEW d \in 1 .. Digits(P), NEW twoParts,
         NEW h \in Nat, h \notin Orphans, Digits(h) = d, h < P
  PROVE  InKeyRange(h, twoParts, RangeStart(d), RangeEnd(P, d))
<1>1. h > 0 /\ h \notin AllNines
  BY DEF Orphans
<1>2. CASE d = Digits(P)
  BY <1>1, <1>2, OwnRange DEF RangeEnd
<1>3. CASE d # Digits(P)
  <2>1. d \in 1 .. MaxDigits /\ Pow10[d] - 1 \in AllNines
    BY RangeEndsExact DEF AllNines
  <2>2. d \in Nat /\ Pow10[d] \in Nat
    BY <2>1, Pow10Step
  <2>3. h < Pow10[MaxDigits]
    BY FloatAssumption, MaxDigitsAssumption, Pow10Step DEF ExactHeight
  <2>4. h < Pow10[d]
    BY <2>3, DigitsBound
  <2>5. h < Pow10[d] - 1
    BY <1>1, <2>1, <2>2, <2>4
  <2> QED
    BY <1>1, <1>3, <2>5, OwnRange DEF RangeEnd
<1> QED
  BY <1>2, <1>3

\* The least height with d digits is below the end of its range.
LEMMA PowerInRange ==
  ASSUME NEW P, ExactHeight(P), P \notin PowersOfBase, NEW d \in 1 .. Digits(P), d > 1,
         NEW twoParts
  PROVE  InKeyRange(Pow10[d - 1], twoParts, RangeStart(d), RangeEnd(P, d))
<1>1. d \in 1 .. MaxDigits /\ P \in Nat /\ P < Pow10[MaxDigits] /\ Digits(P) > 1
  BY RangeEndsExact, DigitsType, FloatAssumption, MaxDigitsAssumption, Pow10Step
     DEF ExactHeight
<1>2. /\ Pow10[d - 1] \in Nat \ {0} /\ Digits(Pow10[d - 1]) = d
      /\ Pow10[d - 1] < Pow10[d] - 1
  BY <1>1, PowerDigits
<1>3. d = Digits(P) => Pow10[d - 1] <= P
  BY <1>1, DigitsBound
<1>4. Pow10[d - 1] \in PowersOfBase
  BY <1>1, MaxDigitsAssumption DEF PowersOfBase
<1>5. Pow10[d - 1] < RangeEnd(P, d)
  BY <1>1, <1>2, <1>3, <1>4 DEF RangeEnd
<1> QED
  BY <1>2, <1>5, OwnRange

\* What an iteration does that deletes batch, without floats.
StepEffect(P, keys, twoParts, pos, last, after, s, batch) ==
  /\ s.keys = keys \ batch
  /\ P = 0 => batch = {} /\ s.pos = LoopNext(pos, FALSE, last, after)
  /\ P # 0 =>
       /\ s.pos = LoopNext(pos, batch = {}, last, after)
       /\ \A h \in keys : h \in batch <=>
            /\ InKeyRange(h, twoParts, RangeStart(pos.d), RangeEnd(P, pos.d))
            /\ h <= P

\* An iteration has that effect, as the arithmetic on floats is exact.
LEMMA StepBatch ==
  ASSUME NEW P, ExactHeight(P), NEW keys, NEW twoParts, NEW pos, pos.end = P,
         pos.d \in 1 .. Digits(P), NEW last, NEW after,
         NEW s \in RangeStep(keys, twoParts, pos, last, after)
  PROVE  \E batch \in SUBSET keys :
           StepEffect(P, keys, twoParts, pos, last, after, s, batch)
<1> DEFINE end == RangeEnd(P, pos.d)
           skip == RangeStart(pos.d) > end
           batch == IF skip THEN {} ELSE RangeBatch(keys, twoParts, P, pos.d, end)
<1>1. RangeEnds(P, pos.d) = {end} /\ (skip <=> P = 0)
  BY RangeEndsExact
<1>2. s = [keys |-> keys \ batch,
           pos |-> LoopNext(pos, ~skip /\ batch = {}, last, after)]
  BY <1>1 DEF RangeStep
<1>3. s.keys = keys \ batch /\ s.pos = LoopNext(pos, ~skip /\ batch = {}, last, after)
  BY <1>2
<1>4. batch \in SUBSET keys
  BY DEF RangeBatch
<1>5. P = 0 => batch = {} /\ s.pos = LoopNext(pos, FALSE, last, after)
  BY <1>1, <1>3
<1>6. ASSUME P # 0
      PROVE  /\ s.pos = LoopNext(pos, batch = {}, last, after)
             /\ \A h \in keys : h \in batch <=>
                  InKeyRange(h, twoParts, RangeStart(pos.d), end) /\ h <= P
  <2>1. ~skip
    BY <1>1, <1>6
  <2>2. (~skip /\ batch = {}) = (batch = {})
    BY <2>1
  <2>3. s.pos = LoopNext(pos, batch = {}, last, after)
    BY <1>3, <2>2
  <2>4. batch = RangeBatch(keys, twoParts, P, pos.d, end)
    BY <2>1
  <2> HIDE DEF skip, batch, end
  <2> QED
    BY <2>3, <2>4 DEF RangeBatch
<1>7. StepEffect(P, keys, twoParts, pos, last, after, s, batch)
  <2> HIDE DEF skip, batch
  <2> QED
    BY <1>3, <1>5, <1>6 DEF StepEffect
<1> HIDE DEF batch
<1> QED
  BY <1>4, <1>7

\* A power of the base: the first batch is empty, and the prefix is left.
LEMMA PowerStep ==
  ASSUME NEW P, ExactHeight(P), P \in PowersOfBase, NEW keys \in SUBSET Nat,
         NEW twoParts, NEW pos, pos.end = P, pos.d = Digits(P), NEW last, NEW after,
         NEW s \in RangeStep(keys, twoParts, pos, last, after)
  PROVE  s.keys = keys /\ s.pos = Leave(pos, last, after)
<1>1. P \in Nat /\ P < Pow10[MaxDigits] /\ Pow10[MaxDigits] \in Nat
  BY FloatAssumption, MaxDigitsAssumption, Pow10Step DEF ExactHeight
<1>2. PICK i \in 0 .. MaxDigits : P = Pow10[i]
  BY DEF PowersOfBase
<1>3. i # MaxDigits /\ P > 0
  BY <1>1, <1>2, Pow10Step
<1>4. i + 1 \in 1 .. MaxDigits /\ (i + 1) - 1 = i
  BY <1>2, <1>3, MaxDigitsAssumption
<1>5. Digits(P) = i + 1
  BY <1>2, <1>4, PowerDigits
<1>6. RangeStart(pos.d) = P /\ RangeEnd(P, pos.d) = P
  BY <1>2, <1>4, <1>5 DEF RangeStart, RangeEnd
<1>7. pos.d \in 1 .. Digits(P)
  BY <1>4, <1>5
<1>8. PICK batch \in SUBSET keys :
        StepEffect(P, keys, twoParts, pos, last, after, s, batch)
  BY <1>7, StepBatch
<1>9. /\ s.keys = keys \ batch /\ s.pos = LoopNext(pos, batch = {}, last, after)
      /\ \A h \in keys : h \in batch => InKeyRange(h, twoParts, P, P)
  BY <1>3, <1>6, <1>8 DEF StepEffect
<1>10. batch = {}
  BY <1>9 DEF InKeyRange
<1> QED
  BY <1>9, <1>10 DEF LoopNext, Leave

\* One iteration: on to one digit less, or the prefix is done.
LEMMA StepProgress ==
  ASSUME NEW P, ExactHeight(P), NEW keys \in SUBSET Nat, NEW twoParts \in BOOLEAN,
         NEW top \in Int, NEW pos, pos.end = P, pos.d \in 1 .. Digits(P),
         NEW last, NEW after, NEW s \in RangeStep(keys, twoParts, pos, last, after),
         Progress(P, keys, twoParts, top, pos.d)
  PROVE  \/ /\ pos.d > 1 /\ s.pos = Move(pos, pos.k, pos.d - 1)
            /\ Progress(P, s.keys, twoParts, top, pos.d - 1)
         \/ s.pos = Leave(pos, last, after) /\ Done(P, s.keys, top)
<1>1. CASE P \in PowersOfBase
  <2>1. pos.d = Digits(P) /\ Solid(keys, top)
    BY <1>1 DEF Progress
  <2>2. s.keys = keys /\ s.pos = Leave(pos, last, after)
    BY <1>1, <2>1, PowerStep
  <2> QED
    BY <1>1, <2>1, <2>2 DEF Done
<1>2. CASE P \notin PowersOfBase
  <2> DEFINE d == pos.d
  <2>0. /\ P \in Nat /\ d \in 1 .. MaxDigits /\ d \in Nat /\ Digits(P) \in Nat
        /\ d <= Digits(P) /\ P < Pow10[MaxDigits] /\ Pow10[MaxDigits] \in Nat
    BY RangeEndsExact, DigitsType, FloatAssumption, MaxDigitsAssumption, Pow10Step
       DEF ExactHeight
  <2>1. Digging(P, keys, twoParts, d) /\ SolidFrom(P, keys, top)
    BY <1>2 DEF Progress
  <2>pick. PICK batch \in SUBSET keys :
             StepEffect(P, keys, twoParts, pos, last, after, s, batch)
    BY StepBatch
  <2>2. /\ s.keys = keys \ batch
        /\ P = 0 => batch = {} /\ s.pos = LoopNext(pos, FALSE, last, after)
        /\ P # 0 =>
             /\ s.pos = LoopNext(pos, batch = {}, last, after)
             /\ \A h \in keys : h \in batch <=>
                  InKeyRange(h, twoParts, RangeStart(d), RangeEnd(P, d)) /\ h <= P
    BY <2>pick DEF StepEffect
  <2> HIDE DEF d
  <2>3. SolidFrom(P, s.keys, top)
    <3> SUFFICES ASSUME NEW h \in s.keys \ Orphans, h >= P, NEW g \in h .. top
                 PROVE  g \in s.keys
      BY DEF SolidFrom
    <3>0. h \in keys \ Orphans /\ h \in Nat /\ s.keys = keys \ batch
      BY <2>2
    <3>1. g \in keys /\ g \in Nat /\ h <= g
      BY <2>1, <3>0 DEF SolidFrom
    <3>2. g \in batch => g <= P
      BY <2>2, <3>1
    <3>3. g \in batch => g = h
      BY <2>0, <3>0, <3>1, <3>2
    <3> QED
      BY <3>0, <3>1, <3>3
  <2>4. ASSUME NEW h \in s.keys \ Orphans, h < P
        PROVE  /\ h \in keys /\ h \in Nat /\ h > 0
               /\ Digits(h) \in Nat /\ Digits(h) >= 1 /\ Digits(h) < d
    <3>0. h \in keys /\ h \in Nat /\ h \notin batch /\ h # 0
      BY <2>2, <2>4 DEF Orphans
    <3>1. h \in keys /\ h \in Nat /\ h > 0 /\ P # 0 /\ h \notin batch
      BY <2>0, <2>4, <3>0
    <3>2. Digits(h) \in Nat /\ Digits(h) >= 1 /\ Digits(h) <= d
      BY <2>1, <2>4, <3>1, DigitsType, MaxDigitsAssumption DEF Digging
    <3>3. ~InKeyRange(h, twoParts, RangeStart(d), RangeEnd(P, d))
      BY <2>0, <2>2, <2>4, <3>1
    <3>4. Digits(h) # d
      BY <2>4, <3>1, <3>3, OwnBatch DEF d
    <3> QED
      BY <2>0, <3>1, <3>2, <3>4
  <2>5. ASSUME Cleared(P, s.keys) PROVE Done(P, s.keys, top)
    <3>0. s.keys \subseteq Nat
      BY <2>2
    <3>1. \A h \in s.keys \ Orphans : h \in Nat /\ h >= P
      BY <2>0, <2>5, <3>0 DEF Cleared
    <3>2. Solid(s.keys, top)
      BY <2>3, <3>1 DEF Solid, SolidFrom
    <3> QED
      BY <2>5, <3>2 DEF Done
  <2>6. CASE d = 1
    <3>1. Cleared(P, s.keys)
      BY <2>4, <2>6 DEF Cleared
    <3>2. s.pos = Leave(pos, last, after)
      BY <2>2, <2>6 DEF LoopNext, Leave, d
    <3> QED
      BY <2>5, <3>1, <3>2
  <2>7. CASE d > 1
    <3>1. P # 0
      BY <2>0, <2>7, DigitsBound
    <3>2. /\ s.pos = LoopNext(pos, batch = {}, last, after)
          /\ \A h \in keys : h \in batch <=>
               InKeyRange(h, twoParts, RangeStart(d), RangeEnd(P, d)) /\ h <= P
      BY <2>2, <3>1
    <3>3. CASE batch # {}
      <4>1. s.pos = Move(pos, pos.k, pos.d - 1)
        BY <2>7, <3>2, <3>3 DEF LoopNext, d
      <4>2. ASSUME NEW h \in s.keys \ Orphans, h < P
            PROVE  Digits(h) <= d - 1
        BY <2>0, <2>4, <4>2
      <4>3. ASSUME NEW h \in s.keys \ Orphans, h < P,
                   ~twoParts \/ d - 1 = Digits(P), NEW i \in Digits(h) .. d - 1 - 1
            PROVE  Pow10[i] \in s.keys
        <5>1. twoParts = FALSE
          BY <2>0, <4>3
        <5>2. h \in keys \ Orphans /\ Digits(h) \in Nat /\ Digits(h) >= 1
          BY <2>4, <4>3
        <5>3. i \in Digits(h) .. d - 1 /\ i \in Nat /\ i + 1 < d
          BY <2>0, <5>2
        <5>4. Pow10[i] \in keys
          BY <2>1, <4>3, <5>1, <5>2, <5>3 DEF Digging
        <5>5. ~InKeyRange(Pow10[i], twoParts, RangeStart(d), RangeEnd(P, d))
          BY <2>0, <5>1, <5>3, PowerBeforeRange
        <5> QED
          BY <2>2, <3>2, <5>4, <5>5
      <4>4. Digging(P, s.keys, twoParts, d - 1)
        BY <4>2, <4>3 DEF Digging
      <4> QED
        BY <1>2, <2>3, <2>7, <4>1, <4>4 DEF Progress, d
    <3>4. CASE batch = {}
      <4>1. s.pos = Leave(pos, last, after)
        BY <3>2, <3>4 DEF LoopNext, Leave
      <4>2. ASSUME NEW h \in s.keys, h < P, h \notin Orphans PROVE FALSE
        <5>1. /\ h \in keys \ Orphans /\ h \in Nat /\ h > 0
              /\ Digits(h) \in Nat /\ Digits(h) < d
          BY <2>4, <4>2
        <5>2. CASE ~twoParts \/ d = Digits(P)
          <6>1. d - 1 \in Digits(h) .. d - 1 /\ d - 1 \in Nat
            BY <2>0, <5>1
          <6>2. Pow10[d - 1] \in keys
            BY <2>1, <4>2, <5>1, <5>2, <6>1 DEF Digging
          <6>3. InKeyRange(Pow10[d - 1], twoParts, RangeStart(d), RangeEnd(P, d))
            BY <1>2, <2>7, PowerInRange DEF d
          <6>4. Pow10[d - 1] <= P
            <7>1. Pow10[Digits(P) - 1] <= P
              BY <2>0, <3>1, DigitsBound
            <7>2. d < Digits(P) => Pow10[d - 1] < Pow10[Digits(P) - 1]
              BY <2>0, <2>7, Pow10Less
            <7>3. Pow10[d - 1] \in Nat /\ Pow10[Digits(P) - 1] \in Nat
              BY <2>0, <2>7, Pow10Step
            <7> QED
              BY <2>0, <7>1, <7>2, <7>3
          <6> QED
            BY <3>2, <3>4, <6>2, <6>3, <6>4
        <5>3. CASE twoParts /\ d # Digits(P)
          <6>1. twoParts = TRUE /\ RangeEnd(P, d) = Pow10[d] - 1
            BY <5>3 DEF RangeEnd
          <6>2. h \notin AllNines /\ h < Pow10[MaxDigits]
            BY <2>0, <4>2, <5>1 DEF Orphans
          <6>3. InKeyRange(h, twoParts, RangeStart(d), RangeEnd(P, d))
            BY <2>0, <5>1, <6>1, <6>2, ShorterInRange
          <6> QED
            BY <2>0, <3>2, <3>4, <4>2, <5>1, <6>3
        <5> QED
          BY <5>2, <5>3
      <4>3. Cleared(P, s.keys)
        BY <4>2 DEF Cleared
      <4> QED
        BY <2>5, <4>1, <4>3
    <3> QED
      BY <3>3, <3>4
  <2> QED
    BY <2>0, <2>6, <2>7
<1> QED
  BY <1>1, <1>2

\* A prefix that has not been started can be.
LEMMA StartProgress ==
  ASSUME NEW P, ExactHeight(P), NEW keys \in SUBSET Nat, NEW twoParts,
         NEW top \in Int, P <= top + 1, Solid(keys, top)
  PROVE  Progress(P, keys, twoParts, top, Digits(P))
<1>1. SolidFrom(P, keys, top)
  BY DEF Solid, SolidFrom
<1>2. ASSUME P \notin PowersOfBase PROVE Digging(P, keys, twoParts, Digits(P))
  <2> SUFFICES ASSUME NEW h \in keys \ Orphans, h < P
               PROVE  /\ Digits(h) <= Digits(P)
                      /\ \A i \in Digits(h) .. Digits(P) - 1 : Pow10[i] \in keys
    BY DEF Digging
  <2>1. /\ P \in Nat /\ h \in Nat /\ P < Pow10[MaxDigits] /\ Pow10[MaxDigits] \in Nat
        /\ P > 0 /\ h < Pow10[MaxDigits]
    BY FloatAssumption, MaxDigitsAssumption, Pow10Step DEF ExactHeight
  <2>2. Digits(h) \in 1 .. MaxDigits /\ Digits(P) \in 1 .. MaxDigits
    BY DigitsType
  <2>3. Digits(h) <= Digits(P)
    BY <2>1, DigitsMonotone
  <2>4. ASSUME NEW i \in Digits(h) .. Digits(P) - 1 PROVE Pow10[i] \in keys
    <3>1. /\ i \in Nat /\ Digits(h) \in Nat /\ Digits(P) - 1 \in Nat
          /\ Digits(h) <= i /\ i <= Digits(P) - 1 /\ i \in 0 .. MaxDigits
      BY <2>2, MaxDigitsAssumption
    <3>2. h < Pow10[Digits(h)] /\ Pow10[Digits(P) - 1] <= P
      BY <2>1, DigitsBound
    <3>3. Digits(h) < i => Pow10[Digits(h)] < Pow10[i]
      BY <3>1, Pow10Less
    <3>4. i < Digits(P) - 1 => Pow10[i] < Pow10[Digits(P) - 1]
      BY <3>1, Pow10Less
    <3>5. {Pow10[i], Pow10[Digits(h)], Pow10[Digits(P) - 1]} \subseteq Nat
      BY <3>1, Pow10Step
    <3>6. h <= Pow10[i] /\ Pow10[i] <= P
      BY <2>1, <3>1, <3>2, <3>3, <3>4, <3>5
    <3>7. Pow10[i] # P
      BY <1>2, <3>1 DEF PowersOfBase
    <3>8. Pow10[i] \in h .. top
      BY <2>1, <3>5, <3>6, <3>7
    <3> QED
      BY <3>8 DEF Solid
  <2> QED
    BY <2>3, <2>4
<1> QED
  BY <1>1, <1>2 DEF Progress

-----------------------------------------------------------------------------
(* The invariant of the two goroutines. *)

\* The keys of prefix i in a store whose goroutine is at pos; ok says that
\* the last run succeeded.
PrefixInv(P, ok, keys, twoParts, top, i, pos) ==
  /\ pos.at # "failed"
  /\ pos.at \in {"idle", "find", "vals"} => Solid(keys, top)
  /\ pos.at \in {"BH", "TH", "done"} \/ (pos.at = "idle" /\ ok) => Done(P, keys, top)
  /\ pos.at = "keys" =>
       /\ pos.d \in 1 .. Digits(P)
       /\ i < pos.k => Done(P, keys, top)
       /\ i = pos.k => Progress(P, keys, twoParts, top, pos.d)
       /\ i > pos.k => Solid(keys, top)

BlockPrefixInv(i) ==
  LET info == BlockKeyInfos[i]
  IN  PrefixInv(pruneHeight, result = "ok", blocks[info.prefix], info.twoParts,
                height - Lag(info.prefix), i, bpc)

StatePrefixInv(i) ==
  LET prefix == StateKeyInfos[i]
  IN  PrefixInv(pruneHeight, result = "ok", stateKeys[prefix], FALSE,
                applied + Lead(prefix), i, spc)

OrphanInv ==
  /\ phase = "node" => bpc.at = "idle" /\ spc.at = "idle"
  /\ pruneHeight <= applied
  /\ \A p \in StatePrefixes : 0 \notin stateKeys[p]
  /\ faults = 0 => /\ \A i \in 1 .. 5 : BlockPrefixInv(i)
                   /\ \A i \in 1 .. 2 : StatePrefixInv(i)

\* A goroutine that enters the loop over the prefixes.
LEMMA EnterKeys ==
  ASSUME NEW P, ExactHeight(P), NEW ok, NEW keys \in SUBSET Nat, NEW twoParts,
         NEW top \in Int, P <= top + 1, Solid(keys, top), NEW i \in Nat \ {0}
  PROVE  PrefixInv(P, ok, keys, twoParts, top, i, At("keys", P))
<1> DEFINE pos == At("keys", P)
<1>1. pos.at = "keys" /\ pos.k = 1 /\ pos.d = Digits(P)
  BY DEF At
<1>2. Progress(P, keys, twoParts, top, Digits(P))
  BY StartProgress
<1>3. Digits(P) \in 1 .. Digits(P)
  BY DigitsType, MaxDigitsAssumption
<1> HIDE DEF pos
<1>4. PrefixInv(P, ok, keys, twoParts, top, i, pos)
  BY <1>1, <1>2, <1>3 DEF PrefixInv
<1> QED
  BY <1>4 DEF pos

\* An iteration at prefix pos.k, seen from that prefix and from another one.
LEMMA LoopInv ==
  ASSUME NEW P, ExactHeight(P), NEW ok, NEW last \in Nat, NEW pos, pos.at = "keys",
         pos.end = P, pos.k \in 1 .. last, NEW after, after.at \in {"BH", "done"},
         NEW own \in SUBSET Nat, NEW ownParts \in BOOLEAN, NEW ownTop \in Int,
         PrefixInv(P, ok, own, ownParts, ownTop, pos.k, pos),
         NEW s \in RangeStep(own, ownParts, pos, last, after),
         NEW i \in 1 .. last, NEW keys \in SUBSET Nat, NEW twoParts, NEW top \in Int,
         P <= top + 1, PrefixInv(P, ok, keys, twoParts, top, i, pos)
  PROVE  /\ PrefixInv(P, ok, s.keys, ownParts, ownTop, pos.k, s.pos)
         /\ i # pos.k => PrefixInv(P, ok, keys, twoParts, top, i, s.pos)
<1>0. /\ pos.d \in 1 .. Digits(P) /\ Digits(P) \in Nat /\ Digits(P) \in 1 .. Digits(P)
      /\ Progress(P, own, ownParts, ownTop, pos.d)
      /\ i < pos.k => Done(P, keys, top)
      /\ i > pos.k => Solid(keys, top)
  BY DigitsType, MaxDigitsAssumption DEF PrefixInv
<1>1. \/ /\ pos.d > 1 /\ s.pos = Move(pos, pos.k, pos.d - 1)
         /\ Progress(P, s.keys, ownParts, ownTop, pos.d - 1)
      \/ s.pos = Leave(pos, last, after) /\ Done(P, s.keys, ownTop)
  BY <1>0, StepProgress
<1>2. CASE /\ pos.d > 1 /\ s.pos = Move(pos, pos.k, pos.d - 1)
           /\ Progress(P, s.keys, ownParts, ownTop, pos.d - 1)
  <2>1. s.pos.at = "keys" /\ s.pos.k = pos.k /\ s.pos.d = pos.d - 1
    BY <1>2 DEF Move
  <2>2. s.pos.d \in 1 .. Digits(P)
    BY <1>0, <1>2, <2>1
  <2> QED
    BY <1>0, <1>2, <2>1, <2>2 DEF PrefixInv
<1>3. CASE s.pos = Leave(pos, last, after) /\ Done(P, s.keys, ownTop)
  <2>1. CASE pos.k < last
    <3>1. s.pos.at = "keys" /\ s.pos.k = pos.k + 1 /\ s.pos.d = Digits(P)
      BY <1>3, <2>1 DEF Leave, Move
    <3>2. PrefixInv(P, ok, s.keys, ownParts, ownTop, pos.k, s.pos)
      BY <1>0, <1>3, <3>1 DEF PrefixInv
    <3>3. CASE i < pos.k
      BY <1>0, <3>1, <3>2, <3>3 DEF PrefixInv
    <3>4. CASE i > pos.k
      <4>1. Progress(P, keys, twoParts, top, Digits(P))
        BY <1>0, <3>4, StartProgress
      <4> QED
        BY <1>0, <3>1, <3>2, <3>4, <4>1 DEF PrefixInv
    <3> QED
      BY <3>2, <3>3, <3>4
  <2>2. CASE ~(pos.k < last)
    <3>1. s.pos = after /\ i <= pos.k
      BY <1>3, <2>2 DEF Leave
    <3> QED
      BY <1>0, <1>3, <3>1 DEF PrefixInv, Done
  <2> QED
    BY <2>1, <2>2
<1> QED
  BY <1>1, <1>2, <1>3

\* The bounds the proof assumes: no --keep-blocks exceeds the height of the
\* node, whose heights float64 represents exactly.
HeightsFit == KeepsFit /\ ExactHeight(MaxHeight)

\* Types of what the invariant is about.
LEMMA OrphanTypes ==
  ASSUME HeightsFit, TypeOK, RetainInv, OrphanInv
  PROVE  /\ ExactHeight(pruneHeight)
         /\ \A i \in 1 .. 5 :
              LET info == BlockKeyInfos[i]
              IN  /\ info.prefix \in BlockPrefixes /\ info.twoParts \in BOOLEAN
                  /\ blocks[info.prefix] \in SUBSET Nat
                  /\ height - Lag(info.prefix) \in Int
                  /\ pruneHeight <= height - Lag(info.prefix) + 1
         /\ \A i \in 1 .. 2 :
              LET prefix == StateKeyInfos[i]
              IN  /\ prefix \in StatePrefixes /\ stateKeys[prefix] \in SUBSET Nat
                  /\ applied + Lead(prefix) \in Int
                  /\ pruneHeight <= applied + Lead(prefix) + 1
<1>1. {pruneHeight, applied, height} \subseteq Nat /\ pruneHeight <= applied
      /\ applied <= height /\ height <= MaxHeight /\ MaxHeight \in Nat
  BY DEF TypeOK, RetainInv, OrphanInv, HeightsFit, KeepsFit
<1>2. ExactHeight(pruneHeight)
  BY <1>1, FloatAssumption DEF ExactHeight, HeightsFit
<1>3. ASSUME NEW i \in 1 .. 5
      PROVE  BlockKeyInfos[i].prefix \in BlockPrefixes /\ BlockKeyInfos[i].twoParts \in BOOLEAN
  <2>1. BlockKeyInfos[i].prefix \in BlockPrefixes
    BY DEF BlockKeyInfos, BlockPrefixes
  <2>2. /\ BlockKeyInfos[1].twoParts = FALSE /\ BlockKeyInfos[2].twoParts = FALSE
        /\ BlockKeyInfos[3].twoParts = FALSE /\ BlockKeyInfos[4].twoParts = FALSE
        /\ BlockKeyInfos[5].twoParts = TRUE
    BY DEF BlockKeyInfos
  <2>3. i \in {1, 2, 3, 4, 5}
    OBVIOUS
  <2> QED
    BY <2>1, <2>2, <2>3, Zenon
<1>4. ASSUME NEW i \in 1 .. 2 PROVE StateKeyInfos[i] \in StatePrefixes
  BY DEF StateKeyInfos, StatePrefixes
<1>5. \A p : Lag(p) \in 0 .. 1 /\ Lead(p) \in 0 .. 1
  BY DEF Lag, Lead
<1>6. /\ \A p \in BlockPrefixes : blocks[p] \in SUBSET Nat
      /\ \A p \in StatePrefixes : stateKeys[p] \in SUBSET Nat
  BY DEF TypeOK
<1>7. \A p : height - Lag(p) \in Int /\ pruneHeight <= height - Lag(p) + 1
  BY <1>1, <1>5
<1>8. \A p : applied + Lead(p) \in Int /\ pruneHeight <= applied + Lead(p) + 1
  BY <1>1, <1>5
<1> QED
  BY <1>2, <1>3, <1>4, <1>6, <1>7, <1>8

\* What the invariant says of a store holds while that store is not touched.
LEMMA OrphanUnchanged ==
  ASSUME UNCHANGED <<pruneHeight, result>>
  PROVE  /\ UNCHANGED <<blocks, height, bpc>> =>
              \A i \in 1 .. 5 : BlockPrefixInv(i) => BlockPrefixInv(i)'
         /\ UNCHANGED <<stateKeys, applied, spc>> =>
              \A i \in 1 .. 2 : StatePrefixInv(i) => StatePrefixInv(i)'
  BY DEF BlockPrefixInv, StatePrefixInv

\* The first state.
LEMMA OrphanInit == Init => OrphanInv
<1> SUFFICES ASSUME Init PROVE OrphanInv
  OBVIOUS
<1>1. first \in Nat \ {0} /\ applied = first /\ height = first /\ pruneHeight = 0
  BY HeightsAssumption DEF Init
<1>2. bpc.at = "idle" /\ spc.at = "idle" /\ result = "none"
  BY DEF Init, Idle, At
<1>3. \A p : Lag(p) \in 0 .. 1 /\ Lead(p) \in 0 .. 1
  BY DEF Lag, Lead
<1>4. /\ \A p \in BlockPrefixes : blocks[p] = {first - Lag(p)}
      /\ \A p \in StatePrefixes : stateKeys[p] = {first, first + Lead(p)}
  BY DEF Init
<1>5. \A p \in BlockPrefixes : Solid(blocks[p], height - Lag(p))
  BY <1>1, <1>3, <1>4 DEF Solid
<1>6. \A p \in StatePrefixes : Solid(stateKeys[p], applied + Lead(p))
  BY <1>1, <1>3, <1>4 DEF Solid
<1>7. \A i \in 1 .. 5 : BlockKeyInfos[i].prefix \in BlockPrefixes
  BY DEF BlockKeyInfos, BlockPrefixes
<1>8. \A i \in 1 .. 2 : StateKeyInfos[i] \in StatePrefixes
  BY DEF StateKeyInfos, StatePrefixes
<1>9. ASSUME NEW i \in 1 .. 5 PROVE BlockPrefixInv(i)
  BY <1>2, <1>5, <1>7 DEF BlockPrefixInv, PrefixInv
<1>10. ASSUME NEW i \in 1 .. 2 PROVE StatePrefixInv(i)
  BY <1>2, <1>6, <1>8 DEF StatePrefixInv, PrefixInv
<1>11. \A p \in StatePrefixes : 0 \notin stateKeys[p]
  BY <1>1, <1>3, <1>4
<1> QED
  BY <1>1, <1>2, <1>9, <1>10, <1>11 DEF OrphanInv

\* A height added on top.
LEMMA AddTop ==
  ASSUME NEW P \in Nat, NEW ok, NEW keys \in SUBSET Nat, NEW twoParts, NEW top \in Int,
         P <= top + 1, NEW i, NEW pos, pos.at = "idle",
         PrefixInv(P, ok, keys, twoParts, top, i, pos)
  PROVE  PrefixInv(P, ok, keys \cup {top + 1}, twoParts, top + 1, i, pos)
<1>1. Solid(keys, top) /\ (ok => Done(P, keys, top))
  BY DEF PrefixInv
<1>2. Solid(keys \cup {top + 1}, top + 1)
  <2> SUFFICES ASSUME NEW h \in (keys \cup {top + 1}) \ Orphans, NEW g \in h .. top + 1
               PROVE  g \in keys \cup {top + 1}
    BY DEF Solid
  <2>1. CASE g = top + 1
    BY <2>1
  <2>2. CASE g # top + 1
    <3>1. h \in Int /\ h # top + 1 /\ g \in h .. top
      BY <2>2
    <3> QED
      BY <1>1, <3>1 DEF Solid
  <2> QED
    BY <2>1, <2>2
<1>3. Cleared(P, keys) => Cleared(P, keys \cup {top + 1})
  BY DEF Cleared
<1> QED
  BY <1>1, <1>2, <1>3 DEF PrefixInv, Done

\* The node adds heights on top.
LEMMA OrphanNode ==
  ASSUME HeightsFit, TypeOK, RetainInv, OrphanInv, SaveBlock \/ ApplyBlock
  PROVE  OrphanInv'
<1>0. /\ {pruneHeight, applied, height} \subseteq Nat /\ pruneHeight <= applied
      /\ applied <= height /\ height <= applied + 1
  BY DEF TypeOK, RetainInv, OrphanInv
<1>1. bpc.at = "idle" /\ spc.at = "idle"
  BY DEF SaveBlock, ApplyBlock, OrphanInv
<1>2. /\ \A i \in 1 .. 5 :
           LET info == BlockKeyInfos[i]
           IN  /\ info.prefix \in BlockPrefixes
               /\ blocks[info.prefix] \in SUBSET Nat
               /\ height - Lag(info.prefix) \in Int
               /\ pruneHeight <= height - Lag(info.prefix) + 1
      /\ \A i \in 1 .. 2 :
           LET prefix == StateKeyInfos[i]
           IN  /\ prefix \in StatePrefixes /\ stateKeys[prefix] \in SUBSET Nat
               /\ applied + Lead(prefix) \in Int
               /\ pruneHeight <= applied + Lead(prefix) + 1
  BY OrphanTypes
<1>3. UNCHANGED <<phase, pruneHeight, result, bpc, spc, faults>>
  BY DEF SaveBlock, ApplyBlock, run
<1>4. faults = 0 => (\A i \in 1 .. 5 : BlockPrefixInv(i)) /\ (\A i \in 1 .. 2 : StatePrefixInv(i))
  BY DEF OrphanInv
<1>5. \A p : Lag(p) \in 0 .. 1 /\ Lead(p) \in 0 .. 1
  BY DEF Lag, Lead
<1>6. CASE SaveBlock
  <2>1. UNCHANGED <<stateKeys, applied>>
    BY <1>6 DEF SaveBlock
  <2>2. ASSUME NEW i \in 1 .. 5, BlockPrefixInv(i) PROVE BlockPrefixInv(i)'
    <3> DEFINE p == BlockKeyInfos[i].prefix
               keys == blocks[p]
               top == height - Lag(p)
    <3>1. p \in BlockPrefixes /\ keys \in SUBSET Nat /\ top \in Int /\ pruneHeight <= top + 1
      BY <1>2
    <3>2. height' - Lag(p) = top + 1 /\ blocks'[p] = keys \cup {height + 1 - Lag(p)}
      BY <1>0, <1>5, <1>6, <3>1 DEF SaveBlock
    <3>3. height + 1 - Lag(p) = top + 1
      BY <1>0, <1>5
    <3>4. blocks'[p] = keys \cup {top + 1}
      BY <3>2, <3>3
    <3>5. PrefixInv(pruneHeight, result = "ok", keys, BlockKeyInfos[i].twoParts, top, i, bpc)
      BY <2>2 DEF BlockPrefixInv
    <3> HIDE DEF keys, top
    <3>6. PrefixInv(pruneHeight, result = "ok", keys \cup {top + 1},
                    BlockKeyInfos[i].twoParts, top + 1, i, bpc)
      BY <1>0, <1>1, <3>1, <3>5, AddTop
    <3> QED
      BY <1>3, <3>2, <3>4, <3>6 DEF BlockPrefixInv
  <2>3. \A i \in 1 .. 2 : StatePrefixInv(i) => StatePrefixInv(i)'
    BY <1>3, <2>1, OrphanUnchanged
  <2> QED
    BY <1>0, <1>1, <1>3, <1>4, <2>1, <2>2, <2>3 DEF OrphanInv
<1>7. CASE ApplyBlock
  <2>1. UNCHANGED <<blocks, height>> /\ applied' = height /\ height = applied + 1
    BY <1>0, <1>7 DEF ApplyBlock
  <2>2. ASSUME NEW i \in 1 .. 2, StatePrefixInv(i) PROVE StatePrefixInv(i)'
    <3> DEFINE p == StateKeyInfos[i]
               keys == stateKeys[p]
               top == applied + Lead(p)
    <3>1. p \in StatePrefixes /\ keys \in SUBSET Nat /\ top \in Int /\ pruneHeight <= top + 1
      BY <1>2
    <3>2. applied' + Lead(p) = top + 1 /\ height + Lead(p) = top + 1
      BY <1>0, <1>5, <2>1
    <3>3. stateKeys'[p] = keys \cup {height + Lead(p)}
      BY <1>7, <3>1 DEF ApplyBlock
    <3>4. stateKeys'[p] = keys \cup {top + 1}
      BY <3>2, <3>3
    <3>5. PrefixInv(pruneHeight, result = "ok", keys, FALSE, top, i, spc)
      BY <2>2 DEF StatePrefixInv
    <3> HIDE DEF keys, top
    <3>6. PrefixInv(pruneHeight, result = "ok", keys \cup {top + 1}, FALSE, top + 1, i, spc)
      BY <1>0, <1>1, <3>1, <3>5, AddTop
    <3> QED
      BY <1>3, <3>2, <3>4, <3>6 DEF StatePrefixInv
  <2>3. \A i \in 1 .. 5 : BlockPrefixInv(i) => BlockPrefixInv(i)'
    BY <1>3, <2>1, OrphanUnchanged
  <2>4. \A p \in StatePrefixes : 0 \notin stateKeys'[p]
    <3>1. \A p \in StatePrefixes : 0 \notin stateKeys[p]
      BY DEF OrphanInv
    <3>2. \A p \in StatePrefixes : stateKeys'[p] = stateKeys[p] \cup {height + Lead(p)}
      BY <1>7 DEF ApplyBlock
    <3>3. \A p : height + Lead(p) # 0
      BY <1>0, <1>5, <2>1
    <3> QED
      BY <3>1, <3>2, <3>3
  <2>5. pruneHeight' <= applied'
    BY <1>0, <1>3, <2>1
  <2> QED
    BY <1>1, <1>3, <1>4, <2>2, <2>3, <2>4, <2>5 DEF OrphanInv
<1> QED
  BY <1>6, <1>7

\* A run starts with heights that are contiguous but for orphans.
LEMMA OrphanStart ==
  ASSUME HeightsFit, TypeOK, RetainInv, OrphanInv, NEW k \in Keeps, StartPrune(k)
  PROVE  OrphanInv'
<1> DEFINE P == pruneHeight'
<1>1. /\ {applied, height, first, k} \subseteq Nat /\ k <= applied /\ applied < Modulus
      /\ applied <= height /\ height <= MaxHeight
  <2>1. {applied, height, first, k} \subseteq Nat
    BY KeepsAssumption DEF TypeOK
  <2>2. /\ first \in InitialHeights /\ first <= applied /\ applied <= height
        /\ height <= MaxHeight
    BY DEF RetainInv
  <2>3. k <= first /\ MaxHeight \in Nat /\ MaxHeight < Modulus
    BY <2>2 DEF HeightsFit, KeepsFit
  <2> QED
    BY <2>1, <2>2, <2>3, ModulusAssumption
<1>2. P \in Nat /\ P <= applied
  BY <1>1, UintMinusType DEF StartPrune
<1>3. ExactHeight(P)
  <2>1. P <= MaxHeight /\ ExactHeight(MaxHeight)
    BY <1>1, <1>2 DEF HeightsFit, KeepsFit
  <2> HIDE DEF P
  <2> QED
    BY <1>2, <2>1, FloatAssumption DEF ExactHeight
<1>4. /\ bpc.at = "idle" /\ spc.at = "idle" /\ bpc' = At("keys", P) /\ spc' = At("find", P)
      /\ UNCHANGED <<blocks, stateKeys, applied, height, faults>> /\ phase' = "prune"
  BY DEF StartPrune, OrphanInv, node
<1>5. \A p : Lag(p) \in 0 .. 1 /\ Lead(p) \in 0 .. 1
  BY DEF Lag, Lead
<1> HIDE DEF P
<1>6. ASSUME NEW i \in 1 .. 5, BlockPrefixInv(i) PROVE BlockPrefixInv(i)'
  <2> DEFINE info == BlockKeyInfos[i]
             keys == blocks[info.prefix]
             top == height - Lag(info.prefix)
  <2>1. keys \in SUBSET Nat
    BY OrphanTypes
  <2>2. top \in Int /\ P <= top + 1
    BY <1>1, <1>2, <1>5
  <2>3. Solid(keys, top)
    BY <1>4, <1>6 DEF BlockPrefixInv, PrefixInv
  <2> HIDE DEF keys, top
  <2>4. PrefixInv(P, result' = "ok", keys, info.twoParts, top, i, At("keys", P))
    BY <1>3, <2>1, <2>2, <2>3, EnterKeys
  <2> QED
    BY <1>4, <2>4 DEF BlockPrefixInv, keys, top, P
<1>7. ASSUME NEW i \in 1 .. 2, StatePrefixInv(i) PROVE StatePrefixInv(i)'
  <2>1. Solid(stateKeys[StateKeyInfos[i]], applied + Lead(StateKeyInfos[i]))
    BY <1>4, <1>7 DEF StatePrefixInv, PrefixInv
  <2>2. spc'.at = "find"
    BY <1>4 DEF At
  <2> QED
    BY <1>4, <2>1, <2>2 DEF StatePrefixInv, PrefixInv
<1> QED
  BY <1>2, <1>4, <1>6, <1>7 DEF OrphanInv, P

\* The goroutine of the block store.
LEMMA OrphanBlockStore ==
  ASSUME HeightsFit, TypeOK, RetainInv, OrphanInv,
         PruneBlockKeys \/ PruneBlockHashes \/ PruneTxIndex
  PROVE  OrphanInv'
<1>0. /\ UNCHANGED <<pruneHeight, result, stateKeys, applied, spc, height, phase, faults>>
      /\ phase # "node"
  BY DEF PruneBlockKeys, PruneBlockHashes, PruneTxIndex, OrphanInv, run, node
<1>1. \A i \in 1 .. 2 : StatePrefixInv(i) => StatePrefixInv(i)'
  BY <1>0, OrphanUnchanged
<1>2. ASSUME faults = 0, NEW i \in 1 .. 5 PROVE BlockPrefixInv(i)'
  <2>1. \A j \in 1 .. 5 : BlockPrefixInv(j)
    BY <1>2 DEF OrphanInv
  <2>2. CASE PruneBlockKeys
    <3> DEFINE info == BlockKeyInfos[bpc.k]
               own == blocks[info.prefix]
               ownTop == height - Lag(info.prefix)
               other == BlockKeyInfos[i]
               keys == blocks[other.prefix]
               top == height - Lag(other.prefix)
               after == At("BH", pruneHeight)
    <3>1. bpc.k \in 1 .. 5 /\ bpc.at = "keys" /\ bpc.end = pruneHeight /\ Len(BlockKeyInfos) = 5
      BY <2>2 DEF PruneBlockKeys, TypeOK, Position, RetainInv, BlockKeyInfos
    <3>2. PICK s \in RangeStep(own, info.twoParts, bpc, 5, after) :
            /\ blocks' = [blocks EXCEPT ![info.prefix] = s.keys]
            /\ bpc' = s.pos
      BY <2>2, <3>1 DEF PruneBlockKeys
    <3>3. /\ ExactHeight(pruneHeight) /\ info.twoParts \in BOOLEAN /\ own \in SUBSET Nat
          /\ ownTop \in Int /\ keys \in SUBSET Nat /\ top \in Int
          /\ pruneHeight <= top + 1 /\ info.prefix \in BlockPrefixes
          /\ other.prefix \in BlockPrefixes
      BY <3>1, OrphanTypes
    <3>4. after.at \in {"BH", "done"}
      BY DEF At
    <3>5. /\ PrefixInv(pruneHeight, result = "ok", own, info.twoParts, ownTop, bpc.k, bpc)
          /\ PrefixInv(pruneHeight, result = "ok", keys, other.twoParts, top, i, bpc)
      BY <2>1, <3>1 DEF BlockPrefixInv
    <3>6. other.prefix = info.prefix <=> i = bpc.k
      BY <3>1 DEF BlockKeyInfos
    <3>7. blocks'[info.prefix] = s.keys /\ (i # bpc.k => blocks'[other.prefix] = keys)
      BY <3>2, <3>3, <3>6 DEF TypeOK
    <3> HIDE DEF own, ownTop, keys, top, after, info, other
    <3>8. /\ PrefixInv(pruneHeight, result = "ok", s.keys, info.twoParts, ownTop, bpc.k, s.pos)
          /\ i # bpc.k =>
               PrefixInv(pruneHeight, result = "ok", keys, other.twoParts, top, i, s.pos)
      BY <3>1, <3>2, <3>3, <3>4, <3>5, LoopInv
    <3>9. CASE i = bpc.k
      BY <1>0, <3>2, <3>7, <3>8, <3>9 DEF BlockPrefixInv, info, ownTop
    <3>10. CASE i # bpc.k
      BY <1>0, <3>2, <3>7, <3>8, <3>10 DEF BlockPrefixInv, other, top
    <3> QED
      BY <3>9, <3>10
  <2>3. CASE PruneBlockHashes \/ PruneTxIndex
    <3>1. bpc.at \in {"BH", "TH"} /\ bpc'.at \in {"TH", "done"} /\ UNCHANGED blocks
      BY <2>3 DEF PruneBlockHashes, PruneTxIndex, At
    <3> QED
      BY <1>0, <2>1, <3>1 DEF BlockPrefixInv, PrefixInv, Done
  <2> QED
    BY <2>2, <2>3
<1> QED
  BY <1>0, <1>1, <1>2 DEF OrphanInv

\* The goroutine of the state store.
LEMMA OrphanStateStore ==
  ASSUME HeightsFit, TypeOK, RetainInv, OrphanInv,
         FindValidatorCutoff \/ PruneValidatorKeys \/ PruneStateKeys
  PROVE  OrphanInv'
<1>0. /\ UNCHANGED <<pruneHeight, result, blocks, applied, bpc, height, phase, faults>>
      /\ phase # "node"
  BY DEF FindValidatorCutoff, PruneValidatorKeys, PruneStateKeys, OrphanInv, run, node
<1>1. \A i \in 1 .. 5 : BlockPrefixInv(i) => BlockPrefixInv(i)'
  BY <1>0, OrphanUnchanged
<1>2. CASE FindValidatorCutoff \/ PruneValidatorKeys
  <2>1. UNCHANGED stateKeys /\ spc.at \in {"find", "vals"}
    BY <1>2 DEF FindValidatorCutoff, PruneValidatorKeys
  <2>2. spc'.at = "vals" \/ spc' = At("keys", pruneHeight)
    <3>1. CASE FindValidatorCutoff
      BY <3>1 DEF FindValidatorCutoff, At
    <3>2. CASE PruneValidatorKeys
      <4>1. PICK s \in RangeStep(vals, FALSE, spc, 1, At("keys", pruneHeight)) : spc' = s.pos
        BY <3>2 DEF PruneValidatorKeys
      <4>2. s.pos \in AfterBatch(spc, 1, At("keys", pruneHeight))
        BY RangeStepEffect
      <4> QED
        BY <3>2, <4>1, <4>2, AfterBatchKeeps DEF PruneValidatorKeys
    <3> QED
      BY <1>2, <3>1, <3>2
  <2>3. ASSUME NEW i \in 1 .. 2, StatePrefixInv(i) PROVE StatePrefixInv(i)'
    <3> DEFINE p == StateKeyInfos[i]
               keys == stateKeys[p]
               top == applied + Lead(p)
    <3>1. /\ ExactHeight(pruneHeight) /\ keys \in SUBSET Nat /\ top \in Int
          /\ pruneHeight <= top + 1
      BY OrphanTypes
    <3>2. Solid(keys, top)
      BY <2>1, <2>3 DEF StatePrefixInv, PrefixInv
    <3> HIDE DEF keys, top
    <3>3. PrefixInv(pruneHeight, result = "ok", keys, FALSE, top, i, At("keys", pruneHeight))
      <4>1. i \in Nat \ {0}
        OBVIOUS
      <4> QED
        BY <3>1, <3>2, <4>1, EnterKeys, Zenon
    <3>4. spc'.at = "vals" =>
            PrefixInv(pruneHeight, result = "ok", keys, FALSE, top, i, spc')
      BY <3>2 DEF PrefixInv
    <3> QED
      BY <1>0, <2>1, <2>2, <3>3, <3>4 DEF StatePrefixInv, keys, top
  <2> QED
    BY <1>0, <1>1, <2>1, <2>3 DEF OrphanInv
<1>3. CASE PruneStateKeys
  <2> DEFINE prefix == StateKeyInfos[spc.k]
             own == stateKeys[prefix]
             ownTop == applied + Lead(prefix)
             after == At("done", pruneHeight)
  <2>1. spc.k \in 1 .. 2 /\ spc.at = "keys" /\ spc.end = pruneHeight /\ Len(StateKeyInfos) = 2
    BY <1>3 DEF PruneStateKeys, TypeOK, Position, RetainInv, StateKeyInfos
  <2>2. PICK s \in RangeStep(own, FALSE, spc, 2, after) :
          stateKeys' = [stateKeys EXCEPT ![prefix] = s.keys] /\ spc' = s.pos
    BY <1>3, <2>1 DEF PruneStateKeys
  <2>3. /\ ExactHeight(pruneHeight) /\ own \in SUBSET Nat /\ ownTop \in Int
        /\ prefix \in StatePrefixes
    BY <2>1, OrphanTypes
  <2>4. s.keys \subseteq own
    BY RangeStepEffect
  <2>5. \A q \in StatePrefixes : stateKeys'[q] = IF q = prefix THEN s.keys ELSE stateKeys[q]
    BY <2>2 DEF TypeOK
  <2>6. \A q \in StatePrefixes : 0 \notin stateKeys'[q]
    BY <2>3, <2>4, <2>5 DEF OrphanInv
  <2>7. ASSUME faults = 0, NEW i \in 1 .. 2 PROVE StatePrefixInv(i)'
    <3> DEFINE other == StateKeyInfos[i]
               keys == stateKeys[other]
               top == applied + Lead(other)
    <3>1. \A j \in 1 .. 2 : StatePrefixInv(j)
      BY <2>7 DEF OrphanInv
    <3>2. /\ keys \in SUBSET Nat /\ top \in Int /\ pruneHeight <= top + 1
          /\ other \in StatePrefixes
      BY OrphanTypes
    <3>3. after.at \in {"BH", "done"}
      BY DEF At
    <3>4. /\ PrefixInv(pruneHeight, result = "ok", own, FALSE, ownTop, spc.k, spc)
          /\ PrefixInv(pruneHeight, result = "ok", keys, FALSE, top, i, spc)
      BY <2>1, <3>1 DEF StatePrefixInv
    <3>5. other = prefix <=> i = spc.k
      BY <2>1 DEF StateKeyInfos
    <3>6. stateKeys'[prefix] = s.keys /\ (i # spc.k => stateKeys'[other] = keys)
      BY <2>3, <2>5, <3>2, <3>5
    <3> HIDE DEF own, ownTop, keys, top, after, prefix, other
    <3>7. /\ PrefixInv(pruneHeight, result = "ok", s.keys, FALSE, ownTop, spc.k, s.pos)
          /\ i # spc.k => PrefixInv(pruneHeight, result = "ok", keys, FALSE, top, i, s.pos)
      <4>1. PICK no \in BOOLEAN : no = FALSE
        OBVIOUS
      <4>2. /\ s \in RangeStep(own, no, spc, 2, after)
            /\ PrefixInv(pruneHeight, result = "ok", own, no, ownTop, spc.k, spc)
            /\ PrefixInv(pruneHeight, result = "ok", keys, no, top, i, spc)
        BY <2>2, <3>4, <4>1
      <4>3. /\ PrefixInv(pruneHeight, result = "ok", s.keys, no, ownTop, spc.k, s.pos)
            /\ i # spc.k => PrefixInv(pruneHeight, result = "ok", keys, no, top, i, s.pos)
        BY <2>1, <2>3, <3>2, <3>3, <4>2, LoopInv
      <4> QED
        BY <4>1, <4>3
    <3>8. CASE i = spc.k
      BY <1>0, <2>2, <3>6, <3>7, <3>8 DEF StatePrefixInv, prefix, ownTop
    <3>9. CASE i # spc.k
      BY <1>0, <2>2, <3>6, <3>7, <3>9 DEF StatePrefixInv, other, top
    <3> QED
      BY <3>8, <3>9
  <2> QED
    BY <1>0, <1>1, <2>6, <2>7 DEF OrphanInv
<1> QED
  BY <1>2, <1>3

\* The end of a run that succeeded, and the repair of the base.
LEMMA OrphanFinish ==
  ASSUME HeightsFit, TypeOK, RetainInv, OrphanInv, FinishPrune \/ Basefix
  PROVE  OrphanInv'
<1>0. UNCHANGED <<pruneHeight, blocks, stateKeys, applied, height, faults>> /\ phase' = "node"
  BY DEF FinishPrune, EndRun, Basefix, node
<1>1. bpc'.at = "idle" /\ spc'.at = "idle"
  BY DEF FinishPrune, EndRun, Basefix, Idle, At, OrphanInv
<1>2. \/ bpc.at = "done" /\ spc.at = "done"
      \/ bpc.at = "idle" /\ spc.at = "idle" /\ result' # "ok"
  BY DEF FinishPrune, Basefix, OrphanInv
<1>3. \A i \in 1 .. 5 : BlockPrefixInv(i) => BlockPrefixInv(i)'
  BY <1>0, <1>1, <1>2 DEF BlockPrefixInv, PrefixInv, Done
<1>4. \A i \in 1 .. 2 : StatePrefixInv(i) => StatePrefixInv(i)'
  BY <1>0, <1>1, <1>2 DEF StatePrefixInv, PrefixInv, Done
<1> QED
  BY <1>0, <1>1, <1>3, <1>4 DEF OrphanInv

\* After a failure or a kill nothing is said of what is left.
LEMMA OrphanFaults ==
  ASSUME HeightsFit, TypeOK, RetainInv, OrphanInv,
         \/ IndexIteratorStops \/ BlockStoreFails \/ FindOlderCutoff
         \/ ValidatorHistoryFails \/ StateStoreFails
         \/ FinishWithoutBase \/ FinishWithError \/ Crash
  PROVE  OrphanInv'
<1>0. faults \in Nat /\ UNCHANGED <<pruneHeight, applied>>
  BY DEF TypeOK, IndexIteratorStops, BlockStoreFails, FindOlderCutoff,
         ValidatorHistoryFails, StateStoreFails, FinishWithoutBase, FinishWithError,
         Crash, EndRun, node, run
<1>1. faults' # 0
  <2>1. CASE FinishWithError
    <3>1. faults = 0 => BlockPrefixInv(1) /\ StatePrefixInv(1)
      BY DEF OrphanInv
    <3>2. faults # 0
      BY <2>1, <3>1 DEF FinishWithError, BlockPrefixInv, StatePrefixInv, PrefixInv
    <3> QED
      BY <2>1, <3>2 DEF FinishWithError
  <2>2. CASE ~FinishWithError
    <3>1. faults' = faults + 1
      BY <2>2, Zenon DEF IndexIteratorStops, BlockStoreFails, FindOlderCutoff,
           ValidatorHistoryFails, StateStoreFails, FinishWithoutBase, Crash
    <3> QED
      BY <1>0, <3>1
  <2> QED
    BY <2>1, <2>2
<1>2. phase' = "node" => bpc'.at = "idle" /\ spc'.at = "idle"
  <2>1. CASE FinishWithoutBase \/ FinishWithError \/ Crash
    BY <2>1 DEF FinishWithoutBase, FinishWithError, Crash, EndRun, Idle, At
  <2>2. CASE \/ IndexIteratorStops \/ BlockStoreFails \/ FindOlderCutoff
             \/ ValidatorHistoryFails \/ StateStoreFails
    BY <2>2 DEF IndexIteratorStops, BlockStoreFails, FindOlderCutoff,
         ValidatorHistoryFails, StateStoreFails, OrphanInv, run
  <2> QED
    BY <2>1, <2>2
<1>3. \A p \in StatePrefixes : stateKeys'[p] \subseteq stateKeys[p]
  <2>1. CASE StateStoreFails
    <3>1. CASE UNCHANGED stateKeys
      BY <3>1
    <3>2. CASE stateKeys' # stateKeys
      <4> DEFINE prefix == StateKeyInfos[spc.k]
      <4>1. PICK left \in FailedRange(stateKeys[prefix], FALSE, spc) :
              stateKeys' = [stateKeys EXCEPT ![prefix] = left]
        BY <2>1, <3>2 DEF StateStoreFails
      <4>2. left \subseteq stateKeys[prefix]
        BY FailedRangeEffect
      <4> HIDE DEF prefix
      <4> QED
        BY <4>1, <4>2 DEF TypeOK
    <3> QED
      BY <3>1, <3>2
  <2>2. CASE ~StateStoreFails
    BY <2>2 DEF IndexIteratorStops, BlockStoreFails, FindOlderCutoff,
         ValidatorHistoryFails, FinishWithoutBase, FinishWithError, Crash, EndRun
  <2> QED
    BY <2>1, <2>2
<1> QED
  BY <1>0, <1>1, <1>2, <1>3 DEF OrphanInv

\* The invariant holds of every behavior.
LEMMA OrphanAlways == HeightsFit => (Spec => []OrphanInv)
<1> SUFFICES ASSUME HeightsFit PROVE Spec => []OrphanInv
  OBVIOUS
<1>0. KeepsFit
  BY DEF HeightsFit
<1>1. Init => OrphanInv
  BY OrphanInit
<1>2. TypeOK /\ RetainInv /\ OrphanInv /\ [Next]_vars => OrphanInv'
  <2> SUFFICES ASSUME TypeOK, RetainInv, OrphanInv, [Next]_vars PROVE OrphanInv'
    OBVIOUS
  <2>1. CASE UNCHANGED vars
    BY <2>1 DEF vars, OrphanInv, BlockPrefixInv, StatePrefixInv
  <2>2. CASE Next
    BY <2>2, OrphanNode, OrphanStart, OrphanBlockStore, OrphanStateStore, OrphanFinish,
       OrphanFaults DEF Next
  <2> QED
    BY <2>1, <2>2
<1> QED
  BY <1>0, <1>1, <1>2, TypeCorrect, RetainAlways, PTL DEF Spec

\* deleteHeightRange misses nothing but the all-nines heights and the commit
\* of height 0: for every base and every number of runs, a run that succeeded
\* after no failure leaves no other key below pruneHeight, although each
\* prefix ends at the first empty batch and the keys of one prefix are not in
\* the order of their heights.
THEOREM OnlyOrphansLeft == HeightsFit => (Spec => []OrphansOnly)
<1> SUFFICES ASSUME HeightsFit PROVE Spec => []OrphansOnly
  OBVIOUS
<1>1. TypeOK /\ OrphanInv => OrphansOnly
  <2> SUFFICES ASSUME TypeOK, OrphanInv, phase = "node", result = "ok", faults = 0,
                      pruneHeight \notin PowersOfBase
               PROVE  /\ \A p \in BlockPrefixes : {h \in blocks[p] : h < pruneHeight}
                           \subseteq AllNines \cup {0}
                      /\ \A p \in StatePrefixes : {h \in stateKeys[p] : h < pruneHeight}
                           \subseteq AllNines
    BY DEF OrphansOnly
  <2>1. bpc.at = "idle" /\ spc.at = "idle"
    BY DEF OrphanInv
  <2>2. \A i \in 1 .. 5 : Cleared(pruneHeight, blocks[BlockKeyInfos[i].prefix])
    BY <2>1 DEF OrphanInv, BlockPrefixInv, PrefixInv, Done
  <2>3. \A i \in 1 .. 2 : Cleared(pruneHeight, stateKeys[StateKeyInfos[i]])
    BY <2>1 DEF OrphanInv, StatePrefixInv, PrefixInv, Done
  <2>4. \A p \in BlockPrefixes : \E i \in 1 .. 5 : BlockKeyInfos[i].prefix = p
    BY DEF BlockPrefixes, BlockKeyInfos
  <2>5. \A p \in StatePrefixes : \E i \in 1 .. 2 : StateKeyInfos[i] = p
    BY DEF StatePrefixes, StateKeyInfos
  <2>6. \A p \in BlockPrefixes : Cleared(pruneHeight, blocks[p])
    BY <2>2, <2>4
  <2>7. \A p \in StatePrefixes : Cleared(pruneHeight, stateKeys[p]) /\ 0 \notin stateKeys[p]
    BY <2>3, <2>5 DEF OrphanInv
  <2> QED
    BY <2>6, <2>7 DEF Cleared, Orphans
<1>2. Spec => []OrphanInv
  BY OrphanAlways
<1> QED
  BY <1>1, <1>2, TypeCorrect, PTL
=============================================================================
