------------------------- MODULE HeightRangeProofs -------------------------
(***************************************************************************)
(* Powers of the base, numbers of digits and the order of keys as strings, *)
(* for every base: what one batch of deleteHeightRange contains.           *)
(***************************************************************************)
EXTENDS HeightRange, WordsProofs, FiniteSetTheorems, WellFoundedInduction

\* A nonempty set of natural numbers has a least element, which Min returns.
LEMMA MinNat ==
  ASSUME NEW S \in SUBSET Nat, S # {}
  PROVE  Min(S) \in S /\ \A x \in S : Min(S) <= x
<1> DEFINE R == {ss \in Nat \X Nat : ss[1] < ss[2]}
<1>1. IsWellFoundedOn(R, Nat)
  BY NatLessThanWellFounded, Zenon DEF OpToRel
<1> HIDE DEF R
<1>2. PICK m \in S : \A y \in S : ~(<<y, m>> \in R)
  BY <1>1, WFMin
<1>3. ASSUME NEW y \in S PROVE m <= y
  <2>1. y < m => <<y, m>> \in R
    BY DEF R
  <2> QED
    BY <1>2, <2>1
<1> QED
  BY <1>3 DEF Min

\* Induction, with the property as the set of numbers that have it.
LEMMA SetInduction ==
  ASSUME NEW S, 0 \in S, \A n \in Nat : n \in S => n + 1 \in S
  PROVE  Nat \subseteq S
<1> SUFFICES ASSUME ~(Nat \subseteq S) PROVE FALSE
  OBVIOUS
<1> DEFINE out == {n \in Nat : n \notin S}
           m == Min(out)
<1>1. m \in out /\ \A x \in out : m <= x
  BY MinNat
<1> HIDE DEF m
<1>2. m \in Nat /\ m # 0 /\ m \notin S
  BY <1>1
<1>3. m - 1 \in Nat /\ m - 1 \in S
  BY <1>1, <1>2
<1> QED
  BY <1>2, <1>3

-----------------------------------------------------------------------------
(* Powers of the base. *)

\* The first n + 1 powers.
Powers(n) ==
  {f \in [0 .. n -> Nat] : f[0] = 1 /\ \A i \in 1 .. n : f[i] = Base * f[i - 1]}

\* There are functions that hold the first powers, ...
LEMMA PowersExist ==
  ASSUME NEW n \in Nat
  PROVE  Powers(n) # {}
<1> DEFINE S == {i \in Nat : Powers(i) # {}}
<1>1. 0 \in S
  <2>1. [i \in 0 .. 0 |-> 1] \in Powers(0)
    BY DEF Powers
  <2> QED
    BY <2>1
<1>2. ASSUME NEW i \in Nat, i \in S PROVE i + 1 \in S
  <2>1. PICK f : f \in Powers(i)
    BY <1>2
  <2> DEFINE g == [j \in 0 .. i + 1 |-> IF j = i + 1 THEN Base * f[i] ELSE f[j]]
  <2>2. f \in [0 .. i -> Nat] /\ f[0] = 1 /\ \A j \in 1 .. i : f[j] = Base * f[j - 1]
    BY <2>1 DEF Powers
  <2>3. Base * f[i] \in Nat
    BY <2>2, BaseAssumption
  <2>4. g \in [0 .. i + 1 -> Nat]
    BY <2>2, <2>3
  <2>5. g[0] = 1
    BY <2>2
  <2>6. ASSUME NEW j \in 1 .. i + 1 PROVE g[j] = Base * g[j - 1]
    <3>1. CASE j = i + 1
      BY <3>1
    <3>2. CASE j # i + 1
      <4>1. j \in 1 .. i /\ g[j] = f[j] /\ g[j - 1] = f[j - 1]
        BY <3>2
      <4> QED
        BY <2>2, <4>1
    <3> QED
      BY <3>1, <3>2
  <2> HIDE DEF g
  <2>7. g \in Powers(i + 1)
    BY <2>4, <2>5, <2>6 DEF Powers
  <2> QED
    BY <2>7
<1> HIDE DEF S
<1>3. Nat \subseteq S
  BY <1>1, <1>2, SetInduction
<1> QED
  BY <1>3 DEF S

\* ... and they agree with each other.
LEMMA PowersAgree ==
  ASSUME NEW m \in Nat, NEW n \in Nat, NEW f \in Powers(m), NEW g \in Powers(n),
         NEW i \in Nat, i <= m, i <= n
  PROVE  f[i] = g[i]
<1> DEFINE S == {j \in Nat : j <= m /\ j <= n => f[j] = g[j]}
<1>1. 0 \in S
  BY DEF Powers
<1>2. ASSUME NEW j \in Nat, j \in S PROVE j + 1 \in S
  <2> SUFFICES ASSUME j + 1 <= m, j + 1 <= n PROVE f[j + 1] = g[j + 1]
    OBVIOUS
  <2>1. f[j] = g[j]
    BY <1>2
  <2>2. j + 1 \in 1 .. m /\ j + 1 \in 1 .. n /\ (j + 1) - 1 = j
    OBVIOUS
  <2>3. f[j + 1] = Base * f[j] /\ g[j + 1] = Base * g[j]
    BY <2>2 DEF Powers
  <2> QED
    BY <2>1, <2>3
<1> HIDE DEF S
<1>3. Nat \subseteq S
  BY <1>1, <1>2, SetInduction
<1> QED
  BY <1>3 DEF S

\* The recursion that defines Pow10 has a solution.
LEMMA Pow10Def ==
  Pow10 = [d \in Nat |-> IF d = 0 THEN 1 ELSE Base * Pow10[d - 1]]
<1> DEFINE pick(n) == CHOOSE f \in Powers(n) : TRUE
           g == [n \in Nat |-> pick(n)[n]]
<1>1. ASSUME NEW n \in Nat PROVE pick(n) \in Powers(n)
  BY PowersExist
<1> HIDE DEF pick
<1>2. ASSUME NEW n \in Nat PROVE g[n] = IF n = 0 THEN 1 ELSE Base * g[n - 1]
  <2>1. CASE n = 0
    BY <1>1, <2>1 DEF Powers
  <2>2. CASE n # 0
    <3>1. n - 1 \in Nat /\ n \in 1 .. n
      BY <2>2
    <3>2. pick(n) \in Powers(n) /\ pick(n - 1) \in Powers(n - 1)
      BY <1>1, <3>1
    <3>3. pick(n)[n] = Base * pick(n)[n - 1]
      BY <3>1, <3>2 DEF Powers
    <3>4. pick(n)[n - 1] = pick(n - 1)[n - 1]
      BY <3>1, <3>2, PowersAgree
    <3> QED
      BY <2>2, <3>1, <3>3, <3>4
  <2> QED
    BY <2>1, <2>2
<1>3. g = [d \in Nat |-> IF d = 0 THEN 1 ELSE Base * g[d - 1]]
  BY <1>2
<1> HIDE DEF g
<1> QED
  BY <1>3, Zenon DEF Pow10

\* The powers are positive, and each is Base times the one before.
LEMMA Pow10Step ==
  /\ Pow10[0] = 1
  /\ \A n \in Nat : Pow10[n] \in Nat /\ Pow10[n] > 0 /\ Pow10[n + 1] = Base * Pow10[n]
<1>1. Pow10[0] = 1
  BY Pow10Def
<1>2. ASSUME NEW n \in Nat PROVE Pow10[n + 1] = Base * Pow10[n]
  <2>1. n + 1 \in Nat /\ n + 1 # 0 /\ (n + 1) - 1 = n
    OBVIOUS
  <2> QED
    BY <2>1, Pow10Def
<1> DEFINE S == {n \in Nat : Pow10[n] \in Nat /\ Pow10[n] > 0}
<1>3. 0 \in S
  BY <1>1
<1>4. ASSUME NEW n \in Nat, n \in S PROVE n + 1 \in S
  <2>1. Base * Pow10[n] \in Nat /\ Base * Pow10[n] > 0
    BY <1>4, BaseAssumption
  <2> QED
    BY <1>2, <2>1
<1> HIDE DEF S
<1>5. Nat \subseteq S
  BY <1>3, <1>4, SetInduction
<1> QED
  BY <1>1, <1>2, <1>5 DEF S

\* The powers multiply.
LEMMA Pow10Sum ==
  ASSUME NEW m \in Nat, NEW n \in Nat
  PROVE  Pow10[m + n] = Pow10[m] * Pow10[n]
<1> DEFINE S == {i \in Nat : Pow10[m + i] = Pow10[m] * Pow10[i]}
<1>1. 0 \in S
  BY Pow10Step
<1>2. ASSUME NEW i \in Nat, i \in S PROVE i + 1 \in S
  <2>1. m + i \in Nat /\ m + (i + 1) = (m + i) + 1
    OBVIOUS
  <2>2. Pow10[m + (i + 1)] = Base * Pow10[m + i] /\ Pow10[i + 1] = Base * Pow10[i]
    BY <2>1, Pow10Step
  <2>3. Pow10[m + i] = Pow10[m] * Pow10[i]
    BY <1>2
  <2>4. Pow10[m] \in Nat /\ Pow10[i] \in Nat /\ Base \in Nat
    BY Pow10Step, BaseAssumption
  <2>5. \A x, y, z \in Nat : z * (x * y) = x * (z * y)
    OBVIOUS
  <2> QED
    BY <2>2, <2>3, <2>4, <2>5
<1> HIDE DEF S
<1>3. Nat \subseteq S
  BY <1>1, <1>2, SetInduction
<1> QED
  BY <1>3 DEF S

\* A larger exponent gives a larger power.
LEMMA Pow10Less ==
  ASSUME NEW m \in Nat, NEW n \in Nat, m < n
  PROVE  Pow10[m] < Pow10[n]
<1> DEFINE S == {i \in Nat : Pow10[m] < Pow10[m + 1 + i]}
<1>0. \A x, y \in Nat : x > 1 /\ y > 0 => y < x * y
  OBVIOUS
<1>1. \A i \in Nat : Pow10[i] < Pow10[i + 1]
  BY <1>0, Pow10Step, BaseAssumption
<1>2. 0 \in S
  BY <1>1
<1>3. ASSUME NEW i \in Nat, i \in S PROVE i + 1 \in S
  <2>1. m + 1 + i \in Nat /\ m + 1 + (i + 1) = (m + 1 + i) + 1
    OBVIOUS
  <2>2. Pow10[m + 1 + i] < Pow10[m + 1 + (i + 1)]
    BY <1>1, <2>1
  <2>3. {Pow10[m], Pow10[m + 1 + i], Pow10[m + 1 + (i + 1)]} \subseteq Nat
    BY <2>1, Pow10Step
  <2> QED
    BY <1>3, <2>2, <2>3
<1> HIDE DEF S
<1>4. Nat \subseteq S
  BY <1>2, <1>3, SetInduction
<1>5. n - m - 1 \in Nat /\ m + 1 + (n - m - 1) = n
  OBVIOUS
<1> QED
  BY <1>4, <1>5 DEF S

-----------------------------------------------------------------------------
(* Numbers of digits. *)

\* The number of digits of any number is one that the loop may start from.
LEMMA DigitsType ==
  ASSUME NEW n
  PROVE  Digits(n) \in 1 .. MaxDigits
<1> DEFINE all == 1 .. MaxDigits - 1
           below == {d \in all : Pow10[d] <= n}
<1>1. IsFiniteSet(all) /\ Cardinality(all) = MaxDigits - 1
  BY MaxDigitsAssumption, FS_Interval
<1>2. IsFiniteSet(below) /\ Cardinality(below) <= Cardinality(all)
  BY <1>1, FS_Subset
<1>3. Cardinality(below) \in Nat
  BY <1>2, FS_CardinalityType
<1> QED
  BY <1>1, <1>2, <1>3, MaxDigitsAssumption DEF Digits

\* A number has d digits when it lies between two powers of the base.
LEMMA DigitsAre ==
  ASSUME NEW n \in Nat, NEW d \in 1 .. MaxDigits, n < Pow10[d], d = 1 \/ Pow10[d - 1] <= n
  PROVE  Digits(n) = d
<1>1. ASSUME NEW e \in 1 .. MaxDigits - 1
      PROVE  Pow10[e] <= n <=> e <= d - 1
  <2>1. d \in Nat /\ e \in Nat /\ {Pow10[e], Pow10[d]} \subseteq Nat
    BY Pow10Step, MaxDigitsAssumption
  <2>2. CASE e <= d - 1
    <3>1. d - 1 \in Nat /\ Pow10[d - 1] <= n /\ Pow10[d - 1] \in Nat
      BY <2>1, <2>2, Pow10Step
    <3>2. e < d - 1 => Pow10[e] < Pow10[d - 1]
      BY <2>1, <3>1, Pow10Less
    <3> QED
      BY <2>1, <2>2, <3>1, <3>2
  <2>3. CASE e >= d
    <3>1. e > d => Pow10[d] < Pow10[e]
      BY <2>1, Pow10Less
    <3> QED
      BY <2>1, <2>3, <3>1
  <2> QED
    BY <2>1, <2>2, <2>3
<1>2. {e \in 1 .. MaxDigits - 1 : Pow10[e] <= n} = 1 .. d - 1
  BY <1>1, MaxDigitsAssumption
<1>3. Cardinality(1 .. d - 1) = d - 1
  BY MaxDigitsAssumption, FS_Interval
<1>4. Digits(n) = 1 + Cardinality(1 .. d - 1)
  BY <1>2, Zenon DEF Digits
<1> QED
  BY <1>3, <1>4, MaxDigitsAssumption

\* Every number that fits in MaxDigits digits lies between those powers.
LEMMA DigitsBound ==
  ASSUME NEW n \in Nat, n < Pow10[MaxDigits]
  PROVE  /\ n < Pow10[Digits(n)]
         /\ n > 0 => Pow10[Digits(n) - 1] <= n
         /\ Digits(n) > 1 => n > 0
<1> DEFINE S == {d \in 1 .. MaxDigits : n < Pow10[d]}
           d == Min(S)
<1>1. S \in SUBSET Nat /\ MaxDigits \in S
  BY MaxDigitsAssumption
<1>2. d \in S /\ \A x \in S : d <= x
  BY <1>1, MinNat
<1> HIDE DEF d
<1>3. d \in 1 .. MaxDigits /\ n < Pow10[d]
  BY <1>2
<1>4. d = 1 \/ Pow10[d - 1] <= n
  <2> SUFFICES ASSUME d > 1 PROVE Pow10[d - 1] <= n
    BY <1>3
  <2>1. d - 1 \in 1 .. MaxDigits /\ d - 1 \notin S
    BY <1>2, <1>3, MaxDigitsAssumption
  <2>2. d - 1 \in Nat /\ Pow10[d - 1] \in Nat
    BY <2>1, Pow10Step
  <2> QED
    BY <2>1, <2>2
<1>5. Digits(n) = d
  BY <1>3, <1>4, DigitsAre
<1>6. d = 1 => Pow10[d - 1] = 1
  BY Pow10Step
<1>7. d > 1 => Pow10[d - 1] > 0 /\ Pow10[d - 1] \in Nat
  BY <1>3, Pow10Step
<1> QED
  BY <1>3, <1>4, <1>5, <1>6, <1>7

\* A power of the base has one digit more than its exponent, the all-nines
\* number below it has as many.
LEMMA PowerDigits ==
  ASSUME NEW d \in 1 .. MaxDigits
  PROVE  /\ Digits(Pow10[d - 1]) = d /\ Digits(Pow10[d] - 1) = d
         /\ Pow10[d - 1] \in Nat \ {0} /\ Pow10[d] - 1 \in Nat \ {0}
         /\ Pow10[d - 1] <= Pow10[d] - 1
         /\ d > 1 => Pow10[d - 1] < Pow10[d] - 1
<1>1. d \in Nat /\ d - 1 \in Nat /\ (d - 1) + 1 = d
  BY MaxDigitsAssumption
<1>2. Pow10[d - 1] \in Nat /\ Pow10[d - 1] > 0 /\ Pow10[d] = Base * Pow10[d - 1]
  BY <1>1, Pow10Step
<1>3. \A x, y \in Nat : x > 1 => 2 * y <= x * y
  OBVIOUS
<1>4. 2 * Pow10[d - 1] <= Pow10[d] /\ Pow10[d] \in Nat
  BY <1>1, <1>2, <1>3, BaseAssumption, Pow10Step
<1>5. d > 1 => Pow10[0] < Pow10[d - 1]
  BY <1>1, Pow10Less
<1>6. d > 1 => Pow10[d - 1] > 1
  BY <1>2, <1>5, Pow10Step
<1>7. /\ Pow10[d - 1] < Pow10[d] /\ Pow10[d - 1] <= Pow10[d] - 1
      /\ Pow10[d] - 1 < Pow10[d] /\ Pow10[d] - 1 \in Nat \ {0}
  BY <1>2, <1>4
<1>8. Digits(Pow10[d - 1]) = d /\ Digits(Pow10[d] - 1) = d
  BY <1>2, <1>7, DigitsAre
<1> QED
  BY <1>2, <1>4, <1>6, <1>7, <1>8

\* A number below another has no more digits.
LEMMA DigitsMonotone ==
  ASSUME NEW m \in Nat, NEW n \in Nat, m <= n, n < Pow10[MaxDigits]
  PROVE  Digits(m) <= Digits(n)
<1>0. Digits(m) \in 1 .. MaxDigits /\ Digits(n) \in 1 .. MaxDigits
  BY DigitsType
<1> SUFFICES ASSUME Digits(n) < Digits(m) PROVE FALSE
  BY <1>0, MaxDigitsAssumption
<1>1. Digits(m) \in Nat /\ Digits(n) \in Nat /\ Digits(m) - 1 \in Nat /\ Digits(m) > 1
  BY <1>0, MaxDigitsAssumption
<1>2. MaxDigits \in Nat /\ Pow10[MaxDigits] \in Nat
  BY MaxDigitsAssumption, Pow10Step
<1>3. m < Pow10[MaxDigits]
  BY <1>2
<1>4. n < Pow10[Digits(n)] /\ Pow10[Digits(m) - 1] <= m
  BY <1>1, <1>3, DigitsBound
<1>5. Digits(n) < Digits(m) - 1 => Pow10[Digits(n)] < Pow10[Digits(m) - 1]
  BY <1>1, Pow10Less
<1>6. Pow10[Digits(n)] \in Nat /\ Pow10[Digits(m) - 1] \in Nat
  BY <1>1, Pow10Step
<1> QED
  BY <1>1, <1>4, <1>5, <1>6

-----------------------------------------------------------------------------
(* The order of keys. *)

\* Keys with the same number of digits are ordered as numbers.
LEMMA SameDigitsOrder ==
  ASSUME NEW m \in Nat, NEW n \in Nat, Digits(m) = Digits(n), NEW twoParts
  PROVE  KeyLess(m, twoParts, n) <=> m < n
<1> DEFINE d == Digits(m)
<1>1. d \in Nat
  BY DigitsType, MaxDigitsAssumption
<1>2. Max({d, d}) = d
  BY <1>1, MaxPair
<1> HIDE DEF d
<1>3. Pow10[d - d] = 1
  BY <1>1, Pow10Step
<1>4. LexLess(m, n) <=> m * 1 < n * 1 \/ (m * 1 = n * 1 /\ d < d)
  BY <1>2, <1>3 DEF LexLess, d
<1>5. ~IsProperPrefix(m, n)
  BY <1>1 DEF IsProperPrefix, d
<1> QED
  BY <1>1, <1>4, <1>5 DEF KeyLess

\* A key is compared with one of more digits after zeros are appended.
LEMMA ShorterOrder ==
  ASSUME NEW m \in Nat, NEW n \in Nat, Digits(m) < Digits(n)
  PROVE  LexLess(m, n) <=> m * Pow10[Digits(n) - Digits(m)] <= n
<1>1. Digits(m) \in Nat /\ Digits(n) \in Nat
  BY DigitsType, MaxDigitsAssumption
<1>2. Max({Digits(m), Digits(n)}) = Digits(n)
  BY <1>1, MaxPair
<1>3. Pow10[Digits(n) - Digits(n)] = 1 /\ n * 1 = n
  BY <1>1, Pow10Step
<1>4. Pow10[Digits(n) - Digits(m)] \in Nat
  BY <1>1, Pow10Step
<1> DEFINE a == m * Pow10[Digits(n) - Digits(m)]
<1>5. a \in Nat
  BY <1>4
<1>6. LexLess(m, n) <=> a < n \/ a = n
  BY <1>2, <1>3 DEF LexLess
<1> HIDE DEF a
<1>7. LexLess(m, n) <=> a <= n
  BY <1>5, <1>6
<1> QED
  BY <1>7 DEF a

\* A power of the base with fewer digits is a proper prefix of the start of
\* a range and comes before it.
LEMMA PowerBeforeRange ==
  ASSUME NEW i \in Nat, NEW d \in 1 .. MaxDigits, i + 1 < d, NEW end
  PROVE  ~InKeyRange(Pow10[i], FALSE, RangeStart(d), end)
<1>1. i + 1 \in 1 .. MaxDigits /\ (i + 1) - 1 = i /\ d - 1 \in Nat
  BY MaxDigitsAssumption
<1>2. Digits(Pow10[i]) = i + 1 /\ Digits(Pow10[d - 1]) = d
  BY <1>1, PowerDigits
<1>3. d - (i + 1) \in Nat /\ i + (d - (i + 1)) = d - 1
  BY MaxDigitsAssumption
<1>4. Pow10[d - 1] = Pow10[i] * Pow10[d - (i + 1)]
  BY <1>3, Pow10Sum
<1>5. Pow10[i] \in Nat /\ Pow10[d - 1] \in Nat
  BY <1>1, Pow10Step
<1>6. LexLess(Pow10[i], Pow10[d - 1])
  BY <1>2, <1>4, <1>5, ShorterOrder
<1> QED
  BY <1>6 DEF InKeyRange, KeyLess, RangeStart

\* A key of two parts with fewer digits, all-nines ones apart, is in the
\* range between two powers of the base.
LEMMA ShorterInRange ==
  ASSUME NEW h \in Nat, h > 0, h \notin AllNines, h < Pow10[MaxDigits],
         NEW d \in 1 .. MaxDigits, Digits(h) < d
  PROVE  InKeyRange(h, TRUE, RangeStart(d), Pow10[d] - 1)
<1> DEFINE e == Digits(h)
           q == Pow10[d - e]
           top == Pow10[d] - 1
<1>1. e \in 1 .. MaxDigits /\ e \in Nat /\ e - 1 \in Nat /\ d \in Nat /\ d - 1 \in Nat
      /\ d - e \in Nat /\ (e - 1) + (d - e) = d - 1 /\ e + (d - e) = d
  BY DigitsType, MaxDigitsAssumption
<1>2. Digits(Pow10[d - 1]) = d /\ Digits(top) = d /\ top \in Nat /\ Pow10[d - 1] \in Nat
  BY PowerDigits
<1>3. Pow10[e - 1] <= h /\ h < Pow10[e]
  BY DigitsBound
<1>4. Pow10[e] - 1 \in AllNines
  BY <1>1 DEF AllNines
<1>5. Pow10[d - 1] = Pow10[e - 1] * q /\ Pow10[d] = Pow10[e] * q
  <2>1. Pow10[(e - 1) + (d - e)] = Pow10[e - 1] * q
    BY <1>1, Pow10Sum
  <2>2. Pow10[e + (d - e)] = Pow10[e] * q
    BY <1>1, Pow10Sum
  <2> QED
    BY <1>1, <2>1, <2>2
<1>6. q \in Nat /\ q > 0 /\ {Pow10[e - 1], Pow10[e], Pow10[d], Pow10[d - 1]} \subseteq Nat
  BY <1>1, Pow10Step
<1>7. h + 2 <= Pow10[e]
  BY <1>3, <1>4, <1>6
<1>8. LexLess(h, Pow10[d - 1]) <=> h * q <= Pow10[d - 1]
  BY <1>2, <1>6, ShorterOrder
<1>9. LexLess(h, top) <=> h * q <= top
  BY <1>2, <1>6, ShorterOrder
<1> HIDE DEF e, q, top
<1>10. \A x, y, z \in Nat : x <= y => x * z <= y * z
  OBVIOUS
<1>11. h * q \in Nat /\ Pow10[d - 1] <= h * q /\ (h + 2) * q <= Pow10[d]
  BY <1>3, <1>5, <1>6, <1>7, <1>10
<1>12. (h + 2) * q = h * q + 2 * q /\ (h + 1) * q = h * q + q
  BY <1>6
<1>13. (h + 1) * q <= top
  BY <1>6, <1>11, <1>12 DEF top
<1>14. h * q <= top
  BY <1>2, <1>6, <1>11, <1>12, <1>13
<1>15. \A x, z \in Nat : z > 0 => (x * z) \div z = x
  OBVIOUS
<1>16. LexLess(h, Pow10[d - 1]) => Pow10[d - 1] \div q = h
  BY <1>6, <1>8, <1>11, <1>15
<1>17. top \div q # h
  <2>1. \A x, z \in Nat : z > 0 => x < z * (x \div z) + z
    OBVIOUS
  <2>2. top < q * (top \div q) + q
    BY <1>2, <1>6, <2>1
  <2>3. (h + 1) * q = q * h + q
    BY <1>6
  <2> QED
    BY <1>2, <1>6, <1>13, <2>2, <2>3
<1>18. ~KeyLess(h, TRUE, Pow10[d - 1])
  BY <1>2, <1>16 DEF KeyLess, IsProperPrefix, e, q
<1>19. KeyLess(h, TRUE, top)
  BY <1>2, <1>9, <1>14, <1>17 DEF KeyLess, IsProperPrefix, e, q
<1> QED
  BY <1>18, <1>19 DEF InKeyRange, RangeStart, top

-----------------------------------------------------------------------------
(* The ranges. *)

\* A height for which float64 is exact, with the rounding error of larger
\* numbers to spare, and for which uint64 and MaxDigits suffice.
ExactHeight(h) ==
  /\ h \in Nat /\ h + Ulp <= FloatExact
  /\ FloatExact <= Modulus /\ FloatExact <= Pow10[MaxDigits]

\* The end of the range of d digits, without floats.
RangeEnd(endHeight, d) == IF d = Digits(endHeight) THEN endHeight ELSE Pow10[d] - 1

\* A float is not below the exact numbers it is converted from.
LEMMA FloatNotBelow ==
  ASSUME NEW h, ExactHeight(h), NEW n \in Nat, h <= n
  PROVE  ToFloat64(n) \in Nat /\ h <= ToFloat64(n)
<1>1. CASE n < FloatExact
  BY <1>1 DEF ToFloat64
<1>2. CASE n >= FloatExact
  <2> DEFINE r == Ulp \div 2
             q == (n + r) \div Ulp
  <2>1. r \in Nat
    BY FloatAssumption
  <2>2. \A x, z \in Nat : z > 0 => x \div z \in Nat /\ x < z * (x \div z) + z
    OBVIOUS
  <2>3. q \in Nat /\ n + r < Ulp * q + Ulp
    BY <2>1, <2>2, FloatAssumption
  <2>4. ToFloat64(n) = Ulp * q
    BY <1>2, FloatAssumption DEF ToFloat64
  <2> HIDE DEF r, q
  <2>5. Ulp * q \in Nat
    BY <2>3, FloatAssumption
  <2> QED
    BY <1>2, <2>1, <2>3, <2>4, <2>5, FloatAssumption DEF ExactHeight
<1> QED
  BY <1>1, <1>2, FloatAssumption

\* For such a height the arithmetic on floats is exact: the ranges end at
\* endHeight and, for fewer digits, at the all-nines numbers.
LEMMA RangeEndsExact ==
  ASSUME NEW P, ExactHeight(P), NEW d \in 1 .. Digits(P)
  PROVE  /\ RangeEnds(P, d) = {RangeEnd(P, d)} /\ RangeEnd(P, d) \in Nat
         /\ RangeEnd(P, d) <= P /\ d \in 1 .. MaxDigits
         /\ RangeStart(d) > RangeEnd(P, d) <=> P = 0
<1>0. P \in Nat /\ MaxDigits \in Nat /\ P < FloatExact /\ P < Modulus /\ P < Pow10[MaxDigits]
  BY FloatAssumption, MaxDigitsAssumption, ModulusAssumption, Pow10Step DEF ExactHeight
<1>1. Digits(P) \in 1 .. MaxDigits /\ d \in 1 .. MaxDigits /\ d \in Nat
  BY DigitsType, MaxDigitsAssumption
<1>2. /\ Pow10[d - 1] \in Nat \ {0} /\ Pow10[d] - 1 \in Nat /\ Pow10[d] \in Nat
      /\ Pow10[d - 1] <= Pow10[d] - 1
  BY <1>1, PowerDigits, Pow10Step
<1>3. P < Pow10[Digits(P)] /\ (P > 0 => Pow10[Digits(P) - 1] <= P)
      /\ (Digits(P) > 1 => P > 0)
  BY <1>0, DigitsBound
<1>4. ToFloat64(P) = P
  BY <1>0 DEF ToFloat64
<1>5. \A a, b \in Int : Min({a, b}) = IF a <= b THEN a ELSE b
  <2> TAKE a, b \in Int
  <2>1. CASE a <= b
    BY <2>1 DEF Min
  <2>2. CASE ~(a <= b)
    BY <2>2 DEF Min
  <2> QED
    BY <2>1, <2>2
<1>6. CASE d = Digits(P)
  <2>1. P <= Pow10[d] - 1
    BY <1>0, <1>2, <1>3, <1>6
  <2>2. ToFloat64(Pow10[d] - 1) \in Nat /\ P <= ToFloat64(Pow10[d] - 1)
    BY <1>2, <2>1, FloatNotBelow
  <2>3. RangeEnds(P, d) = {P}
    BY <1>0, <1>4, <1>5, <2>2 DEF RangeEnds, FloatToUint
  <2>4. RangeStart(d) > P <=> P = 0
    BY <1>0, <1>2, <1>3, <1>6 DEF RangeStart
  <2> QED
    BY <1>0, <1>1, <1>6, <2>3, <2>4 DEF RangeEnd
<1>7. CASE d # Digits(P)
  <2>1. d < Digits(P) /\ Digits(P) - 1 \in Nat /\ Digits(P) > 1 /\ Digits(P) \in Nat
    BY <1>1, <1>7, MaxDigitsAssumption
  <2>2. d < Digits(P) - 1 => Pow10[d] < Pow10[Digits(P) - 1]
    BY <1>1, <2>1, Pow10Less
  <2>3. Pow10[d] <= P
    BY <1>0, <1>2, <1>3, <2>1, <2>2, Pow10Step
  <2>4. ToFloat64(Pow10[d] - 1) = Pow10[d] - 1
    BY <1>0, <1>2, <2>3, FloatAssumption DEF ToFloat64
  <2>5. RangeEnds(P, d) = {Pow10[d] - 1}
    BY <1>0, <1>2, <1>4, <1>5, <2>3, <2>4, ModulusAssumption DEF RangeEnds, FloatToUint
  <2>6. ~(RangeStart(d) > Pow10[d] - 1) /\ P # 0
    BY <1>0, <1>2, <1>3, <2>1 DEF RangeStart
  <2> QED
    BY <1>0, <1>1, <1>2, <1>7, <2>3, <2>5, <2>6 DEF RangeEnd
<1> QED
  BY <1>6, <1>7
============================================================================
