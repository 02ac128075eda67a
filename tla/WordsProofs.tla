---------------------------- MODULE WordsProofs ----------------------------
(***************************************************************************)
(* Facts about words that the proofs of CometPrune and SeiPrune use.       *)
(***************************************************************************)
EXTENDS Words, FiniteSetsExt, TLAPS

\* Max of two integers.
LEMMA MaxPair ==
  ASSUME NEW a \in Int, NEW b \in Int
  PROVE  Max({a, b}) = IF a >= b THEN a ELSE b
<1>1. CASE a >= b
  BY <1>1 DEF Max
<1>2. CASE ~(a >= b)
  BY <1>2 DEF Max
<1> QED
  BY <1>1, <1>2

\* uint64 subtraction yields a natural number, the exact one if it fits.
LEMMA UintMinusType ==
  ASSUME NEW a \in Nat, NEW b \in Nat
  PROVE  /\ UintMinus(a, b) \in Nat
         /\ (b <= a /\ a < Modulus) => UintMinus(a, b) = a - b
  BY ModulusAssumption DEF UintMinus

\* Where setBlockStoreBase starts from: the next height, as an int64.
LEMMA WantBase ==
  ASSUME NEW p \in Nat
  PROVE  /\ ToInt64((p + 1) % Modulus) \in Int
         /\ ToInt64((p + 1) % Modulus) <= p + 1
         /\ 2 * (p + 1) < Modulus => ToInt64((p + 1) % Modulus) = p + 1
<1>1. (p + 1) % Modulus \in 0 .. Modulus - 1 /\ (p + 1) % Modulus <= p + 1
  BY ModulusAssumption
<1>2. p + 1 < Modulus => (p + 1) % Modulus = p + 1
  BY ModulusAssumption
<1> QED
  BY <1>1, <1>2, ModulusAssumption DEF ToInt64

\* The difference of two numbers of which twice the size fits in a word
\* comes back from uint64 as it is, negative ones included.
LEMMA Int64Difference ==
  ASSUME NEW a \in Nat, NEW b \in Nat, 2 * a < Modulus, 2 * b <= Modulus, b > 0 => a > 0
  PROVE  ToInt64(UintMinus(a, b)) = a - b
<1>1. CASE b <= a
  BY <1>1, ModulusAssumption DEF ToInt64, UintMinus
<1>2. CASE ~(b <= a)
  <2>1. (a - b) % Modulus = a - b + Modulus
    BY <1>2, ModulusAssumption
  <2> QED
    BY <1>2, <2>1, ModulusAssumption DEF ToInt64, UintMinus
<1> QED
  BY <1>1, <1>2

\* The conversion to int64 never increases a number.
LEMMA ToInt64Type ==
  ASSUME NEW u \in Nat
  PROVE  ToInt64(u) \in Int /\ ToInt64(u) <= u
  BY ModulusAssumption DEF ToInt64
============================================================================
