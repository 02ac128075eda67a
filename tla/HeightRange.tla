---------------------------- MODULE HeightRange ----------------------------
(***************************************************************************)
(* The keys "<prefix><height>" of the CometBFT databases and the batches   *)
(* in which deleteHeightRange (cmd/generic_chain.go) deletes them.         *)
(*                                                                         *)
(* Heights are written in ASCII without padding, so the database orders    *)
(* the keys of one prefix as strings, not as numbers: "10" < "9".  A key   *)
(* is modelled by its height; the string order is computed from the number *)
(* of digits.  Heights and float64 are scaled down as uint64 is in Words:  *)
(* the code has Base = 10, FloatExact = 2^53 and a rounding step of 2048   *)
(* just below 2^64.                                                        *)
(***************************************************************************)
EXTENDS Words, FiniteSetsExt

CONSTANTS
  Base,        \* digits are 0 .. Base-1
  FloatExact,  \* integers below it are exact as floats
  Ulp,         \* larger floats are multiples of Ulp
  MaxDigits    \* no integer has more digits (20 in the code)

ASSUME BaseAssumption == Base \in Nat /\ Base > 1
ASSUME FloatAssumption == FloatExact \in Nat /\ Ulp \in Nat /\ Ulp > 0
ASSUME MaxDigitsAssumption == MaxDigits \in Nat \ {0}

Pow10[d \in Nat] == IF d = 0 THEN 1 ELSE Base * Pow10[d - 1]

\* len(fmt.Sprintf("%d", n))
Digits(n) == 1 + Cardinality({d \in 1 .. MaxDigits - 1 : Pow10[d] <= n})

\* The digits of m come before those of n in the order of strings.
LexLess(m, n) ==
  LET k == Max({Digits(m), Digits(n)})
      a == m * Pow10[k - Digits(m)]
      b == n * Pow10[k - Digits(n)]
  IN  a < b \/ (a = b /\ Digits(m) < Digits(n))

IsProperPrefix(m, n) ==
  Digits(m) < Digits(n) /\ n \div Pow10[Digits(n) - Digits(m)] = m

\* The key of height h comes before the bound "<prefix>x".  With two parts
\* ("P:<height>:<index>") a ':' follows the height, and ':' > '9'.
KeyLess(h, twoParts, x) ==
  LexLess(h, x) /\ ~(twoParts /\ IsProperPrefix(h, x))

\* db.Iterator(start, end): the end key is excluded.
InKeyRange(h, twoParts, start, end) ==
  ~KeyLess(h, twoParts, start) /\ KeyLess(h, twoParts, end)

\* float64(n) rounds to a multiple of Ulp once n needs too many bits.
ToFloat64(n) ==
  IF n < FloatExact THEN n ELSE Ulp * ((n + (Ulp \div 2)) \div Ulp)

\* uint64(f) of a float that is out of range depends on the build: amd64
\* yields 2^63, arm64 saturates.
FloatToUint(f) ==
  IF f < Modulus THEN {f} ELSE {Modulus \div 2, Modulus - 1}

RangeStartTooHigh(d) == Pow10[d - 1] + 1

\* rangeStart and the possible values of rangeEnd for one number of digits
\* (every caller passes startHeight = 0).
RangeStart(d) == Pow10[d - 1]
RangeEnds(endHeight, d) ==
  FloatToUint(Min({ToFloat64(endHeight), ToFloat64(Pow10[d] - 1)}))

RangeBatchUnbounded(keys, twoParts, endHeight, d, rangeEnd) ==
  {h \in keys : InKeyRange(h, twoParts, RangeStart(d), rangeEnd)}

\* The keys one iteration of the digits loop puts into its batch.
RangeBatch(keys, twoParts, endHeight, d, rangeEnd) ==
  {h \in keys : /\ InKeyRange(h, twoParts, RangeStart(d), rangeEnd)
                /\ h <= endHeight}

\* 9, 99, 999, ...: each is the excluded end of its own range of digits.
AllNines == {Pow10[d] - 1 : d \in 1 .. MaxDigits}
PowersOfBase == {Pow10[d] : d \in 0 .. MaxDigits}
============================================================================
