------------------------------- MODULE Words -------------------------------
(***************************************************************************)
(* uint64 arithmetic and its conversion to int64, scaled down: the code    *)
(* has Modulus = 2^64.                                                     *)
(***************************************************************************)
EXTENDS Integers

CONSTANT Modulus  \* unsigned integers are 0 .. Modulus-1

ASSUME ModulusAssumption == Modulus \in Nat /\ Modulus > 0

\* Subtraction and the conversion wrap around.
UintMinus(a, b) == (a - b) % Modulus
ToInt64(u) == IF 2 * u < Modulus THEN u ELSE u - Modulus
============================================================================
