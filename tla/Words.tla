--------------------------------- MODULE Words --------------------------------
(***************************************************************************)
(* The integers of C: a long in two's complement, LongMax the largest.  A  *)
(* signed overflow wraps, as it does in the build of the Makefile, which   *)
(* asks for no optimization; a quotient that overflows traps.              *)
(***************************************************************************)
EXTENDS Integers

CONSTANT LongMax  \* LONG_MAX, 2^63 - 1 in the build

ASSUME LongAssumption == LongMax \in Nat

LongMin == -(LongMax + 1)
Words == LongMin .. LongMax
Modulus == 2 * (LongMax + 1)  \* ULONG_MAX + 1
ToSigned(n) == LET m == n % Modulus IN IF m > LongMax THEN m - Modulus ELSE m

Magnitude(n) == IF n < 0 THEN -n ELSE n
\* a / b and a % b, which round towards zero
Quotient_Floor(a, b) == LET s == IF b < 0 THEN -1 ELSE 1 IN (s * a) \div (s * b)
Quotient(a, b) ==
  LET q == Magnitude(a) \div Magnitude(b) IN IF (a < 0) = (b < 0) THEN q ELSE -q
Remainder(a, b) == a - b * Quotient(a, b)
=============================================================================
