------------------------------- MODULE Arith -------------------------------
(***************************************************************************)
(* Words of a fixed width, for the arithmetic units of the cores: bits,    *)
(* two's complement and packed decimal.  The reference definitions of the  *)
(* properties are written with these alone.                                *)
(***************************************************************************)
EXTENDS Integers, FiniteSets

Wrap(v, w) == v % 2^w

\* Bit k of v, the set of bits that are 1 in a word of w bits, and the word of such a set.
Bit(v, k) == (v \div 2^k) % 2 = 1
Ones(v, w) == {k \in 0 .. (w - 1) : Bit(v, k)}
Word(bits, w) == CHOOSE v \in 0 .. (2^w - 1) : Ones(v, w) = bits

Signed(v, w) == IF Bit(v, w - 1) THEN v - 2^w ELSE v
SignedRange(w) == -(2^(w - 1)) .. (2^(w - 1) - 1)

\* One bit of arithmetic from a truth value, and one flag from a condition.
Carry(c) == IF c THEN 1 ELSE 0
Given(flag, condition) == IF condition THEN {flag} ELSE {}

EvenParity(v, w) == Cardinality(Ones(v, w)) % 2 = 0

\* Packed decimal: two digits to a byte.
IsBcd(v) == (v % 16) < 10 /\ v \div 16 < 10
Decimal(v) == 10 * (v \div 16) + (v % 16)
=============================================================================
