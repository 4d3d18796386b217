--------------------------- MODULE Secp256k1Scalar --------------------------
(***************************************************************************)
(* The scalar field of the curve (src/src/math/field/secp256k1_scalar.rs)  *)
(* and the non-adjacent form of a scalar (naf.rs).  A scalar is a word of  *)
(* BitSize bits below Modulus; the modular operations are those of the     *)
(* big-integer library.                                                    *)
(***************************************************************************)
EXTENDS Integers, Sequences

CONSTANTS Modulus, BitSize  \* the prime order of the curve; 256 bits in the code

Elem == 0..(Modulus - 1)

From(v)   == v              \* a u64 always fits the real field
Add(a, b) == (a + b) % Modulus
Sub(a, b) == (a - b) % Modulus
Mul(a, b) == (a * b) % Modulus
Negate(a) == (Modulus - a) % Modulus

\* The inverse of a non-zero scalar.
Inverse(a) == CHOOSE b \in Elem : (a * b) % Modulus = 1

\* random_mod: uniform below the modulus, here the words of the generator below it.
InRange(w) == w < Modulus
Randoms(words) == SelectSeq(words, InRange)

TestBit(v, i) == (v \div 2 ^ i) % 2 = 1

(***************************************************************************)
(* to_naf writes one digit per round, from the lowest: an odd value takes  *)
(* the digit that makes it divisible by four.  The value is a word of      *)
(* BitSize bits, so the addition wraps; there are BitSize + 1 digits.      *)
(***************************************************************************)
NafDigit(v) == CASE ~TestBit(v, 0) -> 0
                 [] TestBit(v, 0) /\ TestBit(v, 1) -> -1
                 [] OTHER -> 1

ToNaf(scalar) ==
  LET Val[i \in Nat] ==
        IF i = 0 THEN scalar
        ELSE ((Val[i - 1] - NafDigit(Val[i - 1])) % 2 ^ BitSize) \div 2
  IN  [i \in 1..(BitSize + 1) |-> NafDigit(Val[i - 1])]
=============================================================================
