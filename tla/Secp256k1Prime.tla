--------------------------- MODULE Secp256k1Prime ---------------------------
(***************************************************************************)
(* The field the curve is defined over                                     *)
(* (src/src/math/field/secp256k1_prime.rs): integers modulo a prime, with  *)
(* the modular operations of the big-integer library.                      *)
(***************************************************************************)
EXTENDS Integers

CONSTANT Modulus

Elem == 0..(Modulus - 1)

From(v)   == v              \* a u64 always fits the real field
Add(a, b) == (a + b) % Modulus
Sub(a, b) == (a - b) % Modulus
Mul(a, b) == (a * b) % Modulus
Negate(a) == (Modulus - a) % Modulus

\* The inverse of a non-zero element.
Inverse(a) == CHOOSE b \in Elem : (a * b) % Modulus = 1
=============================================================================
