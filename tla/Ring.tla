-------------------------------- MODULE Ring --------------------------------
(***************************************************************************)
(* The ring trait (src/src/math/ring.rs) as the parameters of the modules  *)
(* that compute with ring elements: secret sharing, polynomials and        *)
(* matrices are generic over it, as the code is.  Only pow is defined by   *)
(* the trait itself; every other operation is supplied by a field.         *)
(***************************************************************************)
EXTENDS Integers

CONSTANTS
  RZero, ROne,              \* additive and multiplicative identities
  RAdd(_, _), RSub(_, _), RMul(_, _), RNeg(_),
  RInv(_),                  \* the inverse of a non-zero element
  RFrom(_)                  \* From<u64>

BitOf(e, i) == (e \div 2 ^ i) % 2

(***************************************************************************)
(* Square and multiply: the base is squared up to the lowest set bit of    *)
(* the exponent, which seeds the accumulator; every higher set bit         *)
(* multiplies the squared base of its position into it.                    *)
(***************************************************************************)
Pow(base, exp) ==
  LET Square[i \in Nat] ==
        IF i = 0 THEN base ELSE RMul(Square[i - 1], Square[i - 1])
      Acc[i \in Nat] ==
        CASE \A j \in 0..(i - 1) : BitOf(exp, j) = 0 -> Square[i]
          [] BitOf(exp, i) = 1 -> RMul(Acc[i - 1], Square[i])
          [] OTHER -> Acc[i - 1]
      highest == CHOOSE i \in 0..exp : 2 ^ i <= exp /\ exp < 2 ^ (i + 1)
  IN  IF exp = 0 THEN ROne ELSE Acc[highest]
=============================================================================
