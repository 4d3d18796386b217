------------------------------ MODULE Mersenne ------------------------------
(***************************************************************************)
(* Integers modulo 2^BitSize - 1 in machine words, as Mersenne61           *)
(* (src/src/math/field/mersenne61.rs) keeps them: BitSize is 61 there, and *)
(* a word is three bits wider than an element, a double word holds a       *)
(* product.  The width is a parameter, the algorithms are the code's.      *)
(***************************************************************************)
EXTENDS Integers, Sequences
LOCAL INSTANCE Bitwise

CONSTANT BitSize            \* bits of an element

Modulus == 2 ^ BitSize - 1
Word    == 0..(2 ^ (BitSize + 3) - 1)
Elem    == 0..(Modulus - 1)

\* The word the code's u64 arithmetic keeps of a wider value.
Truncate(v) == v % 2 ^ (BitSize + 3)

\* From<u64>: the modulus is subtracted until the value is below it.
Reduce[v \in Word] == IF v >= Modulus THEN Reduce[v - Modulus] ELSE v
\* Fault: the loop stops at the modulus itself, a second zero.
KeepsModulus(v) == IF v > 0 /\ v % Modulus = 0 THEN Modulus ELSE Reduce[v]

From(v) == Reduce[v]

Negate(a) == IF a # 0 THEN From(Modulus - a) ELSE 0

Add(a, b) == From(Truncate(a + b))

Sub(a, b) == IF b > a THEN From(Truncate(a + Modulus) - b) ELSE From(a - b)

(***************************************************************************)
(* The product is cut into the bits from BitSize up and the low word; the  *)
(* low word's bits from BitSize up are or-ed into the high part (they are  *)
(* its own low bits), and the two parts are added modulo the modulus.      *)
(***************************************************************************)
Mul(a, b) ==
  LET product == a * b
      low  == Truncate(product)
      high == Truncate(product \div 2 ^ BitSize) | (low \div 2 ^ BitSize)
  IN  Add(From(high), From(low & Modulus))

\* assign: v1 <- v2 and v2 <- v1 - q * v2.
Assign(v1, v2, q) == <<v2, v1 - q * v2>>

(***************************************************************************)
(* The extended Euclidean algorithm of inverse, over signed words: k is    *)
(* the coefficient of the element, r the remainder.                        *)
(***************************************************************************)
Coefficient[k, newK, r, newR \in Int] ==
  IF newR = 0 THEN k
  ELSE LET q  == r \div newR
           ks == Assign(k, newK, q)
           rs == Assign(r, newR, q)
       IN  Coefficient[ks[1], ks[2], rs[1], rs[2]]

\* The inverse of a non-zero element; for zero the code returns ZeroInverse.
Inverse(a) ==
  LET k == Coefficient[0, 1, Modulus, a]
  IN  From(IF k < 0 THEN k + Modulus ELSE k)

\* Words random takes from the generator; the loop draws again for the others.
Accepted(w) == w <= Modulus

\* What random makes of the words of the generator, in the order drawn.
Randoms(words) ==
  LET kept == SelectSeq(words, Accepted)
  IN  [i \in 1..Len(kept) |-> From(kept[i])]
=============================================================================
