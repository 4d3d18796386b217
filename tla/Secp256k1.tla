----------------------------- MODULE Secp256k1 ------------------------------
(***************************************************************************)
(* The elliptic curve y^2 = x^3 + 7 in projective coordinates              *)
(* (src/src/math/ec/secp256k1.rs).  A point is <<x, y, z>> over the prime  *)
(* field; the point at infinity has z = 0.  The prime, the order and the   *)
(* generator are parameters, the formulas are the code's.                  *)
(***************************************************************************)
EXTENDS Integers, Sequences

CONSTANTS Prime,            \* modulus of the field of coordinates
          Order, OrderBits, \* order of the curve and the bits of its scalars
          Gen               \* affine coordinates of the generator

F == INSTANCE Secp256k1Prime WITH Modulus <- Prime
S == INSTANCE Secp256k1Scalar WITH Modulus <- Order, BitSize <- OrderBits

LOCAL a ++ b == F!Add(a, b)
LOCAL a -- b == F!Sub(a, b)
LOCAL a ** b == F!Mul(a, b)

B  == F!From(7)
B3 == F!From(3 * 7)

PointAtInfinity == <<0, 1, 0>>

Generator == <<Gen[1], Gen[2], 1>>

IsPointAtInfinity(p) == p[3] = 0

\* The affine coordinates of a point that is not the point at infinity.
ToAffine(p) ==
  IF p[3] = 1 THEN <<p[1], p[2]>>
  ELSE LET z == F!Inverse(p[3]) IN <<p[1] ** z, p[2] ** z>>

IsValid(q) == q[2] ** q[2] = (q[1] ** q[1] ** q[1]) ++ B

IsOnCurve(p) == IsPointAtInfinity(p) \/ IsValid(ToAffine(p))

(***************************************************************************)
(* try_from, the checked constructor deserialisation goes through: refuses *)
(* z = 0, the point at infinity included, and points off the curve.        *)
(***************************************************************************)
Decodes(p) ==
  /\ p[3] # 0
  /\ p[2] ** p[2] ** p[3]
       = (p[1] ** p[1] ** p[1]) ++ (B ** (p[3] ** p[3] ** p[3]))

\* PartialEq: cross-multiplied coordinates.
Eq(p, q) == p[1] ** q[3] = q[1] ** p[3] /\ p[2] ** q[3] = q[2] ** p[3]

\* dbl
Double(p) ==
  LET yy   == p[2] ** p[2]
      yy8  == F!Mul(8, yy)
      bzz  == B3 ** (p[3] ** p[3])
      rest == yy -- (bzz ++ bzz ++ bzz)
      x    == rest ** (p[1] ** p[2])
  IN  <<x ++ x, (bzz ** yy8) ++ (rest ** (yy ++ bzz)), (p[2] ** p[3]) ** yy8>>

\* add, the complete formula: it needs no case for equal or opposite points
\* or for the point at infinity.
AddPoints(p, q) ==
  LET Cross(i, j) == ((p[i] ++ p[j]) ** (q[i] ++ q[j]))
                       -- ((p[i] ** q[i]) ++ (p[j] ** q[j]))
      yy    == p[2] ** q[2]
      xx    == p[1] ** q[1]
      xx3   == xx ++ xx ++ xx
      bzz   == B3 ** (p[3] ** q[3])
      plus  == yy ++ bzz
      minus == yy -- bzz
      bxz   == B3 ** Cross(1, 3)
  IN  <<(Cross(1, 2) ** minus) -- (Cross(2, 3) ** bxz),
        (minus ** plus) ++ (bxz ** xx3),
        (plus ** Cross(2, 3)) ++ (xx3 ** Cross(1, 2))>>

NegatePoint(p) == IF p[2] = 0 THEN PointAtInfinity ELSE <<p[1], F!Negate(p[2]), p[3]>>

SubPoints(p, q) == AddPoints(p, NegatePoint(q))

\* Double and add over the non-adjacent form, from the highest digit down.
ScalarMul(p, scalar) ==
  LET naf == S!ToNaf(scalar)
      Step(acc, digit) == CASE digit = 1  -> AddPoints(Double(acc), p)
                            [] digit = -1 -> SubPoints(Double(acc), p)
                            [] OTHER      -> Double(acc)
      After[i \in Nat] == IF i > Len(naf) THEN PointAtInfinity
                          ELSE Step(After[i + 1], naf[i])
  IN  IF IsPointAtInfinity(p) THEN PointAtInfinity ELSE After[1]
=============================================================================
