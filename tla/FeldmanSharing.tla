--------------------------- MODULE FeldmanSharing ---------------------------
(***************************************************************************)
(* Feldman verifiable secret sharing (src/src/ss/feldman.rs): Shamir       *)
(* sharing over the scalars of the curve, each share with the dealer's     *)
(* commitments to the coefficients of the polynomial.                      *)
(***************************************************************************)
EXTENDS Integers, Sequences
LOCAL INSTANCE SequencesExt

CONSTANTS Prime, Order, OrderBits, Gen

C == INSTANCE Secp256k1
K == INSTANCE Secp256k1Scalar WITH Modulus <- Order, BitSize <- OrderBits

Shamir == INSTANCE ShamirSharing WITH
            RZero <- 0, ROne <- 1, RAdd <- K!Add, RSub <- K!Sub, RMul <- K!Mul,
            RNeg <- K!Negate, RInv <- K!Inverse, RFrom <- K!From

Share(shamir, commitments) == [shamir |-> shamir, commitments |-> commitments]

\* Fault: the number of commitments is not checked
IsValidAnyLength(s, owner) ==
  LET Committed == FoldLeftDomain(
        LAMBDA acc, k : C!AddPoints(acc, C!ScalarMul(s.commitments[k],
                                                     Shamir!Pow(owner, k - 1))),
        C!PointAtInfinity, s.commitments)
  IN  C!Eq(Committed, C!ScalarMul(C!Generator, s.shamir.share))

(***************************************************************************)
(* is_valid: as many commitments as coefficients, all on the curve, and    *)
(* the committed polynomial at the owner's point is committed by the share.*)
(***************************************************************************)
IsValid(s, owner) ==
  LET Committed == FoldLeftDomain(
        LAMBDA acc, k : C!AddPoints(acc, C!ScalarMul(s.commitments[k],
                                                     Shamir!Pow(owner, k - 1))),
        C!PointAtInfinity, s.commitments)
  IN  /\ Len(s.commitments) = s.shamir.degree + 1
      /\ \A k \in 1..Len(s.commitments) : C!IsOnCurve(s.commitments[k])
      /\ C!Eq(Committed, C!ScalarMul(C!Generator, s.shamir.share))

SharesFromSecret(secret, degree, indexes, randoms) ==
  LET dealt == Shamir!SharesAt(secret, degree, indexes, randoms)
      commitments == [k \in 1..Len(dealt.poly) |-> C!ScalarMul(C!Generator, dealt.poly[k])]
  IN  [i \in 1..Len(indexes) |-> Share(dealt.shares[i], commitments)]

SecretFromShares(shares, indexes) ==
  CASE Len(shares) # Len(indexes) -> Shamir!Err("LengthMismatch")
    [] \E i \in 1..Len(shares) : ~IsValid(shares[i], indexes[i]) -> Shamir!Err("InvalidShare")
    [] OTHER -> Shamir!SecretAt([i \in 1..Len(shares) |-> shares[i].shamir], indexes)

\* Deserialisation of a share: every commitment goes through the checked constructor.
Decodes(s) == \A k \in 1..Len(s.commitments) : C!Decodes(s.commitments[k])
=============================================================================
