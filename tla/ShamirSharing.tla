--------------------------- MODULE ShamirSharing ----------------------------
(***************************************************************************)
(* Shamir secret sharing over a field (src/src/ss/shamir.rs).  A share is  *)
(* [share, degree]; a party is its id, counted from 0.                     *)
(***************************************************************************)
EXTENDS Polynomials

Share(value, degree) == [share |-> value, degree |-> degree]

\* Fault: party 0 sits at the secret's own point
EncodeFromZero(party) == RFrom(party)

\* Party i sits at the field point i + 1, never at the secret's own point 0.
EncodeParty(party) == RFrom(party + 1)

Points(parties) == [i \in 1..Len(parties) |-> EncodeParty(parties[i])]

\* The sharing polynomial: random, with the secret as its constant coefficient.
SharingPoly(secret, degree, randoms) ==
  SetConstantCoeff(RandomPoly(degree, randoms), secret)

\* The inherent shares_from_secret: one share per index, and the polynomial.
SharesAt(secret, degree, indexes, randoms) ==
  LET poly == SharingPoly(secret, degree, randoms)
  IN  [shares |-> [i \in 1..Len(indexes) |-> Share(Evaluate(poly, indexes[i]), degree)],
       poly   |-> poly]

\* LinearShare::shares_from_secret: refuses a degree no dealt set can reconstruct.
SharesFromSecret(secret, parties, degree, randoms) ==
  IF degree >= Len(parties)
  THEN Err("InvalidThreshold")
  ELSE Ok(SharesAt(secret, degree, Points(parties), randoms).shares)

\* The inherent secret_from_shares: checks in the code's order, then
\* interpolation through all the shares at 0.
SecretAt(shares, indexes) ==
  CASE shares = <<>> -> Err("NotEnoughShares")
    [] Len(shares) # Len(indexes) -> Err("EvalAndShareLenMismatch")
    [] \E i \in 1..Len(shares) : shares[i].degree # shares[1].degree ->
         Err("SharesWithDifferentDegree")
    [] Len(shares) < shares[1].degree + 1 -> Err("NotEnoughShares")
    [] OTHER -> InterpolateAt([i \in 1..Len(shares) |-> shares[i].share], indexes, RZero)

SecretFromShares(shares, parties) == SecretAt(shares, Points(parties))

(***************************************************************************)
(* The local operations on one party's shares.  Adding and subtracting     *)
(* require equal degrees (a debug assertion); only the product of two      *)
(* shares changes the degree.                                              *)
(***************************************************************************)
AddShare(x, y) == [x EXCEPT !.share = RAdd(@, y.share)]
SubShare(x, y) == [x EXCEPT !.share = RSub(@, y.share)]
AddConst(x, c) == [x EXCEPT !.share = RAdd(@, c)]
SubConst(x, c) == [x EXCEPT !.share = RSub(@, c)]
MulConst(x, c) == [x EXCEPT !.share = RMul(@, c)]
MulShare(x, y) == Share(RMul(x.share, y.share), x.degree + y.degree)
NegShare(x)    == [x EXCEPT !.share = RNeg(@)]

\* A degree-t and a degree-2t sharing; new asserts the degrees.
DoubleShare(t, twoT) == [t |-> t, twoT |-> twoT]
=============================================================================
