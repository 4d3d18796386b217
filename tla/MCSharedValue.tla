--------------------------- MODULE MCSharedValue ----------------------------
(***************************************************************************)
(* Instance of SharedValue: three parties, the field of integers modulo 7  *)
(* in words of 6 bits, and the curve y^2 = x^3 + 7 over the integers       *)
(* modulo 43, of prime order 31.                                           *)
(***************************************************************************)
EXTENDS SharedValue

MCGen == <<2, 12>>

\* Words below, at and above the modulus: 7 is taken for zero, 8 and more are
\* drawn again (as scalars of the curve they are below 31 and taken).
MCGenerators == {<<3, 9, 5, 7, 1, 2>>, <<7, 40, 6, 0, 4, 1>>}

MCPartyGenerators ==
  {[p \in Party |-> IF p = 0 THEN <<3, 9, 5, 2, 1, 6, 4>> ELSE
                    IF p = 1 THEN <<7, 1, 60, 6, 2, 2, 5>> ELSE <<4, 4, 3, 7, 1, 5, 8>>],
   [p \in Party |-> <<1 + p, 6 - p, 2, 5, 3, 6>>]}

\* All list the parties in order, or every party in an order of its own.
MCLists ==
  {[p \in Party |-> <<0, 1, 2>>],
   [p \in Party |-> IF p = 0 THEN <<2, 0, 1>> ELSE IF p = 1 THEN <<1, 0, 2>> ELSE <<0, 2, 1>>]}
=============================================================================
