--------------------------- MODULE PassiveShamir ----------------------------
(***************************************************************************)
(* What the passive Shamir protocols compute                               *)
(* (src/src/protocol/passive_shamir/): every operator is one protocol run  *)
(* by all the parties, from their inputs to their outputs.  The packets    *)
(* and their order are the subject of Protocols; here every party has what *)
(* the others sent it.  lists[p] is the party list the run was constructed *)
(* with at p: the parties need not list each other in the same order.      *)
(***************************************************************************)
EXTENDS Matrices
LOCAL INSTANCE SequencesExt

CONSTANT Party              \* ids of the parties

N == Cardinality(Party)

\* parties.sort() of the constructors.
Sorted(list) == SetToSortSeq(ToSet(list), <)

\* The transpose of the Vandermonde matrix: one column per dealer.
ExtractionMatrix(parties, outputs) == Transpose(Vandermonde(Points(parties), outputs))

\* The share PassiveDealShr sends to p when the dealer lists its receivers so.
DealTo(p, secret, receivers, degree, randoms) ==
  SharesFromSecret(secret, receivers, degree, randoms).value
    [CHOOSE i \in 1..Len(receivers) : receivers[i] = p]

(***************************************************************************)
(* PassiveRandShr: every party deals a random secret, and each applies the *)
(* extraction matrix to the shares it got, in the order of its own sorted  *)
(* list.  randoms[p] are the elements p's generator yields.                *)
(***************************************************************************)
Extracted(t, lists, secret, randoms, degree) ==
  LET Dealers(p) == Sorted(lists[p])
      Got(p) == [i \in 1..N |-> LET d == Dealers(p)[i]
                                IN  DealTo(p, secret[d], Dealers(d), degree, randoms[d])]
  IN  [p \in Party |-> MulShares(ExtractionMatrix(Dealers(p), N - t), Got(p)).value]

RandShr(t, lists, randoms) ==
  Extracted(t, lists, [p \in Party |-> Head(randoms[p])],
            [p \in Party |-> Tail(randoms[p])], t)

(***************************************************************************)
(* PassiveRandDoubleShr: one random secret per party, dealt twice, at      *)
(* degree t and at degree 2t, and extracted with the same matrix.          *)
(***************************************************************************)
RandDoubleShr(t, lists, randoms) ==
  LET secret == [p \in Party |-> Head(randoms[p])]
      low  == Extracted(t, lists, secret, [p \in Party |-> Tail(randoms[p])], t)
      high == Extracted(t, lists, secret,
                        [p \in Party |-> SubSeq(randoms[p], t + 3, Len(randoms[p]))], 2 * t)
  IN  [p \in Party |-> [i \in 1..(N - t) |-> DoubleShare(low[p][i], high[p][i])]]

(***************************************************************************)
(* BatchedPassiveOpenToKing: the king reconstructs the i-th secret from    *)
(* the i-th share of every party, in the order of its list, and sends the  *)
(* values to everyone.                                                     *)
(***************************************************************************)
OpenToKing(list, shares) ==
  [i \in 1..Len(shares[list[1]]) |->
     SecretFromShares([j \in 1..Len(list) |-> shares[list[j]][i]], list).value]

(***************************************************************************)
(* PassiveTriple: the local products, masked with the degree-2t halves,    *)
(* are opened; the opened values minus the degree-t halves are the shares  *)
(* of the products.                                                        *)
(***************************************************************************)
MakeTriples(king, lists, a, b, doubles) ==
  LET batch == 1..Len(a[king])
      Masked(p) == [i \in batch |-> AddShare(MulShare(a[p][i], b[p][i]), doubles[p][i].twoT)]
      d == OpenToKing(Sorted(lists[king]), [p \in Party |-> Masked(p)])
      C(p) == AddShares(d, NegShares([i \in batch |-> doubles[p][i].t])).value
  IN  [p \in Party |-> [i \in batch |-> [a |-> a[p][i], b |-> b[p][i], mult |-> C(p)[i]]]]

(***************************************************************************)
(* PassiveShamirMul: both operands of every product are masked with its    *)
(* triple and opened in one batch, x - a at the odd places and y - b at    *)
(* the even ones; x * y = a * b + d * b + e * a + d * e.                   *)
(***************************************************************************)
Multiply(king, lists, x, y, triples) ==
  LET batch == 1..Len(x[king])
      Masked(p) == [k \in 1..(2 * Len(x[king])) |->
                      LET i == (k + 1) \div 2 IN
                      IF k % 2 = 1 THEN SubShare(x[p][i], triples[p][i].a)
                                   ELSE SubShare(y[p][i], triples[p][i].b)]
      opened == OpenToKing(Sorted(lists[king]), [p \in Party |-> Masked(p)])
      Product(t, d, e) ==
        AddConst(AddShare(AddShare(t.mult, MulConst(t.b, d)), MulConst(t.a, e)), RMul(d, e))
  IN  [p \in Party |-> [i \in batch |->
         Product(triples[p][i], opened[2 * i - 1], opened[2 * i])]]
=============================================================================
