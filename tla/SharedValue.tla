---------------------------- MODULE SharedValue -----------------------------
(***************************************************************************)
(* Secret-shared values through a computation.  Two registers hold a       *)
(* sharing each, dealt with one of the three schemes of src/src/ss; the    *)
(* parties apply the local operations to their shares, or multiply two     *)
(* Shamir sharings with triples they prepared with the passive Shamir      *)
(* protocols.  Next to the shares a register keeps the secret they are     *)
(* meant to hide, computed with integers modulo the field's modulus: that  *)
(* value no code computes, and the properties compare the shares with it.  *)
(*                                                                         *)
(* Field elements, polynomials, matrices and curve points are those of the *)
(* modules of src/src/math, on a small instance: words of BitSize + 3 bits *)
(* for Mersenne61, and a curve y^2 = x^3 + 7 of small prime order.         *)
(***************************************************************************)
EXTENDS Integers, Sequences, FiniteSets
LOCAL INSTANCE SequencesExt

CONSTANTS
  Party,                    \* ids 0..N-1
  BitSize,                  \* bits of a Mersenne field element
  Prime, Order, OrderBits, Gen,  \* the curve
  T,                        \* corruptions the passive protocols tolerate
  King,                     \* the party that opens
  Secrets, Consts,          \* secrets dealt and public constants used
  Degrees,                  \* degrees asked for at a dealing
  Generators,               \* words a generator may yield at a dealing
  PartyGenerators,          \* per party, for a run of a passive protocol
  Lists,                    \* the orders in which the parties list each other
  MaxOps                    \* bound: local operations and multiplications

M == INSTANCE Mersenne
PS == INSTANCE PassiveShamir WITH
        RZero <- 0, ROne <- 1, RAdd <- M!Add, RSub <- M!Sub, RMul <- M!Mul,
        RNeg <- M!Negate, RInv <- M!Inverse, RFrom <- M!From
AS == INSTANCE AdditiveSharing WITH
        RZero <- 0, ROne <- 1, RAdd <- M!Add, RSub <- M!Sub, RMul <- M!Mul,
        RNeg <- M!Negate, RInv <- M!Inverse, RFrom <- M!From
FS == INSTANCE FeldmanSharing
K == INSTANCE Secp256k1Scalar WITH Modulus <- Order, BitSize <- OrderBits

N == Cardinality(Party)

ASSUME SharingAssumption ==
  /\ Party = 0..(N - 1) /\ King \in Party /\ T \in Nat /\ 2 * T < N
  /\ N < M!Modulus /\ N < Order   \* the parties' points are distinct and not 0

VARIABLES
  lists,                    \* [Party -> the party list p constructs protocols with]
  reg,                      \* [{"x", "y"} -> a sharing, or Empty]
  prep,                     \* what the passive protocols prepared so far
  ops                       \* operations done

vars == <<lists, reg, prep, ops>>

Registers == {"x", "y"}
Empty     == [scheme |-> "none"]
Nothing   == [rand |-> <<>>, double |-> <<>>, triples |-> <<>>]

\* A party's share of register r, dealt to the parties of the list in its order.
ByParty(list, shares) == [p \in Party |-> shares[CHOOSE i \in 1..N : list[i] = p]]

Held(r) == reg[r].scheme
ModulusOf(scheme) == IF scheme = "feldman" THEN Order ELSE M!Modulus

Init ==
  /\ lists \in Lists
  /\ reg = [r \in Registers |-> Empty]
  /\ prep = Nothing
  /\ ops = 0

-----------------------------------------------------------------------------
\* Dealing, x before y.  Once triples are prepared values are dealt at their degree.

CanDeal(r) == reg[r] = Empty /\ ops = 0 /\ (r = "y" => reg["x"] # Empty)

DealShamir(r, secret, degree, words) ==
  LET list  == lists[King]
      dealt == PS!SharesFromSecret(secret, list, degree, M!Randoms(words))
  IN  /\ CanDeal(r)
      /\ prep # Nothing => degree = T /\ prep.triples # <<>>
      /\ dealt.ok
      /\ reg' = [reg EXCEPT ![r] = [scheme |-> "shamir", secret |-> secret,
                                    shares |-> ByParty(list, dealt.value)]]
      /\ UNCHANGED <<lists, prep, ops>>

DealAdditive(r, secret, words) ==
  LET list == lists[King] IN
  /\ CanDeal(r) /\ prep = Nothing
  /\ reg' = [reg EXCEPT ![r] =
       [scheme |-> "additive", secret |-> secret,
        shares |-> ByParty(list, AS!SharesFromSecret(secret, list, M!Randoms(words)))]]
  /\ UNCHANGED <<lists, prep, ops>>

\* A dealing of verifiable shares, of whatever degree; coefs is the polynomial behind
\* the commitments.
DealFeldman(secret, degree, words) ==
  LET list == lists[King]
      points == FS!Shamir!Points(list)
      randoms == K!Randoms(words)
  IN  /\ CanDeal("x") /\ prep = Nothing
      /\ reg' = [reg EXCEPT !["x"] =
           [scheme |-> "feldman", secret |-> secret,
            shares |-> ByParty(list, FS!SharesFromSecret(secret, degree, points, randoms)),
            coefs |-> FS!Shamir!SharingPoly(secret, degree, randoms),
            spoiled |-> {}]]
      /\ UNCHANGED <<lists, prep, ops>>

-----------------------------------------------------------------------------
\* Local operations: every party applies the operation to its own shares.

CountOp ==
  /\ ops < MaxOps /\ prep = Nothing
  /\ ops' = ops + 1
  /\ UNCHANGED <<lists, prep>>

Become(secret, shares) ==
  reg' = [reg EXCEPT !["x"].secret = secret % M!Modulus, !["x"].shares = shares]

Local == Held("x") \in {"shamir", "additive"}

\* x and y can be combined: one scheme, and equal degrees (a debug assertion).
Combine ==
  /\ Local /\ Held("y") = Held("x")
  /\ Held("x") = "shamir" => reg["x"].shares[King].degree = reg["y"].shares[King].degree

AddRegisters ==
  LET x == reg["x"]  y == reg["y"] IN
  /\ Combine /\ CountOp
  /\ Become(x.secret + y.secret,
       [p \in Party |-> IF x.scheme = "shamir" THEN PS!AddShare(x.shares[p], y.shares[p])
                                               ELSE AS!AddShare(x.shares[p], y.shares[p])])

SubRegisters ==
  LET x == reg["x"]  y == reg["y"] IN
  /\ Combine /\ CountOp
  /\ Become(x.secret - y.secret,
       [p \in Party |-> IF x.scheme = "shamir" THEN PS!SubShare(x.shares[p], y.shares[p])
                                               ELSE AS!SubShare(x.shares[p], y.shares[p])])

AddPublic(c) ==
  LET x == reg["x"] IN
  /\ Local /\ CountOp
  /\ Become(x.secret + c,
       [p \in Party |-> IF x.scheme = "shamir" THEN PS!AddConst(x.shares[p], c)
                                               ELSE AS!AddConst(x.shares[p], c)])

SubPublic(c) ==
  LET x == reg["x"] IN
  /\ Local /\ CountOp
  /\ Become(x.secret - c,
       [p \in Party |-> IF x.scheme = "shamir" THEN PS!SubConst(x.shares[p], c)
                                               ELSE AS!SubConst(x.shares[p], c)])

MulPublic(c) ==
  LET x == reg["x"] IN
  /\ Local /\ CountOp
  /\ Become(x.secret * c,
       [p \in Party |-> IF x.scheme = "shamir" THEN PS!MulConst(x.shares[p], c)
                                               ELSE AS!MulConst(x.shares[p], c)])

NegateRegister ==
  LET x == reg["x"] IN
  /\ Local /\ CountOp
  /\ Become(-x.secret,
       [p \in Party |-> IF x.scheme = "shamir" THEN PS!NegShare(x.shares[p])
                                               ELSE AS!NegShare(x.shares[p])])

\* The local product of Shamir shares: the degrees add up, so it may be that
\* not even all the shares reconstruct the product.
MulLocally ==
  LET x == reg["x"]  y == reg["y"] IN
  /\ Held("x") = "shamir" /\ Held("y") = "shamir" /\ CountOp
  /\ Become(x.secret * y.secret,
            [p \in Party |-> PS!MulShare(x.shares[p], y.shares[p])])

-----------------------------------------------------------------------------
\* The passive protocols, each a run of all the parties.

\* The first run gives the a's of the triples to come, the second the b's.
RandomShares(gens) ==
  /\ Len(prep.rand) < 2 /\ ops = 0 /\ reg = [r \in Registers |-> Empty]
  /\ prep' = [prep EXCEPT !.rand =
       Append(@, PS!RandShr(T, lists, [p \in Party |-> M!Randoms(gens[p])]))]
  /\ UNCHANGED <<lists, reg, ops>>

RandomDoubles(gens) ==
  /\ Len(prep.rand) = 2 /\ prep.double = <<>>
  /\ prep' = [prep EXCEPT !.double =
       <<PS!RandDoubleShr(T, lists, [p \in Party |-> M!Randoms(gens[p])])>>]
  /\ UNCHANGED <<lists, reg, ops>>

Triples ==
  /\ prep.double # <<>> /\ prep.triples = <<>>
  /\ prep' = [prep EXCEPT !.triples =
       <<PS!MakeTriples(King, lists, prep.rand[1], prep.rand[2], prep.double[1])>>]
  /\ UNCHANGED <<lists, reg, ops>>

\* x * y and y * y in one batch; both triples are consumed.
MultiplyBatch ==
  LET x == reg["x"]  y == reg["y"]
      z == PS!Multiply(King, lists,
             [p \in Party |-> <<x.shares[p], y.shares[p]>>],
             [p \in Party |-> <<y.shares[p], y.shares[p]>>], prep.triples[1])
  IN  /\ prep.triples # <<>>
      /\ \A r \in Registers : Held(r) = "shamir" /\ reg[r].shares[King].degree = T
      /\ ops < MaxOps /\ ops' = ops + 1
      /\ reg' = [reg EXCEPT
           !["x"].secret = (@ * y.secret) % M!Modulus, !["x"].shares = [p \in Party |-> z[p][1]],
           !["y"].secret = (@ * @) % M!Modulus,        !["y"].shares = [p \in Party |-> z[p][2]]]
      /\ prep' = Nothing
      /\ UNCHANGED lists

-----------------------------------------------------------------------------
\* What a party may be handed instead of the verifiable share it was dealt: one of its
\* fields changed, or the share together with the commitments it carries.
Spoilt(s) ==
  LET last == Len(s.commitments) IN
  {[s EXCEPT !.shamir.share = K!Add(@, 1)],
   [s EXCEPT !.commitments = Front(@)],
   [s EXCEPT !.commitments[1] = <<1, 1, 1>>],
   [s EXCEPT !.commitments[last] = FS!C!AddPoints(@, FS!C!Generator)],
   [s EXCEPT !.shamir.share = K!Add(@, 1),
             !.commitments[1] = FS!C!AddPoints(@, FS!C!Generator)]}

Spoil(p) ==
  /\ Held("x") = "feldman" /\ reg["x"].spoiled = {}
  /\ \E s \in Spoilt(reg["x"].shares[p]) :
       reg' = [reg EXCEPT !["x"].shares[p] = s, !["x"].spoiled = {p}]
  /\ UNCHANGED <<lists, prep, ops>>

Next ==
  \/ \E r \in Registers, s \in Secrets, w \in Generators :
       \/ \E degree \in Degrees : DealShamir(r, s, degree, w)
       \/ DealAdditive(r, s, w)
  \/ \E s \in Secrets, w \in Generators, degree \in Degrees : DealFeldman(s, degree, w)
  \/ AddRegisters \/ SubRegisters \/ NegateRegister \/ MulLocally
  \/ \E c \in Consts : AddPublic(c) \/ SubPublic(c) \/ MulPublic(c)
  \/ \E g \in PartyGenerators : RandomShares(g) \/ RandomDoubles(g)
  \/ Triples \/ MultiplyBatch
  \/ \E p \in Party : Spoil(p)

Spec == Init /\ [][Next]_vars
-----------------------------------------------------------------------------
(***************************************************************************)
(* Properties                                                              *)
(***************************************************************************)

ShamirShare == [share : M!Elem, degree : Nat]
AdditiveShare == [value : M!Elem, party : Party, leader : BOOLEAN]

\* Type invariant.  Every value is a canonical residue: the modulus itself,
\* which random accepts and a sum may reach, never survives as a second zero
\* (Mersenne61::from, mersenne61.rs:20-27).
TypeOK ==
  /\ lists \in [Party -> [1..N -> Party]]
  /\ ops \in 0..MaxOps
  /\ \A r \in Registers :
       LET shares == reg[r].shares IN
       CASE Held(r) = "none" -> TRUE
         [] Held(r) = "shamir" -> /\ shares \in [Party -> ShamirShare]
                                  /\ \A p, q \in Party : shares[p].degree = shares[q].degree
         [] Held(r) = "additive" -> /\ shares \in [Party -> AdditiveShare]
                                    /\ \A p \in Party : shares[p].party = p
                                    /\ Cardinality({p \in Party : shares[p].leader}) = 1
         [] Held(r) = "feldman" -> \A p \in Party : shares[p].shamir.share \in K!Elem

Ordered(S) == SelectSeq(lists[King], LAMBDA p : p \in S)

\* secret_from_shares of the shares of the parties in S, in the king's order.
Reconstruct(r, S) ==
  LET list   == Ordered(S)
      shares == [i \in 1..Len(list) |-> reg[r].shares[list[i]]]
  IN  CASE Held(r) = "shamir"   -> PS!SecretFromShares(shares, list)
        [] Held(r) = "additive" -> PS!Ok(AS!SecretFromShares(shares))
        [] Held(r) = "feldman"  -> FS!SecretFromShares(shares, FS!Shamir!Points(list))

Qualifies(r, S) ==
  CASE Held(r) = "shamir"   -> Cardinality(S) > reg[r].shares[King].degree
    [] Held(r) = "additive" -> S = Party
    [] OTHER -> FALSE

\* Whatever local operations and multiplications produced the shares, every set
\* of parties that the scheme lets reconstruct gets the value the computation
\* should have (shamir.rs:114-140, additive.rs:135-139, mul.rs run).
SecretRecovered ==
  \A r \in Registers : \A S \in SUBSET Party :
    Qualifies(r, S) => Reconstruct(r, S) = PS!Ok(reg[r].secret)

\* The values every polynomial of a degree takes at the parties' points.
PolyValues ==
  [degree \in 0..(N - 1) |->
     {[secret |-> poly[1], at |-> [p \in Party |-> PS!Evaluate(poly, PS!EncodeParty(p))]] :
        poly \in [1..(degree + 1) -> M!Elem]}]

\* What up to degree many parties hold is consistent with every secret: no share
\* sits at the secret's own point and the points differ (encode_party,
\* shamir.rs:251-253).
SharesHide ==
  \A r \in Registers :
    LET shares == reg[r].shares
        degree == shares[King].degree
    IN  Held(r) = "shamir" /\ degree < N =>
          \A S \in SUBSET Party : Cardinality(S) = degree =>
            \A secret \in M!Elem :
              \E v \in PolyValues[degree] :
                v.secret = secret /\ \A p \in S : v.at[p] = shares[p].share

Accepted(p) == FS!IsValid(reg["x"].shares[p], FS!Shamir!EncodeParty(p))

\* An honest verifiable share survives the wire unless a coefficient of the
\* polynomial is zero: its commitment is the point at infinity, which try_from
\* refuses (secp256k1.rs:82-84), so a Feldman sharing of zero cannot be received.
SurvivesWire(p) ==
  FS!Decodes(reg["x"].shares[p])
    <=> \A k \in 1..Len(reg["x"].coefs) : reg["x"].coefs[k] # 0

\* The curve has prime order: its points are the multiples of the generator.
Multiples == [k \in K!Elem |-> FS!C!ScalarMul(FS!C!Generator, k)]

\* The share is the value, at its owner's point, of the polynomial that the commitments
\* it carries commit to: over the integers, from their discrete logarithms.
FitsItsCommitments(p) ==
  LET s == reg["x"].shares[p]
      owner == FS!Shamir!EncodeParty(p)
      IsLog(a, k) == FS!C!Eq(s.commitments[k], Multiples[a])
      Term(k) == (CHOOSE a \in K!Elem : IsLog(a, k)) * owner ^ (k - 1)
  IN  /\ Len(s.commitments) = s.shamir.degree + 1
      /\ \A k \in 1..Len(s.commitments) : \E a \in K!Elem : IsLog(a, k)
      /\ s.shamir.share = FoldLeftDomain(LAMBDA sum, k : (sum + Term(k)) % Order, 0, s.commitments)

\* A verifiable share is accepted exactly when it is the one its own commitments commit
\* to, hence a changed one only with changed commitments; a set with a share that is not
\* is refused, and of the shares as dealt enough give the secret and fewer an error
\* (feldman.rs:55-71, 130-154).  Only a zero coefficient keeps a share as dealt off the
\* wire (secp256k1.rs:67-106).  secret_from_shares does not compare the commitments of
\* different shares: nothing is claimed of a set that mixes them.
FeldmanSound ==
  Held("x") = "feldman" =>
    LET x == reg["x"]
        dealt == [k \in 1..Len(x.coefs) |-> Multiples[x.coefs[k]]]
    IN
    /\ \A p \in Party :
         /\ Accepted(p) <=> FitsItsCommitments(p)
         /\ Accepted(p) /\ p \in x.spoiled => x.shares[p].commitments # dealt
         /\ p \notin x.spoiled => Accepted(p) /\ x.shares[p].commitments = dealt /\ SurvivesWire(p)
    /\ \A S \in SUBSET Party :
         /\ (\E p \in S : ~FitsItsCommitments(p)) => Reconstruct("x", S) = PS!Err("InvalidShare")
         /\ S \cap x.spoiled = {} =>
              Reconstruct("x", S) = IF Cardinality(S) >= Len(x.coefs) THEN PS!Ok(x.secret)
                                    ELSE PS!Err("NotEnoughShares")

\* The value the i-th sharings of a batch hide, if all sets of more than degree
\* parties agree on it; -1 otherwise.
Hidden(shares, degree) ==
  LET Value(S) == LET list == Ordered(S)
                  IN  PS!SecretFromShares([i \in 1..Len(list) |-> shares[list[i]]], list).value
      big == {S \in SUBSET Party : Cardinality(S) > degree}
  IN  IF \A S \in big : Value(S) = Value(Party) THEN Value(Party) ELSE -1

\* The halves of a double sharing hide one secret, and the last element of a
\* triple hides the product of the other two, for every set of parties that can
\* reconstruct, although the parties list each other in different orders
\* (parties.sort() in rand_share.rs:45, double_rand_share.rs:47, triple.rs:105).
RandomnessCorrelated ==
  /\ prep.double # <<>> =>
       \A i \in 1..(N - T) :
         LET low  == Hidden([p \in Party |-> prep.double[1][p][i].t], T)
             high == Hidden([p \in Party |-> prep.double[1][p][i].twoT], 2 * T)
         IN  low = high /\ low # -1
  /\ prep.triples # <<>> =>
       \A i \in 1..(N - T) :
         LET triple == [p \in Party |-> prep.triples[1][p][i]]
             a == Hidden([p \in Party |-> triple[p].a], T)
             b == Hidden([p \in Party |-> triple[p].b], T)
             c == Hidden([p \in Party |-> triple[p].mult], T)
         IN  a # -1 /\ b # -1 /\ c = (a * b) % M!Modulus

\* Whatever T dealers dealt, the outputs of the extraction still take every value
\* as the secrets of the others do: no other secrets of theirs give the same
\* outputs (extraction_matrix, passive_shamir/mod.rs:56-68).
ExtractionKeepsRandomness ==
  prep.rand # <<>> =>
    LET m == PS!ExtractionMatrix(PS!Sorted(lists[King]), N - T)
        Out(dealt) == PS!MulShares(m, [j \in 1..N |-> PS!Share(dealt[j], T)]).value
    IN  \A corrupt \in SUBSET (1..N) : Cardinality(corrupt) = T =>
          \A dealt \in [1..N -> M!Elem] :
            (\A j \in corrupt : dealt[j] = 0) /\ (\E j \in 1..N : dealt[j] # 0)
              => \E i \in 1..(N - T) : Out(dealt)[i].share # 0
=============================================================================
