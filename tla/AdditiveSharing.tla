-------------------------- MODULE AdditiveSharing ---------------------------
(***************************************************************************)
(* Additive secret sharing over a ring (src/src/ss/additive.rs).  A share  *)
(* records the party that holds it and whether it is the leader, the one   *)
(* party that absorbs public constants.                                    *)
(***************************************************************************)
EXTENDS Ring, Sequences, FiniteSets
LOCAL INSTANCE SequencesExt

Share(value, party, isLeader) == [value |-> value, party |-> party, leader |-> isLeader]

Sum(values) == FoldLeft(LAMBDA acc, v : RAdd(acc, v), RZero, values)

(***************************************************************************)
(* All values but the last are random, the last makes them sum to the      *)
(* secret; the party with the smallest id leads, wherever it stands in the *)
(* list.                                                                   *)
(***************************************************************************)
SharesFromSecret(secret, parties, randoms) ==
  LET masks  == SubSeq(randoms, 1, Len(parties) - 1)
      values == Append(masks, RSub(secret, Sum(masks)))
      IsLeader(p) == \A i \in 1..Len(parties) : p <= parties[i]
  IN  [i \in 1..Len(parties) |-> Share(values[i], parties[i], IsLeader(parties[i]))]

SecretFromShares(shares) == Sum([i \in 1..Len(shares) |-> shares[i].value])

AddShare(x, y) == [x EXCEPT !.value = RAdd(@, y.value)]
SubShare(x, y) == [x EXCEPT !.value = RSub(@, y.value)]
\* Fault: every party adds the constant
AddConstEverywhere(x, c) == [x EXCEPT !.value = RAdd(@, c)]

AddConst(x, c) == IF x.leader THEN [x EXCEPT !.value = RAdd(@, c)] ELSE x
SubConst(x, c) == IF x.leader THEN [x EXCEPT !.value = RSub(@, c)] ELSE x
MulConst(x, c) == [x EXCEPT !.value = RMul(@, c)]
NegShare(x)    == [x EXCEPT !.value = RNeg(@)]
=============================================================================
