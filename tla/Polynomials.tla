---------------------------- MODULE Polynomials -----------------------------
(***************************************************************************)
(* Polynomials over a ring and their interpolation                         *)
(* (src/src/math/poly.rs).  A polynomial is the sequence of its            *)
(* coefficients, the constant one first.  Operations that can fail return  *)
(* a result: [ok |-> TRUE, value |-> v] or [ok |-> FALSE, error |-> e].    *)
(***************************************************************************)
EXTENDS Ring, Sequences, FiniteSets
LOCAL INSTANCE SequencesExt

Ok(v)  == [ok |-> TRUE, value |-> v]
Err(e) == [ok |-> FALSE, error |-> e]

\* Horner's rule, from the highest coefficient down.
Evaluate(poly, x) ==
  FoldRight(LAMBDA coeff, acc : RAdd(coeff, RMul(acc, x)), Front(poly), Last(poly))

Degree(poly) == Len(poly) - 1

\* degree + 1 random coefficients, taken from the elements the generator yields.
RandomPoly(degree, randoms) == SubSeq(randoms, 1, degree + 1)

SetConstantCoeff(poly, value) == [poly EXCEPT ![1] = value]

AllDifferent(list) == Cardinality(ToSet(list)) = Len(list)

\* The Lagrange basis polynomials of the nodes, evaluated at x.
LagrangeBasis(nodes, x) ==
  LET Term(j, m) == RMul(RSub(x, nodes[m]), RInv(RSub(nodes[j], nodes[m])))
      Basis(j) == FoldLeftDomain(LAMBDA acc, m : IF m = j THEN acc ELSE RMul(acc, Term(j, m)),
                                 ROne, nodes)
  IN  [j \in 1..Len(nodes) |-> Basis(j)]

InterpolateAt(evaluations, nodes, x) ==
  LET basis == LagrangeBasis(nodes, x) IN
  CASE nodes = <<>> -> Err("EmptyInterpolation")
    [] Len(nodes) # Len(evaluations) -> Err("LengthMismatch")
    [] ~AllDifferent(nodes) -> Err("NotAllDifferentInterpolation")
    [] OTHER -> Ok(FoldLeftDomain(LAMBDA acc, i : RAdd(acc, RMul(evaluations[i], basis[i])),
                                  RZero, evaluations))
=============================================================================
