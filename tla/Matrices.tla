------------------------------ MODULE Matrices ------------------------------
(***************************************************************************)
(* The part of matrices and vectors the protocols compute with             *)
(* (src/src/math/matrix.rs, vector.rs), over Shamir shares: a matrix of    *)
(* public constants applied to a vector of shares.  Elements are stored    *)
(* row by row in one vector; rows and columns count from 0.                *)
(***************************************************************************)
EXTENDS ShamirSharing
LOCAL INSTANCE SequencesExt

Matrix(rows, columns, elements) ==
  [rows |-> rows, columns |-> columns, elements |-> elements]

Get(m, i, j) == m.elements[m.columns * i + j + 1]

\* The matrix whose entry (i, j) is entry[i, j].
FromEntries(rows, columns, entry) ==
  Matrix(rows, columns,
         [k \in 1..(rows * columns) |-> entry[(k - 1) \div columns, (k - 1) % columns]])

\* Fault: the columns after the first are left at one
VandermondeOnes(values, c) ==
  FromEntries(Len(values), c, [i \in 0..(Len(values) - 1), j \in 0..(c - 1) |-> ROne])

\* One row per value, its geometric progression: 1, v, v^2, ... up to c columns.
Vandermonde(values, c) ==
  LET Entry[i \in 0..(Len(values) - 1), j \in 0..(c - 1)] ==
        IF j = 0 THEN ROne ELSE RMul(Entry[i, j - 1], values[i + 1])
  IN  FromEntries(Len(values), c, Entry)

Transpose(m) ==
  FromEntries(m.columns, m.rows,
              [i \in 0..(m.columns - 1), j \in 0..(m.rows - 1) |-> Get(m, j, i)])

\* Row by row, the linear combination of the shares; the first term seeds the sum.
MulShares(m, shares) ==
  LET Term(i, j) == MulConst(shares[j + 1], Get(m, i, j))
      Row(i) == FoldLeft(LAMBDA sum, j : AddShare(sum, Term(i, j)),
                         Term(i, 0), [j \in 1..(m.columns - 1) |-> j])
  IN  IF m.columns # Len(shares) THEN Err("NotCompatible")
      ELSE Ok([i \in 1..m.rows |-> Row(i - 1)])

\* Vector::add_shares: every constant is added to the share at its position.
AddShares(constants, shares) ==
  IF Len(constants) # Len(shares) THEN Err("IncompatibleDimension")
  ELSE Ok([i \in 1..Len(shares) |-> AddConst(shares[i], constants[i])])

\* Fault: the shares are left as they are.
SharesKept(shares) == shares

\* Negation of a vector of shares.
NegShares(shares) == [i \in 1..Len(shares) |-> NegShare(shares[i])]
=============================================================================
