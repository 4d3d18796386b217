----------------------------- MODULE FoldLemmas ------------------------------
(***************************************************************************)
(* Lemmas about FoldLeft, the operator the traces are read with: its value *)
(* on the empty sequence, on a sequence with one more element, and its     *)
(* type.  The provers cannot instantiate a theorem that takes an operator, *)
(* so the folded operator is a constant of this module: who folds with an  *)
(* operator of its own instantiates the module with it, and has the lemmas *)
(* for it.                                                                 *)
(*                                                                         *)
(* For the same reason induction is made over sets: a set of naturals that *)
(* holds 0 and the successor of each of its members holds them all, since  *)
(* otherwise its complement had a least element.  FoldLeft is defined by   *)
(* recursion over the subsets of the domain of its sequence: Table says    *)
(* what a table of that recursion is, TableExists and TableUnique that     *)
(* there is just one.                                                      *)
(***************************************************************************)
EXTENDS Integers, Sequences, SequencesExt, SequenceTheorems, WellFoundedInduction, TLAPS

CONSTANTS
  S,         \* the values of the fold
  E,         \* the elements of the folded sequences
  base,      \* the fold of the empty sequence
  Op(_, _)   \* the fold of one more element

\* A set of naturals has a least element.
LEMMA LeastElement ==
  ASSUME NEW Q \in SUBSET Nat, Q # {}
  PROVE  \E m \in Q : \A k \in Q : m <= k
<1>. DEFINE R == OpToRel(<, Nat)
<1>1. IsWellFoundedOn(R, Nat)
  BY NatLessThanWellFounded
<1>2. PICK m \in Q : \A k \in Q : ~ (<<k, m>> \in R)
  BY <1>1, WFMin
<1>3. \A k \in Q : ~(k < m)
  BY <1>2 DEF OpToRel
<1>. QED
  BY <1>3

\* Induction over the naturals, for a property given as the set it holds on.
LEMMA SetInduction ==
  ASSUME NEW Q, 0 \in Q, \A n \in Nat : n \in Q => n + 1 \in Q
  PROVE  Nat \subseteq Q
<1>. SUFFICES ASSUME Nat \ Q # {} PROVE FALSE
  OBVIOUS
<1>1. PICK m \in Nat \ Q : \A k \in Nat \ Q : m <= k
  BY LeastElement
<1>2. m # 0 /\ m - 1 \in Nat
  BY <1>1
<1>3. m - 1 \in Q
  BY <1>1, <1>2
<1>. QED
  BY <1>1, <1>2, <1>3

\* Induction over the sequences, from the front to the back.
LEMMA SeqInduction ==
  ASSUME NEW T, NEW Q, <<>> \in Q, \A s \in Seq(T), e \in T : s \in Q => Append(s, e) \in Q
  PROVE  Seq(T) \subseteq Q
<1>. DEFINE N == {n \in Nat : \A s \in Seq(T) : Len(s) = n => s \in Q}
<1>1. 0 \in N
  <2>1. \A s \in Seq(T) : Len(s) = 0 => s = <<>>
    OBVIOUS
  <2>. QED  BY <2>1
<1>2. ASSUME NEW n \in Nat, n \in N
      PROVE  n + 1 \in N
  <2>. SUFFICES ASSUME NEW s \in Seq(T), Len(s) = n + 1
                PROVE  s \in Q
    OBVIOUS
  <2>1. s # <<>>
    OBVIOUS
  <2>2. PICK r \in Seq(T), e \in T : s = Append(r, e)
    BY <2>1, SequenceEmptyOrAppend
  <2>3. Len(r) = n
    BY <2>2, AppendProperties
  <2>. QED  BY <1>2, <2>2, <2>3
<1>3. \A s \in Seq(T) : Len(s) \in N
  <2>. HIDE DEF N
  <2>. QED  BY <1>1, <1>2, SetInduction
<1>. QED
  BY <1>3

\* The maximum FoldLeft chooses is the last index of its set.
LEMMA MaxOfInterval ==
  ASSUME NEW n \in Nat, NEW d \in SUBSET (1..n), d # {}
  PROVE  /\ Max(d) \in d
         /\ \A k \in d : k <= Max(d)
<1>. DEFINE Above == {n - k : k \in d}
<1>1. Above \in SUBSET Nat /\ Above # {}
  <2>1. \A k \in d : n - k \in Nat
    OBVIOUS
  <2>2. PICK k \in d : TRUE
    OBVIOUS
  <2>3. n - k \in Above
    BY <2>2
  <2>. QED  BY <2>1, <2>3
<1>2. PICK a \in Above : \A b \in Above : a <= b
  BY <1>1, LeastElement
<1>3. PICK m \in d : a = n - m
  BY <1>2
<1>4. \A k \in d : m >= k
  BY <1>2, <1>3
<1>5. \E x \in d : \A y \in d : x >= y
  BY <1>4
<1>6. Max(d) \in d /\ \A y \in d : Max(d) >= y
  BY <1>5, Zenon DEF Max
<1>. QED
  BY <1>6

\* Without its last index a set of indices reaches one less far.
LEMMA WithoutMax ==
  ASSUME NEW n \in Nat, NEW d \in SUBSET (1..n), d # {}, NEW m \in Nat, d \subseteq 1..(m + 1)
  PROVE  /\ d \ {Max(d)} \in SUBSET (1..n)
         /\ d \ {Max(d)} \subseteq 1..m
<1>1. Max(d) \in d /\ \A k \in d : k <= Max(d)
  BY MaxOfInterval
<1>2. ASSUME NEW k \in d
      PROVE  k \in 1..n /\ (k # Max(d) => k \in 1..m)
  <2>1. k \in 1..(m + 1) /\ Max(d) \in 1..(m + 1) /\ k \in 1..n /\ k <= Max(d)
    BY <1>1
  <2>. QED  BY <2>1
<1>3. d \ {Max(d)} \subseteq 1..m
  BY <1>2
<1>4. d \ {Max(d)} \subseteq 1..n
  BY <1>2
<1>. QED
  BY <1>3, <1>4

-----------------------------------------------------------------------------
\* t[d] is the fold of the elements of s at the indices in d, a subset of 1..n.
Table(t, n, s) ==
  t = [d \in SUBSET (1..n) |-> IF d = {} THEN base ELSE Op(t[d \ {Max(d)}], s[Max(d)])]

\* Two tables are the same, and so are their values.
LEMMA TableUnique ==
  ASSUME NEW n \in Nat, NEW s, NEW f, NEW g, Table(f, n, s), Table(g, n, s)
  PROVE  f = g
<1>. DEFINE Q == {m \in Nat : \A d \in SUBSET (1..n) : d \subseteq 1..m => f[d] = g[d]}
<1>1. \A d \in SUBSET (1..n) :
        /\ f[d] = IF d = {} THEN base ELSE Op(f[d \ {Max(d)}], s[Max(d)])
        /\ g[d] = IF d = {} THEN base ELSE Op(g[d \ {Max(d)}], s[Max(d)])
  BY Zenon DEF Table
<1>2. 0 \in Q
  <2>1. \A d : d \subseteq 1..0 => d = {}
    OBVIOUS
  <2>2. f[{}] = g[{}]
    BY <1>1
  <2>. QED  BY <2>1, <2>2
<1>3. ASSUME NEW m \in Nat, m \in Q
      PROVE  m + 1 \in Q
  <2>. SUFFICES ASSUME NEW d \in SUBSET (1..n), d \subseteq 1..(m + 1), d # {}
                PROVE  f[d] = g[d]
    <3>1. ASSUME NEW d \in SUBSET (1..n), d \subseteq 1..(m + 1)
          PROVE  d = {} => f[d] = g[d]
      BY <1>1
    <3>2. m + 1 \in Nat
      OBVIOUS
    <3>. QED  BY <3>1, <3>2, Zenon
  <2>2. d \ {Max(d)} \in SUBSET (1..n) /\ d \ {Max(d)} \subseteq 1..m
    BY WithoutMax
  <2>3. f[d \ {Max(d)}] = g[d \ {Max(d)}]
    BY <1>3, <2>2
  <2>. QED  BY <1>1, <2>3, Zenon
<1>4. n \in Q
  <2>. HIDE DEF Q
  <2>. QED  BY <1>2, <1>3, SetInduction
<1>5. \A d \in SUBSET (1..n) : f[d] = g[d]
  BY <1>4
<1>6. f = [d \in SUBSET (1..n) |-> f[d]] /\ g = [d \in SUBSET (1..n) |-> g[d]]
  BY Zenon DEF Table
<1>. QED
  BY <1>5, <1>6, Zenon

\* The table of one more element: what it was, where the element is not meant.
LEMMA TableExtend ==
  ASSUME NEW m \in Nat, NEW s, NEW t, Table(t, m, s)
  PROVE  \E u : Table(u, m + 1, s)
<1>. DEFINE n == m + 1
            u == [d \in SUBSET (1..n) |-> IF n \in d THEN Op(t[d \ {n}], s[n]) ELSE t[d]]
<1>0. n \in Nat
  OBVIOUS
<1>1. ASSUME NEW d \in SUBSET (1..n)
      PROVE  IF n \in d THEN d \ {n} \in SUBSET (1..m) ELSE d \in SUBSET (1..m)
  OBVIOUS
<1>2. \A d \in SUBSET (1..m) :
        t[d] = IF d = {} THEN base ELSE Op(t[d \ {Max(d)}], s[Max(d)])
  BY Zenon DEF Table
<1>3. ASSUME NEW d \in SUBSET (1..n)
      PROVE  u[d] = IF d = {} THEN base ELSE Op(u[d \ {Max(d)}], s[Max(d)])
  <2>1. CASE d = {}
    <3>1. u[d] = t[d] /\ d \in SUBSET (1..m)
      BY <2>1
    <3>. QED  BY <1>2, <2>1, <3>1
  <2>2. CASE d # {} /\ n \in d
    <3>1. Max(d) \in d /\ \A k \in d : k <= Max(d)
      <4>. HIDE DEF n, u
      <4>. QED  BY <1>0, <2>2, MaxOfInterval
    <3>2. Max(d) = n
      <4>1. n <= Max(d) /\ Max(d) \in 1..n
        BY <2>2, <3>1
      <4>. QED  BY <4>1
    <3>3. d \ {n} \in SUBSET (1..n) /\ ~(n \in d \ {n})
      OBVIOUS
    <3>4. u[d \ {n}] = t[d \ {n}] /\ u[d] = Op(t[d \ {n}], s[n])
      <4>. HIDE DEF n
      <4>. QED  BY <2>2, <3>3, Zenon
    <3>. HIDE DEF n, u
    <3>. QED  BY <2>2, <3>2, <3>4, Zenon
  <2>3. CASE d # {} /\ n \notin d
    <3>1. d \in SUBSET (1..m)
      BY <1>1, <2>3
    <3>2. d \ {Max(d)} \in SUBSET (1..n) /\ n \notin d \ {Max(d)}
      BY <2>3
    <3>3. u[d] = t[d] /\ u[d \ {Max(d)}] = t[d \ {Max(d)}]
      <4>. HIDE DEF n
      <4>. QED  BY <2>3, <3>2, Zenon
    <3>. HIDE DEF u
    <3>. QED  BY <1>2, <2>3, <3>1, <3>3, Zenon
  <2>. QED  BY <2>1, <2>2, <2>3
<1>4. u = [d \in SUBSET (1..n) |-> u[d]]
  OBVIOUS
<1>. HIDE DEF n, u
<1>5. Table(u, n, s)
  BY <1>3, <1>4, Zenon DEF Table
<1>. QED
  BY <1>5 DEF n

\* Every prefix of a sequence has a table.
LEMMA TableExists ==
  ASSUME NEW n \in Nat, NEW s
  PROVE  \E t : Table(t, n, s)
<1>. DEFINE Q == {m \in Nat : \E t : Table(t, m, s)}
<1>1. 0 \in Q
  <2>. DEFINE t == [d \in SUBSET (1..0) |-> base]
  <2>1. \A d \in SUBSET (1..0) : d = {}
    OBVIOUS
  <2>2. t = [d \in SUBSET (1..0) |-> IF d = {} THEN base ELSE Op(t[d \ {Max(d)}], s[Max(d)])]
    BY <2>1, Zenon
  <2>. HIDE DEF t
  <2>3. Table(t, 0, s)
    BY <2>2, Zenon DEF Table
  <2>. QED  BY <2>3
<1>2. ASSUME NEW m \in Nat, m \in Q
      PROVE  m + 1 \in Q
  <2>1. m + 1 \in Nat
    OBVIOUS
  <2>. QED  BY <1>2, <2>1, TableExtend, Zenon
<1>3. n \in Q
  <2>. HIDE DEF Q
  <2>. QED  BY <1>1, <1>2, SetInduction
<1>. QED
  BY <1>3

-----------------------------------------------------------------------------
\* The fold of s, and the table it is read from.
Value(s) == FoldLeft(Op, base, s)

TableOf(s) == CHOOSE t : Table(t, Len(s), s)

LEMMA ValueOfTable ==
  ASSUME NEW s \in Seq(E)
  PROVE  Value(s) = TableOf(s)[1..Len(s)]
<1>1. DOMAIN s = 1..Len(s)
  OBVIOUS
<1>2. Value(s) = (CHOOSE t : Table(t, Len(s), s))[1..Len(s)]
  BY <1>1, Zenon DEF Value, FoldLeft, MapThenFoldSet, Table
<1>. QED
  BY <1>2, Zenon DEF TableOf

LEMMA TableOfIsTable ==
  ASSUME NEW s \in Seq(E)
  PROVE  Table(TableOf(s), Len(s), s)
<1>1. Len(s) \in Nat
  OBVIOUS
<1>. QED
  BY <1>1, TableExists, Zenon DEF TableOf

\* The fold of the empty sequence is the base.
LEMMA FoldEmpty == Value(<<>>) = base
<1>. DEFINE s == <<>>
<1>1. s \in Seq(E) /\ 1..Len(s) = {}
  OBVIOUS
<1>. HIDE DEF s
<1>2. Value(s) = TableOf(s)[{}]
  BY <1>1, ValueOfTable
<1>3. TableOf(s)[{}] = base
  BY <1>1, TableOfIsTable, Zenon DEF Table
<1>. QED
  BY <1>2, <1>3 DEF s

\* The fold of one more element is the operator's value on the fold of the others.
LEMMA FoldAppend ==
  ASSUME NEW s \in Seq(E), NEW e \in E
  PROVE  Value(Append(s, e)) = Op(Value(s), e)
<1>. DEFINE n == Len(s)
            r == Append(s, e)
            v == TableOf(r)
            w == [d \in SUBSET (1..n) |-> v[d]]
            full == 1..(n + 1)
<1>0. /\ n \in Nat /\ n + 1 \in Nat /\ r \in Seq(E) /\ Len(r) = n + 1
      /\ r[n + 1] = e
      /\ \A i \in 1..n : r[i] = s[i]
  OBVIOUS
<1>. HIDE DEF n, r
<1>1. Table(v, n + 1, r)
  BY <1>0, TableOfIsTable
<1>. HIDE DEF v
<1>2. \A d \in SUBSET (1..(n + 1)) :
        v[d] = IF d = {} THEN base ELSE Op(v[d \ {Max(d)}], r[Max(d)])
  BY <1>1, Zenon DEF Table
<1>3. Table(w, n, s)
  <2>1. ASSUME NEW d \in SUBSET (1..n)
        PROVE  w[d] = IF d = {} THEN base ELSE Op(w[d \ {Max(d)}], s[Max(d)])
    <3>1. d \in SUBSET (1..(n + 1)) /\ d \ {Max(d)} \in SUBSET (1..n)
      <4>1. 1..n \subseteq 1..(n + 1)
        BY <1>0
      <4>. QED  BY <4>1
    <3>2. w[d] = v[d] /\ w[d \ {Max(d)}] = v[d \ {Max(d)}]
      BY <3>1, Zenon
    <3>3. d # {} => r[Max(d)] = s[Max(d)]
      BY <1>0, MaxOfInterval
    <3>. HIDE DEF w
    <3>. QED  BY <1>2, <3>1, <3>2, <3>3, Zenon
  <2>2. w = [d \in SUBSET (1..n) |-> w[d]]
    OBVIOUS
  <2>. HIDE DEF w
  <2>. QED  BY <2>1, <2>2, Zenon DEF Table
<1>4. w = TableOf(s)
  BY <1>0, <1>3, TableOfIsTable, TableUnique DEF n
<1>5. v[full] = Op(v[1..n], e)
  <2>1. full \in SUBSET (1..(n + 1)) /\ full # {}
    BY <1>0
  <2>2. Max(full) \in full /\ \A k \in full : k <= Max(full)
    <3>. HIDE DEF full
    <3>. QED  BY <1>0, <2>1, MaxOfInterval
  <2>3. Max(full) = n + 1
    <3>1. Max(full) \in 1..(n + 1) /\ n + 1 <= Max(full)
      BY <1>0, <2>2
    <3>. QED  BY <1>0, <3>1
  <2>4. full \ {Max(full)} = 1..n
    BY <1>0, <2>3
  <2>. HIDE DEF full
  <2>. QED  BY <1>0, <1>2, <2>1, <2>3, <2>4
<1>6. v[1..n] = TableOf(s)[1..n]
  BY <1>4
<1>7. Value(r) = v[full] /\ Value(s) = TableOf(s)[1..n]
  BY <1>0, ValueOfTable DEF v, n
<1>. QED
  BY <1>5, <1>6, <1>7 DEF r

\* The fold has the type that the base has and the operator preserves.
LEMMA FoldType ==
  ASSUME base \in S, \A x \in S, e \in E : Op(x, e) \in S, NEW s \in Seq(E)
  PROVE  Value(s) \in S
<1>. DEFINE t == TableOf(s)
            Q == {m \in Nat : \A d \in SUBSET (1..Len(s)) : d \subseteq 1..m => t[d] \in S}
<1>0. Len(s) \in Nat /\ \A i \in 1..Len(s) : s[i] \in E
  OBVIOUS
<1>1. \A d \in SUBSET (1..Len(s)) :
        t[d] = IF d = {} THEN base ELSE Op(t[d \ {Max(d)}], s[Max(d)])
  BY TableOfIsTable, Zenon DEF Table
<1>. HIDE DEF t
<1>2. 0 \in Q
  <2>1. \A d : d \subseteq 1..0 => d = {}
    OBVIOUS
  <2>2. t[{}] = base
    BY <1>1
  <2>. QED  BY <2>1, <2>2
<1>3. ASSUME NEW m \in Nat, m \in Q
      PROVE  m + 1 \in Q
  <2>. SUFFICES ASSUME NEW d \in SUBSET (1..Len(s)), d \subseteq 1..(m + 1)
                PROVE  t[d] \in S
    <3>1. m + 1 \in Nat
      OBVIOUS
    <3>. QED  BY <3>1, Zenon
  <2>1. CASE d = {}
    BY <1>1, <2>1, Zenon
  <2>2. CASE d # {}
    <3>1. Max(d) \in d /\ \A k \in d : k <= Max(d)
      BY <1>0, <2>2, MaxOfInterval
    <3>2. d \ {Max(d)} \in SUBSET (1..Len(s)) /\ d \ {Max(d)} \subseteq 1..m
      BY <1>0, <2>2, WithoutMax
    <3>3. t[d \ {Max(d)}] \in S /\ s[Max(d)] \in E
      BY <1>0, <1>3, <3>1, <3>2
    <3>. QED  BY <1>1, <2>2, <3>3, Zenon
  <2>. QED  BY <2>1, <2>2
<1>4. Len(s) \in Q
  <2>. HIDE DEF Q
  <2>. QED  BY <1>0, <1>2, <1>3, SetInduction
<1>5. t[1..Len(s)] \in S
  BY <1>4
<1>. QED
  BY <1>5, ValueOfTable DEF t

=============================================================================
