--------------------------- MODULE BandwidthProofs ----------------------------
(***************************************************************************)
(* The bytes of a simulated run: proof of BandwidthAccounted, for every    *)
(* network, every choice of packets and protocols, and calls nested and    *)
(* repeated as they may be.                                                *)
(***************************************************************************)
EXTENDS Bandwidth, TraceProofs

-----------------------------------------------------------------------------
(***************************************************************************)
(* The folds of Bandwidth.                                                 *)
(***************************************************************************)
Path == Seq(ProtocolId)

Call == [path : Path, bytes : Nat]

Listing == [found : Seq(Call), open : Seq(Nat)]

AccountsOf(keys) == UNION {[D -> Nat] : D \in SUBSET keys}

CallFold == INSTANCE FoldLemmas
  WITH S <- Listing, E <- Event, base <- RootCall, Op <- Called

LineFold == INSTANCE FoldLemmas
  WITH S <- Seq(Call), E <- Call, base <- <<>>, Op <- AddLine

PathFold == INSTANCE FoldLemmas
  WITH S <- AccountsOf(Path), E <- Call, base <- <<>>, Op <- AddTo

ByteFold == INSTANCE FoldLemmas
  WITH S <- Nat, E <- Call, base <- 0, Op <- AddBytes

SumFold == INSTANCE FoldLemmas
  WITH S <- Nat, E <- Nat, base <- 0, Op <- LAMBDA sum, n : sum + n

HookFold == INSTANCE FoldLemmas
  WITH S <- {}, E <- Event, base <- metric, Op <- MetricHook

LEMMA CallsAppend ==
  /\ Calls(<<>>) = RootCall
  /\ \A trace \in Seq(Event), e \in Event :
       Calls(Append(trace, e)) = Called(Calls(trace), e)
<1>1. ASSUME NEW trace PROVE Calls(trace) = CallFold!Value(trace)
  BY Zenon DEF Calls, CallFold!Value, FoldLeft, MapThenFoldSet, Max,
               CallFold!FoldLeft, CallFold!MapThenFoldSet, CallFold!Max
<1>. QED  BY <1>1, CallFold!FoldEmpty, CallFold!FoldAppend, Zenon

LEMMA LinesAppend ==
  /\ Lines(<<>>) = <<>>
  /\ \A found \in Seq(Call), call \in Call :
       Lines(Append(found, call)) = AddLine(Lines(found), call)
  /\ \A found \in Seq(Call) : Lines(found) \in Seq(Call)
<1>1. ASSUME NEW found PROVE Lines(found) = LineFold!Value(found)
  BY Zenon DEF Lines, LineFold!Value, FoldLeft, MapThenFoldSet, Max,
               LineFold!FoldLeft, LineFold!MapThenFoldSet, LineFold!Max
<1>2. \A lines \in Seq(Call), call \in Call : AddLine(lines, call) \in Seq(Call)
  BY AppendProperties DEF AddLine
<1>3. <<>> \in Seq(Call)
  OBVIOUS
<1>. QED  BY <1>1, <1>2, <1>3, LineFold!FoldEmpty, LineFold!FoldAppend, LineFold!FoldType, Zenon

LEMMA AddToType ==
  ASSUME NEW account \in AccountsOf(Path), NEW line \in Call
  PROVE  /\ AddTo(account, line) \in AccountsOf(Path)
         /\ DOMAIN AddTo(account, line) = DOMAIN account \cup {line.path}
         /\ \A key : AmountAt(account, key) \in Nat
         /\ \A key : AmountAt(AddTo(account, line), key) =
                       AmountAt(account, key) + (IF key = line.path THEN line.bytes ELSE 0)
<1>0. line.path \in Path /\ line.bytes \in Nat
  BY DEF Call
<1>1. PICK D \in SUBSET Path : account \in [D -> Nat]
  BY DEF AccountsOf
<1>2. \A key : AmountAt(account, key) \in Nat
  BY <1>1 DEF AmountAt
<1>3. D \cup {line.path} \in SUBSET Path /\ DOMAIN account = D
  BY <1>0, <1>1
<1>4. AddTo(account, line) \in [D \cup {line.path} -> Nat]
  BY <1>0, <1>2, <1>3 DEF AddTo
<1>5. AddTo(account, line) \in AccountsOf(Path)
  BY <1>3, <1>4 DEF AccountsOf
<1>6. ASSUME NEW key
      PROVE  AmountAt(AddTo(account, line), key) =
               AmountAt(account, key) + (IF key = line.path THEN line.bytes ELSE 0)
  BY <1>0, <1>2, <1>3 DEF AmountAt, AddTo
<1>. QED  BY <1>2, <1>3, <1>5, <1>6 DEF AddTo

LEMMA EmptyAccount ==
  ASSUME NEW keys
  PROVE  <<>> \in AccountsOf(keys) /\ DOMAIN <<>> = {}
<1>1. DOMAIN <<>> = {}
  OBVIOUS
<1>2. <<>> \in [{} -> Nat]
  OBVIOUS
<1>. QED  BY <1>1, <1>2 DEF AccountsOf

LEMMA ByPathAppend ==
  /\ ByPath(<<>>) = <<>>
  /\ \A lines \in Seq(Call), call \in Call :
       ByPath(Append(lines, call)) = AddTo(ByPath(lines), call)
  /\ \A lines \in Seq(Call) : ByPath(lines) \in AccountsOf(Path)
<1>1. ASSUME NEW lines PROVE ByPath(lines) = PathFold!Value(lines)
  BY Zenon DEF ByPath, PathFold!Value, FoldLeft, MapThenFoldSet, Max,
               PathFold!FoldLeft, PathFold!MapThenFoldSet, PathFold!Max
<1>2. \A account \in AccountsOf(Path), call \in Call : AddTo(account, call) \in AccountsOf(Path)
  BY AddToType
<1>3. <<>> \in AccountsOf(Path)
  BY EmptyAccount
<1>. QED  BY <1>1, <1>2, <1>3, PathFold!FoldEmpty, PathFold!FoldAppend, PathFold!FoldType, Zenon

LEMMA BytesAppend ==
  /\ BytesOf(<<>>) = 0
  /\ \A lines \in Seq(Call), call \in Call :
       BytesOf(Append(lines, call)) = BytesOf(lines) + call.bytes
  /\ \A lines \in Seq(Call) : BytesOf(lines) \in Nat
<1>1. ASSUME NEW lines PROVE BytesOf(lines) = ByteFold!Value(lines)
  BY Zenon DEF BytesOf, ByteFold!Value, FoldLeft, MapThenFoldSet, Max,
               ByteFold!FoldLeft, ByteFold!MapThenFoldSet, ByteFold!Max
<1>2. \A n \in Nat, call \in Call : AddBytes(n, call) \in Nat
  BY DEF AddBytes, Call
<1>3. 0 \in Nat
  OBVIOUS
<1>. QED
  BY <1>1, <1>2, <1>3, ByteFold!FoldEmpty, ByteFold!FoldAppend, ByteFold!FoldType,
     Zenon DEF AddBytes

LEMMA SumAppend ==
  /\ SumOf(<<>>) = 0
  /\ \A amounts \in Seq(Nat), n \in Nat : SumOf(Append(amounts, n)) = SumOf(amounts) + n
  /\ \A amounts \in Seq(Nat) : SumOf(amounts) \in Nat
<1>1. ASSUME NEW amounts PROVE SumOf(amounts) = SumFold!Value(amounts)
  BY Zenon DEF SumOf, SumFold!Value, FoldLeft, MapThenFoldSet, Max,
               SumFold!FoldLeft, SumFold!MapThenFoldSet, SumFold!Max
<1>2. \A m \in Nat, n \in Nat : m + n \in Nat
  OBVIOUS
<1>3. 0 \in Nat
  OBVIOUS
<1>. QED  BY <1>1, <1>2, <1>3, SumFold!FoldEmpty, SumFold!FoldAppend, SumFold!FoldType, Zenon

\* The hook ignores all but the sends to others.
LEMMA HookQuiet ==
  ASSUME NEW recorded \in Seq(Event), \A i \in 1..Len(recorded) : ~Counts(recorded[i])
  PROVE  FoldLeft(MetricHook, metric, recorded) = metric
<1>. DEFINE V(r) == FoldLeft(MetricHook, metric, r)
            Q == {r \in Seq(Event) : (\A i \in 1..Len(r) : ~Counts(r[i])) => V(r) = metric}
<1>1. ASSUME NEW r PROVE V(r) = HookFold!Value(r)
  BY Zenon DEF HookFold!Value, FoldLeft, MapThenFoldSet, Max,
               HookFold!FoldLeft, HookFold!MapThenFoldSet, HookFold!Max
<1>. HIDE DEF V
<1>2. V(<<>>) = metric
  BY <1>1, HookFold!FoldEmpty, Zenon
<1>3. \A r \in Seq(Event), e \in Event : V(Append(r, e)) = MetricHook(V(r), e)
  BY <1>1, HookFold!FoldAppend, Zenon
<1>4. <<>> \in Q
  BY <1>2
<1>5. ASSUME NEW r \in Seq(Event), NEW e \in Event, r \in Q
      PROVE  Append(r, e) \in Q
  <2>1. /\ Append(r, e) \in Seq(Event) /\ Len(Append(r, e)) = Len(r) + 1 /\ Len(r) \in Nat
        /\ Append(r, e)[Len(r) + 1] = e
        /\ \A i \in 1..Len(r) : Append(r, e)[i] = r[i]
    BY AppendProperties
  <2>2. ASSUME \A i \in 1..Len(Append(r, e)) : ~Counts(Append(r, e)[i])
        PROVE  V(Append(r, e)) = metric
    <3>1. ~Counts(e) /\ \A i \in 1..Len(r) : ~Counts(r[i])
      BY <2>1, <2>2
    <3>2. V(r) = metric
      BY <1>5, <3>1
    <3>. QED  BY <1>3, <3>1, <3>2 DEF MetricHook
  <2>. QED  BY <2>1, <2>2
<1>6. recorded \in Q
  <2>. HIDE DEF Q
  <2>. QED  BY <1>4, <1>5, ScopeFold!SeqInduction
<1>. QED  BY <1>6 DEF V

LEMMA HookOne ==
  ASSUME NEW e \in Event
  PROVE  FoldLeft(MetricHook, metric, <<e>>) = MetricHook(metric, e)
<1>. DEFINE V(r) == FoldLeft(MetricHook, metric, r)
<1>1. ASSUME NEW r PROVE V(r) = HookFold!Value(r)
  BY Zenon DEF HookFold!Value, FoldLeft, MapThenFoldSet, Max,
               HookFold!FoldLeft, HookFold!MapThenFoldSet, HookFold!Max
<1>. HIDE DEF V
<1>2. V(<<>>) = metric
  BY <1>1, HookFold!FoldEmpty, Zenon
<1>3. \A r \in Seq(Event) : V(Append(r, e)) = MetricHook(V(r), e)
  BY <1>1, HookFold!FoldAppend, Zenon
<1>4. <<>> \in Seq(Event) /\ Append(<<>>, e) = <<e>>
  OBVIOUS
<1>5. V(Append(<<>>, e)) = MetricHook(metric, e)
  BY <1>2, <1>3, <1>4
<1>. QED  BY <1>4, <1>5 DEF V

Put(s, j, u) == [s EXCEPT ![j] = u]

\* F[s] sums the weights W of the elements of s.
Sums(T, F, W) ==
  /\ \A r \in Seq(T) : F[r] \in Nat
  /\ \A e \in T : W[e] \in Nat
  /\ \A r \in Seq(T), e \in T : F[Append(r, e)] = F[r] + W[e]

\* Replacing one element of a sequence moves a sum over it by the difference.
LEMMA SumReplace ==
  ASSUME NEW T, NEW F, NEW W, Sums(T, F, W),
         NEW s \in Seq(T), NEW j \in 1..Len(s), NEW u \in T
  PROVE  F[Put(s, j, u)] + W[s[j]] = F[s] + W[u]
<1>. DEFINE Q == {r \in Seq(T) : \A i \in 1..Len(r) : F[Put(r, i, u)] + W[r[i]] = F[r] + W[u]}
<1>1. <<>> \in Q
  OBVIOUS
<1>2. ASSUME NEW r \in Seq(T), NEW i \in 1..Len(r)
      PROVE  Put(r, i, u) \in Seq(T)
  BY ExceptSeq DEF Put
<1>3. ASSUME NEW r \in Seq(T), NEW e \in T
      PROVE  /\ Put(Append(r, e), Len(r) + 1, u) = Append(r, u)
             /\ \A i \in 1..Len(r) : Put(Append(r, e), i, u) = Append(Put(r, i, u), e)
  BY ReplaceInAppend DEF Put
<1>4. ASSUME NEW r \in Seq(T), NEW e \in T, r \in Q
      PROVE  Append(r, e) \in Q
  <2>. DEFINE n == Len(r)
              x == Append(r, e)
  <2>1. /\ x \in Seq(T) /\ Len(x) = n + 1 /\ n \in Nat
        /\ x[n + 1] = e
        /\ \A i \in 1..n : x[i] = r[i]
    BY AppendProperties
  <2>2. F[x] = F[r] + W[e] /\ F[r] \in Nat /\ W[e] \in Nat /\ W[u] \in Nat
    BY DEF Sums
  <2>3. /\ Put(x, n + 1, u) = Append(r, u)
        /\ \A i \in 1..n : Put(x, i, u) = Append(Put(r, i, u), e)
    BY <1>3
  <2>. HIDE DEF n, x
  <2>4. ASSUME NEW i \in 1..(n + 1)
        PROVE  F[Put(x, i, u)] + W[x[i]] = F[x] + W[u]
    <3>1. CASE i = n + 1
      <4>1. F[Append(r, u)] = F[r] + W[u]
        BY DEF Sums
      <4>2. Put(x, i, u) = Append(r, u) /\ x[i] = e
        BY <2>1, <2>3, <3>1
      <4>3. (F[r] + W[u]) + W[e] = (F[r] + W[e]) + W[u]
        BY <2>2
      <4>. QED  BY <2>2, <4>1, <4>2, <4>3
    <3>2. CASE i \in 1..n
      <4>1. Put(r, i, u) \in Seq(T) /\ r[i] \in T
        BY <1>2, <3>2 DEF n
      <4>2. F[Append(Put(r, i, u), e)] = F[Put(r, i, u)] + W[e]
        BY <4>1 DEF Sums
      <4>3. F[Put(r, i, u)] + W[r[i]] = F[r] + W[u]
        BY <1>4, <3>2 DEF n
      <4>4. F[Put(r, i, u)] \in Nat /\ W[r[i]] \in Nat
        BY <4>1 DEF Sums
      <4>5. Put(x, i, u) = Append(Put(r, i, u), e) /\ x[i] = r[i]
        BY <2>1, <2>3, <3>2
      <4>6. (F[Put(r, i, u)] + W[e]) + W[r[i]] = (F[r] + W[e]) + W[u]
        <5>. DEFINE a == F[Put(r, i, u)]
                    b == W[r[i]]
                    c == F[r]
                    d == W[u]
                    k == W[e]
        <5>1. /\ a \in Nat /\ b \in Nat /\ c \in Nat /\ d \in Nat /\ k \in Nat
              /\ a + b = c + d
          BY <2>2, <4>3, <4>4
        <5>2. (a + k) + b = (c + k) + d
          <6>. HIDE DEF a, b, c, d, k
          <6>. QED  BY <5>1
        <5>. QED  BY <5>2
      <4>. QED  BY <2>2, <4>2, <4>5, <4>6
    <3>. QED  BY <2>1, <3>1, <3>2
  <2>. QED  BY <2>1, <2>4 DEF x
<1>5. s \in Q
  <2>. HIDE DEF Q
  <2>. QED  BY <1>1, <1>4, ScopeFold!SeqInduction
<1>. QED  BY <1>5

-----------------------------------------------------------------------------
(***************************************************************************)
(* The accounts of a list of calls.                                        *)
(***************************************************************************)
Amount(found, path) == AmountAt(ByPath(Lines(found)), path)

Bytes(found) == BytesOf(Lines(found))

LEMMA AmountTypes ==
  ASSUME NEW found \in Seq(Call)
  PROVE  /\ \A path : Amount(found, path) \in Nat
         /\ Bytes(found) \in Nat
         /\ ByPath(Lines(found)) \in AccountsOf(Path)
<1>1. Lines(found) \in Seq(Call)
  BY LinesAppend
<1>2. ByPath(Lines(found)) \in AccountsOf(Path) /\ Bytes(found) \in Nat
  BY <1>1, ByPathAppend, BytesAppend DEF Bytes
<1>3. \A path : Amount(found, path) \in Nat
  BY <1>2 DEF AccountsOf, AmountAt, Amount
<1>. QED  BY <1>2, <1>3

LEMMA NothingFound ==
  /\ \A path : Amount(<<>>, path) = 0
  /\ Bytes(<<>>) = 0
  /\ DOMAIN ByPath(Lines(<<>>)) = {}
<1>1. ByPath(Lines(<<>>)) = <<>> /\ Bytes(<<>>) = 0
  BY LinesAppend, ByPathAppend, BytesAppend DEF Bytes
<1>2. DOMAIN <<>> = {}
  OBVIOUS
<1>. QED  BY <1>1, <1>2 DEF Amount, AmountAt

LEMMA AmountAppend ==
  ASSUME NEW found \in Seq(Call), NEW call \in Call
  PROVE  /\ \A path : Amount(Append(found, call), path) =
                        Amount(found, path) + (IF path = call.path THEN call.bytes ELSE 0)
         /\ Bytes(Append(found, call)) = Bytes(found) + call.bytes
         /\ DOMAIN ByPath(Lines(Append(found, call))) =
              DOMAIN ByPath(Lines(found)) \cup (IF call.bytes > 0 THEN {call.path} ELSE {})
<1>. DEFINE lines == Lines(found)
<1>1. /\ lines \in Seq(Call) /\ Lines(Append(found, call)) = AddLine(lines, call)
      /\ call.path \in Path /\ call.bytes \in Nat
      /\ ByPath(lines) \in AccountsOf(Path) /\ BytesOf(lines) \in Nat
  BY LinesAppend, ByPathAppend, BytesAppend DEF Call
<1>2. \A path : AmountAt(ByPath(lines), path) \in Nat
  BY <1>1 DEF AccountsOf, AmountAt
<1>. HIDE DEF lines
<1>3. CASE call.bytes = 0
  <2>1. Lines(Append(found, call)) = lines
    BY <1>1, <1>3 DEF AddLine
  <2>. QED  BY <1>1, <1>2, <1>3, <2>1 DEF Amount, Bytes, lines
<1>4. CASE call.bytes > 0
  <2>1. Lines(Append(found, call)) = Append(lines, call)
    BY <1>1, <1>4 DEF AddLine
  <2>2. /\ ByPath(Append(lines, call)) = AddTo(ByPath(lines), call)
        /\ BytesOf(Append(lines, call)) = BytesOf(lines) + call.bytes
    BY <1>1, ByPathAppend, BytesAppend
  <2>3. /\ DOMAIN AddTo(ByPath(lines), call) = DOMAIN ByPath(lines) \cup {call.path}
        /\ \A path : AmountAt(AddTo(ByPath(lines), call), path) =
             AmountAt(ByPath(lines), path) + (IF path = call.path THEN call.bytes ELSE 0)
    BY <1>1, AddToType
  <2>4. \A path : Amount(Append(found, call), path) =
                     Amount(found, path) + (IF path = call.path THEN call.bytes ELSE 0)
    BY <2>1, <2>2, <2>3, Zenon DEF Amount, lines
  <2>5. Bytes(Append(found, call)) = Bytes(found) + call.bytes
    BY <2>1, <2>2, Zenon DEF Bytes, lines
  <2>6. DOMAIN ByPath(Lines(Append(found, call))) = DOMAIN ByPath(Lines(found)) \cup {call.path}
    BY <2>1, <2>2, <2>3, Zenon DEF lines
  <2>. QED  BY <1>4, <2>4, <2>5, <2>6
<1>. QED  BY <1>1, <1>3, <1>4

\* A path with an amount is the path of a call that sent bytes.
LEMMA PathsFound ==
  ASSUME NEW found \in Seq(Call), NEW path \in DOMAIN ByPath(Lines(found))
  PROVE  \E i \in 1..Len(found) : found[i].path = path /\ found[i].bytes > 0
<1>. DEFINE Q == {r \in Seq(Call) : \A x \in DOMAIN ByPath(Lines(r)) :
                    \E i \in 1..Len(r) : r[i].path = x /\ r[i].bytes > 0}
<1>1. <<>> \in Q
  BY NothingFound
<1>2. ASSUME NEW r \in Seq(Call), NEW call \in Call, r \in Q
      PROVE  Append(r, call) \in Q
  <2>. DEFINE more == Append(r, call)
  <2>1. /\ more \in Seq(Call) /\ Len(more) = Len(r) + 1 /\ Len(r) \in Nat
        /\ more[Len(r) + 1] = call
        /\ \A i \in 1..Len(r) : more[i] = r[i]
    BY AppendProperties
  <2>2. DOMAIN ByPath(Lines(more)) =
          DOMAIN ByPath(Lines(r)) \cup (IF call.bytes > 0 THEN {call.path} ELSE {})
    BY AmountAppend
  <2>. HIDE DEF more
  <2>3. ASSUME NEW x \in DOMAIN ByPath(Lines(more))
        PROVE  \E i \in 1..Len(more) : more[i].path = x /\ more[i].bytes > 0
    <3>1. CASE x \in DOMAIN ByPath(Lines(r))
      <4>1. PICK i \in 1..Len(r) : r[i].path = x /\ r[i].bytes > 0
        BY <1>2, <3>1
      <4>2. i \in 1..Len(more) /\ more[i] = r[i]
        BY <2>1, <4>1
      <4>. QED  BY <4>1, <4>2
    <3>2. CASE call.bytes > 0 /\ x = call.path
      <4>1. Len(r) + 1 \in 1..Len(more)
        BY <2>1
      <4>. QED  BY <2>1, <3>2, <4>1
    <3>. QED  BY <2>2, <2>3, <3>1, <3>2
  <2>4. more \in Q
    BY <2>1, <2>3
  <2>. QED  BY <2>4 DEF more
<1>3. found \in Q
  <2>. HIDE DEF Q
  <2>. QED  BY <1>1, <1>2, ScopeFold!SeqInduction
<1>. QED  BY <1>3

Bump(found, j, n) == [found EXCEPT ![j].bytes = @ + n]

\* A call that sends n bytes more adds them to its path, and to the sum.
LEMMA AmountBump ==
  ASSUME NEW found \in Seq(Call), NEW j \in 1..Len(found), NEW n \in Nat
  PROVE  LET more == Bump(found, j, n)
         IN  /\ more \in Seq(Call) /\ Len(more) = Len(found)
             /\ \A i \in 1..Len(found) : more[i].path = found[i].path
             /\ \A i \in 1..Len(found) : i # j => more[i] = found[i]
             /\ \A path : Amount(more, path) =
                            Amount(found, path) + (IF path = found[j].path THEN n ELSE 0)
             /\ Bytes(more) = Bytes(found) + n
<1>. DEFINE u == [path |-> found[j].path, bytes |-> found[j].bytes + n]
            more == [found EXCEPT ![j] = u]
<1>1. found[j] \in Call /\ found[j].path \in Path /\ found[j].bytes \in Nat
  <2>1. found[j] \in Call
    OBVIOUS
  <2>. QED  BY <2>1 DEF Call
<1>2. u \in Call /\ u.path = found[j].path /\ u.bytes = found[j].bytes + n
  BY <1>1 DEF Call
<1>3. Bump(found, j, n) = more
  <2>1. [found[j] EXCEPT !.bytes = @ + n] = u
    BY <1>1 DEF Call
  <2>. QED  BY <2>1 DEF Bump
<1>. HIDE DEF u
<1>4. /\ more \in Seq(Call) /\ Len(more) = Len(found)
      /\ \A i \in 1..Len(found) : more[i] = IF i = j THEN u ELSE found[i]
  BY <1>2, ExceptSeq
<1>5. ASSUME NEW path
      PROVE  Amount(more, path) = Amount(found, path) + (IF path = found[j].path THEN n ELSE 0)
  <2>. DEFINE F == [s \in Seq(Call) |-> Amount(s, path)]
              W == [e \in Call |-> IF path = e.path THEN e.bytes ELSE 0]
  <2>1. \A s \in Seq(Call) : F[s] \in Nat
    BY AmountTypes
  <2>2. \A e \in Call : W[e] \in Nat
    BY DEF Call
  <2>3. ASSUME NEW s \in Seq(Call), NEW e \in Call
        PROVE  F[Append(s, e)] = F[s] + W[e]
    <3>1. Append(s, e) \in Seq(Call)
      BY AppendProperties
    <3>. QED  BY <3>1, AmountAppend
  <2>4. F[more] + W[found[j]] = F[found] + W[u]
    <3>1. Sums(Call, F, W)
      <4>. HIDE DEF F, W, more
      <4>. QED  BY <2>1, <2>2, <2>3 DEF Sums
    <3>2. Put(found, j, u) = more
      BY DEF Put
    <3>. HIDE DEF F, W, more
    <3>. QED  BY <1>2, <3>1, <3>2, SumReplace
  <2>5. F[more] = Amount(more, path) /\ F[found] = Amount(found, path)
    <3>. HIDE DEF more
    <3>. QED  BY <1>4
  <2>6. /\ W[found[j]] = (IF path = found[j].path THEN found[j].bytes ELSE 0)
        /\ W[u] = (IF path = found[j].path THEN found[j].bytes + n ELSE 0)
    BY <1>1, <1>2
  <2>7. Amount(more, path) \in Nat /\ Amount(found, path) \in Nat
    <3>. HIDE DEF more
    <3>. QED  BY <1>4, AmountTypes
  <2>. HIDE DEF F, W, more
  <2>. QED  BY <1>1, <2>4, <2>5, <2>6, <2>7
<1>6. Bytes(more) = Bytes(found) + n
  <2>. DEFINE F == [s \in Seq(Call) |-> Bytes(s)]
              W == [e \in Call |-> e.bytes]
  <2>1. \A s \in Seq(Call) : F[s] \in Nat
    BY AmountTypes
  <2>2. \A e \in Call : W[e] \in Nat
    BY DEF Call
  <2>3. ASSUME NEW s \in Seq(Call), NEW e \in Call
        PROVE  F[Append(s, e)] = F[s] + W[e]
    <3>1. Append(s, e) \in Seq(Call)
      BY AppendProperties
    <3>. QED  BY <3>1, AmountAppend
  <2>4. F[more] + W[found[j]] = F[found] + W[u]
    <3>1. Sums(Call, F, W)
      <4>. HIDE DEF F, W, more
      <4>. QED  BY <2>1, <2>2, <2>3 DEF Sums
    <3>2. Put(found, j, u) = more
      BY DEF Put
    <3>. HIDE DEF F, W, more
    <3>. QED  BY <1>2, <3>1, <3>2, SumReplace
  <2>5. F[more] = Bytes(more) /\ F[found] = Bytes(found)
    <3>. HIDE DEF more
    <3>. QED  BY <1>4
  <2>6. W[found[j]] = found[j].bytes /\ W[u] = found[j].bytes + n
    BY <1>1, <1>2
  <2>7. Bytes(more) \in Nat /\ Bytes(found) \in Nat
    <3>. HIDE DEF more
    <3>. QED  BY <1>4, AmountTypes
  <2>. HIDE DEF F, W, more
  <2>. QED  BY <1>1, <2>4, <2>5, <2>6, <2>7
<1>7. \A i \in 1..Len(found) : more[i].path = found[i].path /\ (i # j => more[i] = found[i])
  BY <1>2, <1>4
<1>. HIDE DEF more
<1>. QED  BY <1>3, <1>4, <1>5, <1>6, <1>7

-----------------------------------------------------------------------------
(***************************************************************************)
(* The calls found in a trace that have not ended are those the party is   *)
(* running, each with the chain of protocols that led to it.               *)
(***************************************************************************)
PathOK(path, running, k) ==
  /\ Len(path) = k /\ path[1] = Simulation
  /\ \A j \in 1..(k - 1) : path[j + 1] = running[j]

OpenOK(list, running) ==
  /\ list \in Listing
  /\ Len(list.open) = Len(running) + 1
  /\ \A k \in 1..Len(list.open) :
       /\ list.open[k] \in 1..Len(list.found)
       /\ PathOK(list.found[list.open[k]].path, running, k)

Chain(c) == <<Simulation>> \o c

LEMMA Chains ==
  /\ \A c \in Path : Chain(c) \in Path
  /\ \A c, d \in Path : Chain(c) = Chain(d) => c = d
  /\ \A c \in Path, path \in Path : PathOK(path, c, Len(c) + 1) => path = Chain(c)
<1>1. <<Simulation>> \in Path /\ Len(<<Simulation>>) = 1 /\ <<Simulation>>[1] = Simulation
  BY DEF Path, ProtocolId
<1>2. ASSUME NEW c \in Path
      PROVE  /\ Chain(c) \in Path /\ Len(Chain(c)) = Len(c) + 1 /\ Len(c) \in Nat
             /\ Chain(c)[1] = Simulation
             /\ \A j \in 1..Len(c) : Chain(c)[j + 1] = c[j]
  <2>1. /\ Chain(c) \in Path /\ Len(Chain(c)) = 1 + Len(c) /\ Len(c) \in Nat
        /\ \A i \in 1..(1 + Len(c)) :
             Chain(c)[i] = IF i <= 1 THEN <<Simulation>>[i] ELSE c[i - 1]
    <3>. DEFINE one == <<Simulation>>
    <3>1. one \in Seq(ProtocolId) /\ Len(one) = 1 /\ c \in Seq(ProtocolId)
      BY <1>1 DEF Path
    <3>. HIDE DEF one
    <3>2. /\ one \o c \in Seq(ProtocolId) /\ Len(one \o c) = Len(one) + Len(c)
          /\ \A i \in 1..(Len(one) + Len(c)) :
               (one \o c)[i] = IF i <= Len(one) THEN one[i] ELSE c[i - Len(one)]
      BY <3>1, ConcatProperties
    <3>3. Chain(c) = one \o c
      BY DEF Chain, one
    <3>. QED  BY <3>1, <3>2, <3>3 DEF Path, one
  <2>2. Chain(c)[1] = Simulation
    BY <1>1, <2>1
  <2>3. ASSUME NEW j \in 1..Len(c) PROVE Chain(c)[j + 1] = c[j]
    BY <2>1
  <2>. QED  BY <2>1, <2>2, <2>3
<1>3. ASSUME NEW c \in Path, NEW d \in Path, Chain(c) = Chain(d)
      PROVE  c = d
  <2>1. Len(c) = Len(d) /\ c \in Seq(ProtocolId) /\ d \in Seq(ProtocolId)
    BY <1>2, <1>3 DEF Path
  <2>2. \A i \in 1..Len(c) : c[i] = d[i]
    BY <1>2, <1>3, <2>1
  <2>. QED  BY <2>1, <2>2, SeqEqual
<1>4. ASSUME NEW c \in Path, NEW path \in Path, PathOK(path, c, Len(c) + 1)
      PROVE  path = Chain(c)
  <2>1. /\ path \in Seq(ProtocolId) /\ Chain(c) \in Seq(ProtocolId)
        /\ Len(path) = Len(Chain(c)) /\ Len(path) = Len(c) + 1 /\ Len(c) \in Nat
    BY <1>2, <1>4 DEF Path, PathOK
  <2>2. ASSUME NEW i \in 1..Len(path) PROVE path[i] = Chain(c)[i]
    <3>1. CASE i = 1
      BY <1>2, <1>4, <3>1 DEF PathOK
    <3>2. CASE i # 1
      <4>1. i - 1 \in 1..Len(c) /\ (i - 1) + 1 = i
        BY <2>1, <3>2
      <4>2. Chain(c)[(i - 1) + 1] = c[i - 1]
        BY <1>2, <4>1
      <4>3. path[(i - 1) + 1] = c[i - 1]
        BY <1>4, <2>1, <4>1 DEF PathOK
      <4>. QED  BY <4>1, <4>2, <4>3
    <3>. QED  BY <3>1, <3>2
  <2>. QED  BY <2>1, <2>2, SeqEqual
<1>. QED  BY <1>2, <1>3, <1>4

LEMMA RootOpen == OpenOK(RootCall, <<>>)
<1>1. <<Simulation>> \in Path /\ Len(<<Simulation>>) = 1 /\ <<Simulation>>[1] = Simulation
  BY DEF Path, ProtocolId
<1>2. NewCall(<<Simulation>>) \in Call /\ NewCall(<<Simulation>>).path = <<Simulation>>
  BY <1>1 DEF NewCall, Call
<1>3. PathOK(<<Simulation>>, <<>>, 1)
  BY <1>1 DEF PathOK
<1>. DEFINE call == NewCall(<<Simulation>>)
<1>4. RootCall = [found |-> <<call>>, open |-> <<1>>]
  BY DEF RootCall
<1>. HIDE DEF call
<1>5. <<call>> \in Seq(Call) /\ Len(<<call>>) = 1 /\ <<call>>[1] = call
  BY <1>2 DEF call
<1>6. <<1>> \in Seq(Nat) /\ Len(<<1>>) = 1 /\ <<1>>[1] = 1 /\ Len(<<>>) = 0
  OBVIOUS
<1>. DEFINE f == <<call>>
            o == <<1>>
<1>7. /\ RootCall.found = f /\ RootCall.open = o /\ RootCall \in Listing
  BY <1>4, <1>5, <1>6 DEF Listing
<1>. HIDE DEF f, o
<1>. QED  BY <1>2, <1>3, <1>5, <1>6, <1>7 DEF OpenOK, call, f, o

\* The innermost call, which an event is about.
LEMMA Innermost ==
  ASSUME NEW list, NEW running \in Path, OpenOK(list, running)
  PROVE  /\ list.found \in Seq(Call) /\ list.open \in Seq(Nat) /\ list.open # <<>>
         /\ Len(running) \in Nat
         /\ Last(list.open) = list.open[Len(running) + 1]
         /\ Last(list.open) \in 1..Len(list.found)
         /\ list.found[Last(list.open)] \in Call
         /\ PathOK(list.found[Last(list.open)].path, running, Len(running) + 1)
<1>1. /\ list.found \in Seq(Call) /\ list.open \in Seq(Nat)
      /\ Len(list.open) = Len(running) + 1 /\ Len(running) \in Nat
  BY DEF OpenOK, Listing, Path
<1>2. Len(running) + 1 \in 1..Len(list.open) /\ list.open # <<>>
  BY <1>1, EmptySeq
<1>3. Last(list.open) = list.open[Len(running) + 1]
  BY <1>1 DEF Last
<1>4. /\ list.open[Len(running) + 1] \in 1..Len(list.found)
      /\ PathOK(list.found[list.open[Len(running) + 1]].path, running, Len(running) + 1)
  BY <1>2 DEF OpenOK
<1>. QED  BY <1>1, <1>2, <1>3, <1>4

LEMMA BeginOpens ==
  ASSUME NEW list, NEW running \in Path, OpenOK(list, running),
         NEW e \in Event, e.type = "ProtocolBegin"
  PROVE  /\ OpenOK(Called(list, e), Append(running, e.protocol_name))
         /\ \E call \in Call : call.bytes = 0 /\ Called(list, e).found = Append(list.found, call)
<1>. DEFINE caller == list.found[Last(list.open)]
            name == e.protocol_name
            call == NewCall(Append(caller.path, name))
            found == list.found
            open == list.open
            n == Len(running)
            m == Len(found)
            f == Append(found, call)
            o == Append(open, m + 1)
            more == Append(running, name)
<1>1. /\ found \in Seq(Call) /\ open \in Seq(Nat) /\ open # <<>>
      /\ n \in Nat /\ Len(open) = n + 1 /\ m \in Nat
      /\ caller \in Call /\ PathOK(caller.path, running, n + 1)
  <2>1. Len(open) = n + 1
    BY DEF OpenOK
  <2>2. m \in Nat
    BY Innermost
  <2>. QED  BY <2>1, <2>2, Innermost
<1>2. name \in ProtocolId /\ running \in Seq(ProtocolId)
  BY DEF Event, TransferType, Path
<1>3. caller.path \in Seq(ProtocolId)
  BY <1>1 DEF Call, Path
<1>4. Called(list, e) = [found |-> f, open |-> o]
  BY <1>1 DEF Called, Begins
<1>. HIDE DEF caller, name
<1>5. /\ Append(caller.path, name) \in Seq(ProtocolId)
      /\ Len(Append(caller.path, name)) = n + 2
      /\ Append(caller.path, name)[1] = Simulation
      /\ \A j \in 1..n : Append(caller.path, name)[j + 1] = running[j]
      /\ Append(caller.path, name)[n + 2] = name
  <2>1. /\ Append(caller.path, name) \in Seq(ProtocolId)
        /\ Len(Append(caller.path, name)) = Len(caller.path) + 1
        /\ \A i \in 1..Len(caller.path) : Append(caller.path, name)[i] = caller.path[i]
        /\ Append(caller.path, name)[Len(caller.path) + 1] = name
    BY <1>2, <1>3, AppendProperties
  <2>2. /\ Len(caller.path) = n + 1 /\ caller.path[1] = Simulation
        /\ \A j \in 1..((n + 1) - 1) : caller.path[j + 1] = running[j]
    BY <1>1 DEF PathOK
  <2>. QED  BY <1>1, <2>1, <2>2
<1>6. call \in Call /\ call.bytes = 0 /\ call.path = Append(caller.path, name)
  BY <1>5 DEF NewCall, Call, Path
<1>7. /\ more \in Seq(ProtocolId) /\ Len(more) = n + 1
      /\ \A j \in 1..n : more[j] = running[j]
      /\ more[n + 1] = name
  BY <1>2, AppendProperties
<1>8. PathOK(call.path, more, n + 2)
  <2>1. \A j \in 1..((n + 2) - 1) : Append(caller.path, name)[j + 1] = more[j]
    <3>. DEFINE path == Append(caller.path, name)
    <3>1. /\ n \in Nat /\ path[n + 2] = name /\ more[n + 1] = name
          /\ \A j \in 1..n : path[j + 1] = running[j] /\ more[j] = running[j]
      BY <1>1, <1>5, <1>7
    <3>. HIDE DEF n, more, path, m, found, open, f, o
    <3>2. ASSUME NEW j \in 1..(n + 1) PROVE path[j + 1] = more[j]
      <4>1. j \in 1..n \/ (j = n + 1 /\ j + 1 = n + 2)
        BY <3>1
      <4>. QED  BY <3>1, <4>1
    <3>3. (n + 2) - 1 = n + 1
      BY <3>1
    <3>. QED  BY <3>2, <3>3 DEF path
  <2>. QED  BY <1>5, <1>6, <2>1 DEF PathOK
<1>. HIDE DEF call
<1>9. /\ f \in Seq(Call) /\ Len(f) = m + 1
      /\ \A i \in 1..m : f[i] = found[i]
      /\ f[m + 1] = call
  BY <1>1, <1>6, AppendProperties
<1>10. /\ o \in Seq(Nat) /\ Len(o) = n + 2
       /\ \A k \in 1..(n + 1) : o[k] = open[k]
       /\ o[n + 2] = m + 1
  <2>1. m + 1 \in Nat
    BY <1>1
  <2>. HIDE DEF m
  <2>. QED  BY <1>1, <2>1, AppendProperties
<1>11. \A k \in 1..(n + 1) : open[k] \in 1..m /\ PathOK(found[open[k]].path, running, k)
  BY <1>1 DEF OpenOK
<1>. HIDE DEF f, o, found, open, m, n, more
<1>12. ASSUME NEW k \in 1..(n + 2)
       PROVE  o[k] \in 1..(m + 1) /\ PathOK(f[o[k]].path, more, k)
  <2>1. CASE k = n + 2
    BY <1>1, <1>8, <1>9, <1>10, <2>1
  <2>2. CASE k \in 1..(n + 1)
    <3>1. o[k] = open[k] /\ open[k] \in 1..m /\ PathOK(found[open[k]].path, running, k)
      BY <1>10, <1>11, <2>2
    <3>2. o[k] \in 1..(m + 1) /\ f[o[k]] = found[open[k]]
      BY <1>1, <1>9, <3>1
    <3>3. \A j \in 1..(k - 1) : more[j] = running[j]
      BY <1>1, <1>7, <2>2
    <3>4. PathOK(found[open[k]].path, more, k)
      BY <3>1, <3>3 DEF PathOK
    <3>. QED  BY <3>2, <3>4
  <2>. QED  BY <1>1, <2>1, <2>2
<1>13. OpenOK(Called(list, e), more)
  <2>1. /\ Called(list, e).found = f /\ Called(list, e).open = o /\ Called(list, e) \in Listing
    BY <1>4, <1>9, <1>10 DEF Listing
  <2>2. Len(o) = Len(more) + 1
    BY <1>1, <1>7, <1>10
  <2>. QED  BY <1>9, <1>10, <1>12, <2>1, <2>2 DEF OpenOK
<1>14. Called(list, e).found = f
  BY <1>4
<1>. QED  BY <1>6, <1>13, <1>14 DEF f, more, name, found

LEMMA EndCloses ==
  ASSUME NEW list, NEW running \in Path, OpenOK(list, running), running # <<>>,
         NEW e \in Event, e.type = "ProtocolEnd"
  PROVE  /\ OpenOK(Called(list, e), Front(running))
         /\ Called(list, e).found = list.found
<1>. DEFINE found == list.found
            open == list.open
            n == Len(running)
            o == Front(open)
            less == Front(running)
<1>1. /\ found \in Seq(Call) /\ open \in Seq(Nat) /\ open # <<>>
      /\ running \in Seq(ProtocolId) /\ n \in Nat /\ n # 0 /\ Len(open) = n + 1
  <2>1. Len(open) = n + 1
    BY DEF OpenOK
  <2>2. running \in Seq(ProtocolId) /\ n # 0
    BY EmptySeq DEF Path
  <2>. QED  BY <2>1, <2>2, Innermost
<1>2. Called(list, e) = [found |-> found, open |-> o]
  <2>1. list = [found |-> found, open |-> open]
    BY DEF OpenOK, Listing
  <2>2. Called(list, e) = [list EXCEPT !.open = Front(@)]
    BY <1>1 DEF Called
  <2>. QED  BY <2>1, <2>2
<1>3. /\ o \in Seq(Nat) /\ Len(o) = n /\ \A k \in 1..n : o[k] = open[k]
  <2>. HIDE DEF open, n
  <2>1. o = SubSeq(open, 1, n)
    BY <1>1 DEF Front
  <2>. QED  BY <1>1, <2>1
<1>4. /\ less \in Seq(ProtocolId) /\ Len(less) = n - 1 /\ \A j \in 1..(n - 1) : less[j] = running[j]
  <2>1. less = SubSeq(running, 1, n - 1) /\ n = Len(running)
    BY <1>1 DEF Front
  <2>. HIDE DEF n, less
  <2>2. n - 1 \in Nat /\ n - 1 <= Len(running)
    BY <1>1, <2>1
  <2>. QED  BY <1>1, <2>1, <2>2
<1>5. \A k \in 1..(n + 1) : open[k] \in 1..Len(found) /\ PathOK(found[open[k]].path, running, k)
  BY <1>1 DEF OpenOK
<1>. HIDE DEF found, open, n, o, less
<1>6. ASSUME NEW k \in 1..n
      PROVE  o[k] \in 1..Len(found) /\ PathOK(found[o[k]].path, less, k)
  <2>1. k \in 1..(n + 1) /\ \A j \in 1..(k - 1) : j \in 1..(n - 1)
    BY <1>1
  <2>2. o[k] = open[k] /\ open[k] \in 1..Len(found) /\ PathOK(found[open[k]].path, running, k)
    BY <1>3, <1>5, <2>1
  <2>3. \A j \in 1..(k - 1) : less[j] = running[j]
    BY <1>4, <2>1
  <2>. QED  BY <2>2, <2>3 DEF PathOK
<1>7. OpenOK(Called(list, e), less)
  <2>1. /\ Called(list, e).found = found /\ Called(list, e).open = o /\ Called(list, e) \in Listing
    BY <1>1, <1>2, <1>3 DEF Listing
  <2>2. Len(o) = Len(less) + 1
    BY <1>1, <1>3, <1>4
  <2>. QED  BY <1>3, <1>6, <2>1, <2>2 DEF OpenOK
<1>. QED  BY <1>2, <1>7 DEF found, less

LEMMA SendBumps ==
  ASSUME NEW list, NEW running \in Path, OpenOK(list, running), NEW e \in Event, Counts(e)
  PROVE  /\ OpenOK(Called(list, e), running)
         /\ e.size \in Nat
         /\ \E j \in 1..Len(list.found) :
              /\ list.found[j].path = Chain(running)
              /\ Called(list, e).found = Bump(list.found, j, e.size)
<1>. DEFINE found == list.found
            open == list.open
            j == Last(open)
            f == Bump(found, j, e.size)
<1>1. /\ found \in Seq(Call) /\ open \in Seq(Nat) /\ open # <<>>
      /\ j \in 1..Len(found) /\ found[j] \in Call
      /\ PathOK(found[j].path, running, Len(running) + 1)
  BY Innermost
<1>2. e.size \in Nat /\ e.type = "SendData" /\ ~Loopback(e.link)
  BY DEF Counts, Event, TransferType
<1>3. found[j].path = Chain(running)
  <2>1. found[j].path \in Path
    BY <1>1 DEF Call
  <2>. QED  BY <1>1, <2>1, Chains
<1>4. Called(list, e) = [found |-> f, open |-> open]
  <2>1. list = [found |-> found, open |-> open]
    BY DEF OpenOK, Listing
  <2>2. Called(list, e) = [list EXCEPT !.found[j].bytes = @ + e.size]
    BY <1>1, <1>2 DEF Called, Sends
  <2>. QED  BY <2>1, <2>2 DEF Bump
<1>. HIDE DEF j
<1>5. /\ f \in Seq(Call) /\ Len(f) = Len(found)
      /\ \A i \in 1..Len(found) : f[i].path = found[i].path
  BY <1>1, <1>2, AmountBump, SMTT(20)
<1>6. OpenOK(Called(list, e), running)
  <2>1. /\ Len(open) = Len(running) + 1
        /\ \A k \in 1..Len(open) :
             open[k] \in 1..Len(found) /\ PathOK(found[open[k]].path, running, k)
    BY DEF OpenOK
  <2>. HIDE DEF f, found, open
  <2>2. /\ Called(list, e).found = f /\ Called(list, e).open = open /\ Called(list, e) \in Listing
    BY <1>1, <1>4, <1>5 DEF Listing
  <2>3. ASSUME NEW k \in 1..Len(open)
        PROVE  open[k] \in 1..Len(f) /\ PathOK(f[open[k]].path, running, k)
    <3>1. open[k] \in 1..Len(found) /\ PathOK(found[open[k]].path, running, k)
      BY <2>1
    <3>2. f[open[k]].path = found[open[k]].path
      BY <1>5, <3>1
    <3>. QED  BY <1>5, <3>1, <3>2
  <2>. QED  BY <2>1, <2>2, <2>3 DEF OpenOK
<1>7. Called(list, e).found = f
  BY <1>4
<1>. QED  BY <1>1, <1>2, <1>3, <1>6, <1>7

LEMMA OthersQuiet ==
  ASSUME NEW list, NEW e \in Event, e.type \notin {"ProtocolBegin", "ProtocolEnd"}, ~Counts(e)
  PROVE  Called(list, e) = list
BY DEF Called, Counts

-----------------------------------------------------------------------------
(***************************************************************************)
(* The calls found in a trace account for the bytes its party sent while   *)
(* it was running each chain of calls, and in all.                         *)
(***************************************************************************)
Accounted(found, account, count) ==
  /\ \A i \in 1..Len(found) :
       found[i].bytes > 0 => \E c \in DOMAIN account : found[i].path = Chain(c)
  /\ \A c \in Path : Amount(found, Chain(c)) = AmountAt(account, c)
  /\ Bytes(found) = count

BytesOK(trace, running, account, count) ==
  /\ OpenOK(Calls(trace), running)
  /\ Accounted(Calls(trace).found, account, count)

LEMMA NothingSent == BytesOK(<<>>, <<>>, <<>>, 0)
<1>. DEFINE call == NewCall(<<Simulation>>)
            f == Append(<<>>, call)
<1>1. <<Simulation>> \in Path
  BY DEF Path, ProtocolId
<1>2. call \in Call /\ call.bytes = 0 /\ <<>> \in Seq(Call)
  BY <1>1 DEF NewCall, Call
<1>3. Calls(<<>>).found = f /\ OpenOK(Calls(<<>>), <<>>)
  <2>1. Calls(<<>>) = RootCall
    BY CallsAppend
  <2>2. RootCall.found = <<call>>
    BY DEF RootCall
  <2>3. Append(<<>>, call) = <<call>>
    OBVIOUS
  <2>. QED  BY <2>1, <2>2, <2>3, RootOpen
<1>. HIDE DEF call
<1>4. Len(f) = 1 /\ f[1] = call
  <2>1. Len(f) = Len(<<>>) + 1 /\ f[Len(<<>>) + 1] = call /\ Len(<<>>) = 0
    BY <1>2, AppendProperties
  <2>. QED  BY <2>1
<1>5. Bytes(f) = 0
  <2>1. Bytes(f) = Bytes(<<>>) + call.bytes
    BY <1>2, AmountAppend, Zenon
  <2>. QED  BY <1>2, <2>1, NothingFound
<1>6. ASSUME NEW path PROVE Amount(f, path) = 0
  <2>1. Amount(<<>>, path) = 0
    BY NothingFound
  <2>2. Amount(f, path) = Amount(<<>>, path) + (IF path = call.path THEN call.bytes ELSE 0)
    BY <1>2, AmountAppend, Zenon
  <2>. QED  BY <1>2, <2>1, <2>2
<1>7. \A c : AmountAt(<<>>, c) = 0
  BY EmptyAccount DEF AmountAt
<1>8. \A i \in 1..Len(f) : ~(f[i].bytes > 0)
  BY <1>2, <1>4
<1>9. Accounted(f, <<>>, 0)
  <2>. HIDE DEF f
  <2>. QED  BY <1>5, <1>6, <1>7, <1>8 DEF Accounted
<1>. QED  BY <1>3, <1>9 DEF BytesOK

\* An event that is no send to another may begin or end a call, and moves no account.
LEMMA QuietEvent ==
  ASSUME NEW trace \in Seq(Event), NEW running \in Path, NEW account, NEW count,
         BytesOK(trace, running, account, count), NEW e \in Event, ~Counts(e), NEW now,
         \/ e.type = "ProtocolBegin" /\ now = Append(running, e.protocol_name)
         \/ e.type = "ProtocolEnd" /\ running # <<>> /\ now = Front(running)
         \/ e.type \notin {"ProtocolBegin", "ProtocolEnd"} /\ now = running
  PROVE  BytesOK(Append(trace, e), now, account, count)
<1>. DEFINE list == Calls(trace)
<1>1. Calls(Append(trace, e)) = Called(list, e)
  BY CallsAppend
<1>2. OpenOK(list, running) /\ Accounted(list.found, account, count) /\ list.found \in Seq(Call)
  BY Innermost DEF BytesOK
<1>. HIDE DEF list
<1>3. CASE e.type = "ProtocolBegin" /\ now = Append(running, e.protocol_name)
  <2>1. OpenOK(Called(list, e), now)
    BY <1>2, <1>3, BeginOpens
  <2>2. PICK call \in Call : call.bytes = 0 /\ Called(list, e).found = Append(list.found, call)
    BY <1>2, <1>3, BeginOpens
  <2>. DEFINE f == list.found
              g == Append(f, call)
  <2>3. /\ f \in Seq(Call) /\ Len(f) \in Nat /\ Len(g) = Len(f) + 1
        /\ \A i \in 1..Len(f) : g[i] = f[i]
        /\ g[Len(f) + 1] = call
    BY <1>2, AppendProperties
  <2>4. Bytes(g) = Bytes(f)
    <3>1. Bytes(g) = Bytes(f) + call.bytes
      BY <1>2, AmountAppend, Zenon
    <3>2. Bytes(f) \in Nat
      BY <1>2, AmountTypes
    <3>. QED  BY <2>2, <3>1, <3>2
  <2>5. ASSUME NEW path PROVE Amount(g, path) = Amount(f, path)
    <3>1. Amount(f, path) \in Nat
      BY <1>2, AmountTypes
    <3>2. Amount(g, path) = Amount(f, path) + (IF path = call.path THEN call.bytes ELSE 0)
      BY <1>2, AmountAppend, Zenon
    <3>. QED  BY <2>2, <3>1, <3>2
  <2>6. Accounted(f, account, count)
    BY <1>2
  <2>. HIDE DEF f, g
  <2>7. ASSUME NEW i \in 1..Len(g), g[i].bytes > 0
        PROVE  \E c \in DOMAIN account : g[i].path = Chain(c)
    <3>1. i \in 1..Len(f) /\ g[i] = f[i]
      BY <2>2, <2>3, <2>7
    <3>. QED  BY <2>6, <2>7, <3>1 DEF Accounted
  <2>8. Accounted(g, account, count)
    BY <2>4, <2>5, <2>6, <2>7 DEF Accounted
  <2>. QED  BY <1>1, <2>1, <2>2, <2>8 DEF BytesOK, f, g
<1>4. CASE e.type = "ProtocolEnd" /\ running # <<>> /\ now = Front(running)
  BY <1>1, <1>2, <1>4, EndCloses DEF BytesOK
<1>5. CASE e.type \notin {"ProtocolBegin", "ProtocolEnd"} /\ now = running
  BY <1>1, <1>2, <1>5, OthersQuiet DEF BytesOK
<1>. QED  BY <1>3, <1>4, <1>5

\* A send to another adds its bytes to the chain that is running, and to the count.
LEMMA CountedEvent ==
  ASSUME NEW trace \in Seq(Event), NEW running \in Path, NEW account \in AccountsOf(Path),
         NEW count \in Nat, BytesOK(trace, running, account, count),
         NEW e \in Event, Counts(e)
  PROVE  BytesOK(Append(trace, e), running,
                 AddTo(account, [path |-> running, bytes |-> e.size]), count + e.size)
<1>. DEFINE list == Calls(trace)
            f == list.found
            line == [path |-> running, bytes |-> e.size]
            after == AddTo(account, line)
            g == Called(list, e).found
<1>1. Calls(Append(trace, e)) = Called(list, e)
  BY CallsAppend
<1>2. OpenOK(list, running) /\ Accounted(f, account, count) /\ f \in Seq(Call)
  BY Innermost DEF BytesOK
<1>3. OpenOK(Called(list, e), running) /\ e.size \in Nat
  BY <1>2, SendBumps
<1>4. PICK j \in 1..Len(f) : f[j].path = Chain(running) /\ g = Bump(f, j, e.size)
  BY <1>2, SendBumps
<1>5. line \in Call /\ line.path = running /\ line.bytes = e.size
  BY <1>3 DEF Call
<1>6. /\ DOMAIN after = DOMAIN account \cup {running}
      /\ \A key : AmountAt(account, key) \in Nat
      /\ \A key : AmountAt(after, key) = AmountAt(account, key) + (IF key = running THEN e.size ELSE 0)
  <2>. HIDE DEF line
  <2>. QED  BY <1>5, AddToType
<1>. HIDE DEF list, line, after, f, g
<1>7. /\ Len(g) = Len(f)
      /\ \A i \in 1..Len(f) : g[i].path = f[i].path
      /\ \A i \in 1..Len(f) : i # j => g[i] = f[i]
      /\ \A path : Amount(g, path) = Amount(f, path) + (IF path = f[j].path THEN e.size ELSE 0)
      /\ Bytes(g) = Bytes(f) + e.size
  <2>. DEFINE n == e.size
              more == Bump(f, j, n)
  <2>1. /\ Len(more) = Len(f)
        /\ \A i \in 1..Len(f) : more[i].path = f[i].path
        /\ \A i \in 1..Len(f) : i # j => more[i] = f[i]
        /\ \A path : Amount(more, path) = Amount(f, path) + (IF path = f[j].path THEN n ELSE 0)
        /\ Bytes(more) = Bytes(f) + n
    <3>1. n \in Nat
      BY <1>3
    <3>. HIDE DEF n
    <3>. QED  BY <1>2, <3>1, AmountBump, ZenonT(30)
  <2>2. g = more
    BY <1>4
  <2>. HIDE DEF more
  <2>. QED  BY <2>1, <2>2, Zenon
<1>8. ASSUME NEW i \in 1..Len(g), g[i].bytes > 0
      PROVE  \E c \in DOMAIN after : g[i].path = Chain(c)
  <2>1. CASE i = j
    BY <1>4, <1>6, <1>7, <2>1
  <2>2. CASE i # j
    <3>1. \E c \in DOMAIN account : f[i].path = Chain(c)
      BY <1>2, <1>7, <1>8, <2>2 DEF Accounted
    <3>. QED  BY <1>6, <1>7, <1>8, <3>1
  <2>. QED  BY <2>1, <2>2
<1>9. ASSUME NEW c \in Path
      PROVE  Amount(g, Chain(c)) = AmountAt(after, c)
  <2>1. Amount(f, Chain(c)) = AmountAt(account, c)
    BY <1>2 DEF Accounted
  <2>2. Chain(c) = f[j].path <=> c = running
    BY <1>4, Chains
  <2>3. Amount(g, Chain(c)) = Amount(f, Chain(c)) + (IF Chain(c) = f[j].path THEN e.size ELSE 0)
    BY <1>7, Zenon
  <2>4. AmountAt(after, c) = AmountAt(account, c) + (IF c = running THEN e.size ELSE 0)
    BY <1>6, Zenon
  <2>. QED  BY <2>1, <2>2, <2>3, <2>4
<1>10. Bytes(g) = count + e.size
  BY <1>2, <1>7 DEF Accounted
<1>11. Accounted(g, after, count + e.size)
  BY <1>8, <1>9, <1>10 DEF Accounted
<1>. QED  BY <1>1, <1>3, <1>11 DEF BytesOK, g, after, line

-----------------------------------------------------------------------------
(***************************************************************************)
(* The invariant.  BandwidthAccounted is not inductive: what a call sends  *)
(* next is put where the trace says the party is, so the calls open in the *)
(* trace must be known to be the calls the party is running.               *)
(***************************************************************************)
BandwidthTypes ==
  /\ spent \in [Party -> AccountsOf(Path)]
  /\ metric \in [total : Nat, by : AccountsOf(Party)]

PartyBytes(p) ==
  /\ BytesOK(traces[p], calls[p], spent[p], BytesBy(metric, p))
  /\ p \in DOMAIN metric.by <=> DOMAIN spent[p] # {}

BandwidthInv ==
  /\ BandwidthTypes
  /\ \A p \in Party : PartyBytes(p)
  /\ metric.total = SumOf(BytesByParty)

LEMMA CountTypes ==
  ASSUME metric \in [total : Nat, by : AccountsOf(Party)]
  PROVE  /\ \A p \in Party : BytesBy(metric, p) \in Nat
         /\ BytesByParty \in Seq(Nat) /\ Len(BytesByParty) = Len(PartyOrder)
         /\ \A i \in 1..Len(PartyOrder) : BytesByParty[i] = BytesBy(metric, PartyOrder[i])
<1>1. ASSUME NEW p \in Party PROVE BytesBy(metric, p) \in Nat
  BY DEF BytesBy, AccountsOf
<1>2. PartyOrder \in Seq(Party) /\ Len(PartyOrder) \in Nat /\ DOMAIN PartyOrder = 1..Len(PartyOrder)
  BY PartyAssumption
<1>3. \A i \in 1..Len(PartyOrder) : PartyOrder[i] \in Party
  BY <1>2
<1>. DEFINE n == Len(PartyOrder)
            s == [i \in 1..n |-> BytesBy(metric, PartyOrder[i])]
<1>4. BytesByParty = s
  BY <1>2 DEF BytesByParty
<1>5. s \in [1..n -> Nat] /\ n \in Nat
  BY <1>1, <1>2, <1>3
<1>6. s \in Seq(Nat) /\ Len(s) = n
  <2>. HIDE DEF s, n
  <2>. QED  BY <1>5
<1>. QED  BY <1>1, <1>4, <1>6

\* A step that counts no bytes.
LEMMA QuietStep ==
  ASSUME BandwidthInv, UNCHANGED <<metric, spent>>,
         \A p \in Party : BytesOK(traces'[p], calls'[p], spent[p], BytesBy(metric, p))
  PROVE  BandwidthInv'
<1>1. BandwidthTypes' /\ metric'.total = SumOf(BytesByParty)'
  <2>1. BytesByParty' = BytesByParty
    BY DEF BytesByParty, BytesBy
  <2>2. SumOf(BytesByParty)' = SumOf(BytesByParty)
    BY <2>1
  <2>. QED  BY <2>2 DEF BandwidthInv, BandwidthTypes
<1>2. ASSUME NEW p \in Party PROVE PartyBytes(p)'
  BY DEF BandwidthInv, PartyBytes, BytesBy
<1>. QED  BY <1>1, <1>2 DEF BandwidthInv

LEMMA FrameKeepsBytes ==
  ASSUME BandwidthInv, UNCHANGED <<metric, spent>>, NEW p \in Party, Frame(p),
         BytesOK(traces'[p], calls'[p], spent[p], BytesBy(metric, p))
  PROVE  BandwidthInv'
<1>1. ASSUME NEW q \in Party
      PROVE  BytesOK(traces'[q], calls'[q], spent[q], BytesBy(metric, q))
  <2>1. CASE q = p
    BY <2>1
  <2>2. CASE q # p
    BY <2>2 DEF Frame, BandwidthInv, PartyBytes
  <2>. QED  BY <2>1, <2>2
<1>. QED  BY <1>1, QuietStep

\* A party records one event that counts no bytes.
LEMMA QuietOne ==
  ASSUME TraceTypes, BandwidthInv, NEW p \in Party, Frame(p), spent' = spent,
         NEW e \in Event, ~Counts(e), Record(p, <<e>>),
         \/ e.type = "ProtocolBegin" /\ calls'[p] = Append(calls[p], e.protocol_name)
         \/ e.type = "ProtocolEnd" /\ calls[p] # <<>> /\ calls'[p] = Front(calls[p])
         \/ e.type \notin {"ProtocolBegin", "ProtocolEnd"} /\ calls'[p] = calls[p]
  PROVE  BandwidthInv'
<1>1. traces[p] \in Seq(Event) /\ calls[p] \in Path
  BY DEF TraceTypes, Path
<1>2. traces'[p] = Append(traces[p], e)
  <2>1. traces' = [traces EXCEPT ![p] = Append(traces[p], e)]
    BY RecordOne
  <2>. QED  BY <2>1 DEF TraceTypes
<1>3. metric' = metric
  <2>1. metric' = FoldLeft(MetricHook, metric, <<e>>)
    BY DEF Record
  <2>2. FoldLeft(MetricHook, metric, <<e>>) = MetricHook(metric, e)
    BY HookOne
  <2>. QED  BY <2>1, <2>2 DEF MetricHook
<1>4. BytesOK(traces[p], calls[p], spent[p], BytesBy(metric, p))
  BY DEF BandwidthInv, PartyBytes
<1>5. BytesOK(traces'[p], calls'[p], spent[p], BytesBy(metric, p))
  BY <1>1, <1>2, <1>4, QuietEvent
<1>. QED  BY <1>3, <1>5, FrameKeepsBytes

LEMMA StartKeepsBytes ==
  ASSUME TypeOK, TaskInv, NestInv, BandwidthInv, NEW p \in Party, StartParty(p)
  PROVE  BandwidthInv'
<1>. DEFINE e == Start(p)
            f == ProtocolBegin(p, RootProtocol)
            t == Append(<<>>, e)
<1>1. /\ calls' = [calls EXCEPT ![p] = <<RootProtocol>>]
      /\ Record(p, <<e, f>>)
      /\ spent' = spent
  BY DEF StartParty
<1>2. Frame(p) /\ OpenScopes(traces'[p]) = calls'[p] /\ TraceTypes
  BY StartNest DEF Own, NestOK, NestInv
<1>3. traces[p] = <<>>
  <2>1. PopsReady(p) /\ ~Pending(p) /\ UNCHANGED awaiting
    BY DEF StartParty, StartTask
  <2>2. InReadyQueue(p)
    BY <2>1, PopReady DEF TaskInv
  <2>. QED  BY <2>1, <2>2 DEF NestInv, Unbegun
<1>4. calls[p] = <<>>
  BY <1>3, ScopesAppend DEF NestInv, NestOK
<1>5. e \in Event /\ f \in Event
  BY EventTypes DEF ProtocolId
<1>6. /\ e.type = "Start"
      /\ f.type = "ProtocolBegin" /\ f.protocol_name = RootProtocol
  BY DEF Start, ProtocolBegin
<1>. HIDE DEF e, f
<1>7. traces'[p] = Append(t, f)
  <2>1. traces' = [traces EXCEPT ![p] = Append(Append(traces[p], e), f)]
    BY <1>1, <1>2, <1>5, RecordTwo
  <2>. QED  BY <1>2, <1>3, <2>1 DEF TraceTypes
<1>8. ~Counts(e) /\ ~Counts(f)
  BY <1>6 DEF Counts
<1>9. metric' = metric
  <2>1. <<e, f>> \in Seq(Event) /\ \A i \in 1..Len(<<e, f>>) : ~Counts(<<e, f>>[i])
    BY <1>5, <1>8
  <2>. QED  BY <1>1, <2>1, HookQuiet DEF Record
<1>10. BytesOK(<<>>, <<>>, spent[p], BytesBy(metric, p))
  BY <1>3, <1>4 DEF BandwidthInv, PartyBytes
<1>11. <<>> \in Seq(Event) /\ <<>> \in Path
  BY DEF Path
<1>12. t \in Seq(Event) /\ BytesOK(t, <<>>, spent[p], BytesBy(metric, p))
  <2>1. t \in Seq(Event)
    BY <1>5, <1>11, AppendProperties
  <2>2. BytesOK(t, <<>>, spent[p], BytesBy(metric, p))
    BY <1>5, <1>6, <1>8, <1>10, <1>11, QuietEvent
  <2>. QED  BY <2>1, <2>2
<1>. HIDE DEF t
<1>13. BytesOK(traces'[p], Append(<<>>, RootProtocol), spent[p], BytesBy(metric, p))
  BY <1>5, <1>6, <1>7, <1>8, <1>11, <1>12, QuietEvent
<1>14. calls'[p] = Append(<<>>, RootProtocol)
  <2>1. calls'[p] = <<RootProtocol>>
    BY <1>1, <1>2 DEF TraceTypes
  <2>. QED  BY <2>1
<1>. QED  BY <1>1, <1>2, <1>9, <1>13, <1>14, FrameKeepsBytes

LEMMA ExecuteKeepsBytes ==
  ASSUME TypeOK, TaskInv, NestInv, BandwidthInv, NEW p \in Party, NEW id \in SubProtocols,
         Execute(p, id)
  PROVE  BandwidthInv'
<1>. DEFINE e == ProtocolBegin(p, id)
<1>1. /\ calls' = [calls EXCEPT ![p] = Append(@, id)] /\ Record(p, <<e>>) /\ spent' = spent
  BY DEF Execute
<1>2. Frame(p) /\ TraceTypes
  BY ExecuteNest DEF NestInv
<1>3. e \in Event
  BY EventTypes DEF ProtocolId
<1>4. e.type = "ProtocolBegin" /\ e.protocol_name = id
  BY DEF ProtocolBegin
<1>. HIDE DEF e
<1>5. ~Counts(e) /\ calls'[p] = Append(calls[p], e.protocol_name)
  BY <1>1, <1>2, <1>4 DEF Counts, TraceTypes
<1>. QED  BY <1>1, <1>2, <1>3, <1>4, <1>5, QuietOne

\* A protocol that returns is the innermost of the calls.
LEMMA EndEvent ==
  ASSUME TypeOK, NestInv, NEW p \in Party, Len(calls[p]) >= 1
  PROVE  /\ calls[p] # <<>>
         /\ ProtocolEnd(p, Calling(p)) \in Event
         /\ ProtocolEnd(p, Calling(p)).type = "ProtocolEnd"
         /\ ~Counts(ProtocolEnd(p, Calling(p)))
<1>1. calls[p] \in Seq(ProtocolId) /\ Len(calls[p]) \in Nat
  BY DEF NestInv, TraceTypes
<1>2. Calling(p) \in ProtocolId /\ calls[p] # <<>>
  BY <1>1 DEF Calling, Last
<1>. QED  BY <1>2, EventTypes DEF ProtocolEnd, Counts

LEMMA ReturnKeepsBytes ==
  ASSUME TypeOK, TaskInv, NestInv, BandwidthInv, NEW p \in Party, NEW result, Return(p, result)
  PROVE  BandwidthInv'
<1>. DEFINE e == ProtocolEnd(p, Calling(p))
<1>1. /\ calls' = [calls EXCEPT ![p] = Front(@)] /\ Record(p, <<e>>) /\ spent' = spent
      /\ Len(calls[p]) > 1
  BY DEF Return, EndMarker
<1>2. Frame(p) /\ TraceTypes
  BY ReturnNest DEF NestInv
<1>3. calls[p] # <<>> /\ e \in Event /\ e.type = "ProtocolEnd" /\ ~Counts(e)
  <2>1. Len(calls[p]) \in Nat
    BY <1>2 DEF TraceTypes
  <2>2. Len(calls[p]) >= 1
    BY <1>1, <2>1
  <2>. QED  BY <2>2, EndEvent
<1>. HIDE DEF e
<1>4. calls'[p] = Front(calls[p])
  BY <1>1, <1>2 DEF TraceTypes
<1>. QED  BY <1>1, <1>2, <1>3, <1>4, QuietOne

\* What is left of the calls when there is one, and it ends.
LEMMA NoneLeft ==
  ASSUME NestInv, NEW p \in Party, Len(calls[p]) = 1
  PROVE  Front(calls[p]) = <<>>
<1>1. calls[p] \in Seq(ProtocolId)
  BY DEF NestInv, TraceTypes
<1>. QED  BY <1>1, SubSeqEmpty DEF Front

LEMMA PanicKeepsBytes ==
  ASSUME TypeOK, TaskInv, NestInv, BandwidthInv, NEW p \in Party, Panic(p)
  PROVE  BandwidthInv'
<1>. DEFINE e == ProtocolEnd(p, Calling(p))
<1>1. /\ calls' = [calls EXCEPT ![p] = <<>>] /\ Record(p, <<e>>) /\ spent' = spent
      /\ Len(calls[p]) = 1
  BY DEF Panic, EndMarker
<1>2. Frame(p) /\ TraceTypes
  BY PanicNest DEF NestInv
<1>3. calls[p] # <<>> /\ e \in Event /\ e.type = "ProtocolEnd" /\ ~Counts(e)
  BY <1>1, EndEvent
<1>. HIDE DEF e
<1>4. calls'[p] = Front(calls[p])
  BY <1>1, <1>2, NoneLeft DEF TraceTypes
<1>. QED  BY <1>1, <1>2, <1>3, <1>4, QuietOne

LEMMA CompleteKeepsBytes ==
  ASSUME TypeOK, TaskInv, NestInv, BandwidthInv, NEW p \in Party, Complete(p)
  PROVE  BandwidthInv'
<1>. DEFINE e == ProtocolEnd(p, Calling(p))
            f == Output(p)
            g == Stop(p)
            t == Append(traces[p], e)
            u == Append(t, f)
<1>1. /\ calls' = [calls EXCEPT ![p] = <<>>] /\ Record(p, <<e>> \o <<f, g>>) /\ spent' = spent
      /\ Len(calls[p]) = 1
  BY DEF Complete, EndMarker
<1>2. Frame(p) /\ TraceTypes
  BY CompleteNest DEF NestInv
<1>3. calls[p] # <<>> /\ e \in Event /\ e.type = "ProtocolEnd" /\ ~Counts(e)
  BY <1>1, EndEvent
<1>4. /\ f \in Event /\ f.type = "Output" /\ ~Counts(f)
      /\ g \in Event /\ g.type = "Stop" /\ ~Counts(g)
  BY EventTypes DEF Output, Stop, Counts
<1>. HIDE DEF e, f, g
<1>5. traces'[p] = Append(u, g)
  <2>1. traces' = [traces EXCEPT ![p] = Append(u, g)]
    BY <1>1, <1>2, <1>3, <1>4, RecordThree
  <2>. QED  BY <1>2, <2>1 DEF TraceTypes
<1>6. metric' = metric
  <2>1. <<e>> \in Seq(Event) /\ <<f, g>> \in Seq(Event)
    BY <1>3, <1>4
  <2>. DEFINE r == <<e>> \o <<f, g>>
  <2>2. r \in Seq(Event) /\ \A i \in 1..Len(r) : ~Counts(r[i])
    <3>1. \A i \in 1..Len(<<e>>) : ~Counts(<<e>>[i])
      BY <1>3
    <3>2. \A i \in 1..Len(<<f, g>>) : ~Counts(<<f, g>>[i])
      BY <1>4
    <3>. DEFINE a == <<e>>
                b == <<f, g>>
    <3>3. a \in Seq(Event) /\ b \in Seq(Event)
      BY <2>1
    <3>4. r = a \o b
      OBVIOUS
    <3>5. (\A i \in 1..Len(a) : ~Counts(a[i])) /\ (\A i \in 1..Len(b) : ~Counts(b[i]))
      BY <3>1, <3>2
    <3>. HIDE DEF a, b, r
    <3>6. /\ r \in Seq(Event) /\ Len(r) = Len(a) + Len(b)
          /\ Len(a) \in Nat /\ Len(b) \in Nat
          /\ \A i \in 1..(Len(a) + Len(b)) : r[i] = IF i <= Len(a) THEN a[i] ELSE b[i - Len(a)]
      BY <3>3, <3>4, ConcatProperties
    <3>7. ASSUME NEW i \in 1..Len(r) PROVE ~Counts(r[i])
      <4>1. i \in 1..Len(a) \/ i - Len(a) \in 1..Len(b)
        BY <3>6
      <4>. QED  BY <3>5, <3>6, <4>1
    <3>. QED  BY <3>6, <3>7
  <2>3. metric' = FoldLeft(MetricHook, metric, r)
    BY <1>1 DEF Record
  <2>. HIDE DEF r
  <2>. QED  BY <2>2, <2>3, HookQuiet
<1>7. traces[p] \in Seq(Event) /\ calls[p] \in Path /\ <<>> \in Path
  BY <1>2 DEF TraceTypes, Path
<1>8. BytesOK(traces[p], calls[p], spent[p], BytesBy(metric, p))
  BY DEF BandwidthInv, PartyBytes
<1>9. t \in Seq(Event) /\ BytesOK(t, <<>>, spent[p], BytesBy(metric, p))
  <2>1. t \in Seq(Event)
    BY <1>3, <1>7, AppendProperties
  <2>2. Front(calls[p]) = <<>>
    BY <1>1, NoneLeft
  <2>3. BytesOK(t, <<>>, spent[p], BytesBy(metric, p))
    BY <1>3, <1>7, <1>8, <2>2, QuietEvent
  <2>. QED  BY <2>1, <2>3
<1>. HIDE DEF t
<1>10. u \in Seq(Event) /\ BytesOK(u, <<>>, spent[p], BytesBy(metric, p))
  <2>1. u \in Seq(Event)
    BY <1>4, <1>9, AppendProperties
  <2>. QED  BY <1>4, <1>7, <1>9, <2>1, QuietEvent
<1>. HIDE DEF u
<1>11. BytesOK(traces'[p], <<>>, spent[p], BytesBy(metric, p))
  BY <1>4, <1>5, <1>7, <1>10, QuietEvent
<1>12. calls'[p] = <<>>
  BY <1>1, <1>2 DEF TraceTypes
<1>. QED  BY <1>1, <1>2, <1>6, <1>11, <1>12, FrameKeepsBytes

LEMMA SumBump ==
  ASSUME NEW s \in Seq(Nat), NEW j \in 1..Len(s), NEW n \in Nat
  PROVE  SumOf(Put(s, j, s[j] + n)) = SumOf(s) + n
<1>. DEFINE F == [r \in Seq(Nat) |-> SumOf(r)]
            W == [m \in Nat |-> m]
            u == s[j] + n
            more == Put(s, j, u)
<1>1. s[j] \in Nat /\ u \in Nat
  OBVIOUS
<1>2. Sums(Nat, F, W)
  <2>1. \A r \in Seq(Nat) : F[r] \in Nat
    BY SumAppend
  <2>2. ASSUME NEW r \in Seq(Nat), NEW m \in Nat
        PROVE  F[Append(r, m)] = F[r] + W[m]
    <3>1. Append(r, m) \in Seq(Nat)
      BY AppendProperties
    <3>. QED  BY <3>1, SumAppend
  <2>3. \A m \in Nat : W[m] \in Nat
    OBVIOUS
  <2>. HIDE DEF F, W
  <2>. QED  BY <2>1, <2>2, <2>3 DEF Sums
<1>3. more \in Seq(Nat)
  <2>. HIDE DEF u
  <2>. QED  BY <1>1, ExceptSeq DEF Put
<1>4. F[more] = SumOf(more) /\ F[s] = SumOf(s) /\ W[s[j]] = s[j] /\ W[u] = s[j] + n
  <2>1. W[u] = s[j] + n /\ W[s[j]] = s[j]
    BY <1>1
  <2>. HIDE DEF more, W
  <2>. QED  BY <1>3, <2>1
<1>5. F[more] + W[s[j]] = F[s] + W[u]
  <2>. HIDE DEF F, W, u
  <2>. QED  BY <1>1, <1>2, SumReplace DEF more
<1>6. SumOf(more) \in Nat /\ SumOf(s) \in Nat
  <2>. HIDE DEF more
  <2>. QED  BY <1>3, SumAppend
<1>. HIDE DEF F, W, more
<1>7. SumOf(more) + s[j] = SumOf(s) + (s[j] + n)
  BY <1>4, <1>5, Zenon
<1>8. SumOf(more) = SumOf(s) + n
  <2>. DEFINE a == SumOf(more)
              b == SumOf(s)
              c == s[j]
  <2>1. a \in Nat /\ b \in Nat /\ c \in Nat /\ a + c = b + (c + n)
    BY <1>1, <1>6, <1>7
  <2>. HIDE DEF a, b, c
  <2>2. a = b + n
    BY <2>1
  <2>. QED  BY <2>2 DEF a, b
<1>. QED  BY <1>8 DEF more

\* A send to another is counted by the hook, under the sender.
LEMMA HookCounts ==
  ASSUME BandwidthTypes, NEW p \in Party, NEW e \in Event, Counts(e), e.link[1] = p, e.size \in Nat,
         metric' = MetricHook(metric, e)
  PROVE  /\ metric' \in [total : Nat, by : AccountsOf(Party)]
         /\ metric'.total = metric.total + e.size
         /\ DOMAIN metric'.by = DOMAIN metric.by \cup {p}
         /\ BytesBy(metric, p)' = BytesBy(metric, p) + e.size
         /\ \A q \in Party \ {p} : BytesBy(metric, q)' = BytesBy(metric, q)
<1>. DEFINE n == e.size
            old == metric.by
            new == [q \in DOMAIN old \cup {p} |->
                      IF q = p THEN BytesBy(metric, p) + n ELSE old[q]]
<1>1. /\ metric.total \in Nat /\ old \in AccountsOf(Party)
      /\ BytesBy(metric, p) \in Nat
  BY CountTypes DEF BandwidthTypes
<1>2. metric' = [total |-> metric.total + n, by |-> new]
  BY DEF MetricHook
<1>3. metric'.total = metric.total + n /\ metric'.by = new
  BY <1>2
<1>4. PICK D \in SUBSET Party : old \in [D -> Nat]
  BY <1>1 DEF AccountsOf
<1>5. new \in [D \cup {p} -> Nat] /\ D \cup {p} \in SUBSET Party
  BY <1>1, <1>4
<1>6. new \in AccountsOf(Party) /\ DOMAIN new = DOMAIN old \cup {p}
  BY <1>5 DEF AccountsOf
<1>7. metric' \in [total : Nat, by : AccountsOf(Party)]
  <2>. HIDE DEF new
  <2>. QED  BY <1>1, <1>2, <1>6
<1>8. BytesBy(metric, p)' = BytesBy(metric, p) + n
  <2>1. BytesBy(metric, p)' = new[p]
    BY <1>3, <1>6 DEF BytesBy
  <2>. QED  BY <2>1
<1>9. ASSUME NEW q \in Party \ {p}
      PROVE  BytesBy(metric, q)' = BytesBy(metric, q)
  BY <1>3 DEF BytesBy
<1>. QED  BY <1>3, <1>6, <1>7, <1>8, <1>9

LEMMA SendKeepsBytes ==
  ASSUME TypeOK, TaskInv, NestInv, BandwidthInv, NEW p \in Party, NEW to \in Party,
         NEW packet \in PacketChoices, SendPacket(p, to, packet)
  PROVE  BandwidthInv'
<1>. DEFINE l == <<p, to>>
            e == SendData(p, l, packet)
            n == Size(packet)
<1>1. /\ Record(p, <<e>>) /\ calls' = calls
      /\ spent' = IF Loopback(l) THEN spent ELSE [spent EXCEPT ![p] = Spent(p, n)]
  BY DEF SendPacket
<1>2. Frame(p) /\ TraceTypes /\ BandwidthTypes
  BY SendNest DEF NestInv, BandwidthInv
<1>3. l \in Link /\ l[1] = p
  BY DEF Link
<1>4. e \in Event /\ n \in Nat
  BY <1>3, EventTypes, SizeNat, TraceAssumption DEF SendData, TransferType
<1>5. e.type = "SendData" /\ e.link = l /\ e.size = n
  BY DEF SendData, Transfer
<1>. HIDE DEF e, l, n
<1>6. CASE Loopback(l)
  <2>1. ~Counts(e) /\ spent' = spent
    BY <1>1, <1>5, <1>6 DEF Counts
  <2>. QED  BY <1>1, <1>2, <1>4, <1>5, <2>1, QuietOne
<1>7. CASE ~Loopback(l)
  <2>. DEFINE account == spent[p]
              after == AddTo(account, [path |-> calls[p], bytes |-> n])
  <2>1. Counts(e)
    BY <1>5, <1>7 DEF Counts
  <2>2. traces'[p] = Append(traces[p], e) /\ traces[p] \in Seq(Event) /\ calls[p] \in Path
    <3>1. traces' = [traces EXCEPT ![p] = Append(traces[p], e)]
      BY <1>1, <1>2, <1>4, RecordOne
    <3>. QED  BY <1>2, <3>1 DEF TraceTypes, Path
  <2>3. account \in AccountsOf(Path) /\ BytesBy(metric, p) \in Nat
    BY <1>2, CountTypes DEF BandwidthTypes
  <2>4. [path |-> calls[p], bytes |-> n] \in Call
    BY <1>4, <2>2 DEF Call
  <2>5. after \in AccountsOf(Path) /\ DOMAIN after = DOMAIN account \cup {calls[p]}
    <3>. DEFINE line == [path |-> calls[p], bytes |-> n]
    <3>1. line \in Call /\ line.path = calls[p]
      BY <2>4
    <3>. HIDE DEF line, account
    <3>2. AddTo(account, line) \in AccountsOf(Path)
          /\ DOMAIN AddTo(account, line) = DOMAIN account \cup {line.path}
      BY <2>3, <3>1, AddToType
    <3>. QED  BY <3>1, <3>2 DEF line
  <2>6. spent' = [spent EXCEPT ![p] = after]
    <3>1. Spent(p, n) = after
      BY DEF Spent, AddTo, AmountAt
    <3>. QED  BY <1>1, <1>7, <3>1
  <2>. HIDE DEF account, after
  <2>7. spent'[p] = after /\ spent' \in [Party -> AccountsOf(Path)]
        /\ \A q \in Party \ {p} : spent'[q] = spent[q]
    BY <1>2, <2>5, <2>6 DEF BandwidthTypes
  <2>8. metric' = MetricHook(metric, e)
    BY <1>1, <1>4, HookOne DEF Record
  <2>9. /\ metric' \in [total : Nat, by : AccountsOf(Party)]
        /\ metric'.total = metric.total + n
        /\ DOMAIN metric'.by = DOMAIN metric.by \cup {p}
        /\ BytesBy(metric, p)' = BytesBy(metric, p) + n
        /\ \A q \in Party \ {p} : BytesBy(metric, q)' = BytesBy(metric, q)
    BY <1>2, <1>3, <1>4, <1>5, <2>1, <2>8, HookCounts
  <2>10. PartyBytes(p)'
    <3>1. BytesOK(traces[p], calls[p], account, BytesBy(metric, p))
      BY DEF BandwidthInv, PartyBytes, account
    <3>2. BytesOK(Append(traces[p], e), calls[p],
                  AddTo(account, [path |-> calls[p], bytes |-> e.size]), BytesBy(metric, p) + e.size)
      BY <1>4, <2>1, <2>2, <2>3, <3>1, CountedEvent
    <3>3. BytesOK(traces'[p], calls'[p], spent'[p], BytesBy(metric, p)')
      BY <1>1, <1>5, <2>2, <2>7, <2>9, <3>2 DEF after
    <3>4. p \in DOMAIN metric'.by /\ DOMAIN spent'[p] # {}
      BY <2>5, <2>7, <2>9
    <3>. QED  BY <3>3, <3>4 DEF PartyBytes
  <2>11. ASSUME NEW q \in Party \ {p}
         PROVE  PartyBytes(q)'
    <3>1. PartyBytes(q)
      BY DEF BandwidthInv
    <3>2. /\ traces'[q] = traces[q] /\ calls'[q] = calls[q] /\ spent'[q] = spent[q]
          /\ BytesBy(metric, q)' = BytesBy(metric, q)
      BY <1>2, <2>7, <2>9 DEF Frame
    <3>3. q \in DOMAIN metric'.by <=> q \in DOMAIN metric.by
      BY <2>9
    <3>. QED  BY <3>1, <3>2, <3>3 DEF PartyBytes
  <2>12. SumOf(BytesByParty)' = SumOf(BytesByParty) + n
    <3>1. PICK j \in 1..Len(PartyOrder) : PartyOrder[j] = p
      BY PartyAssumption
    <3>. DEFINE s == BytesByParty
                m == Len(PartyOrder)
    <3>2. /\ s \in Seq(Nat) /\ Len(s) = m
          /\ \A i \in 1..m : s[i] = BytesBy(metric, PartyOrder[i])
      BY <1>2, CountTypes DEF BandwidthTypes
    <3>3. /\ BytesByParty' \in Seq(Nat) /\ Len(BytesByParty') = m
          /\ \A i \in 1..m : BytesByParty'[i] = BytesBy(metric, PartyOrder[i])'
      <4>1. (metric \in [total : Nat, by : AccountsOf(Party)])'
        BY <2>9
      <4>2. (/\ BytesByParty \in Seq(Nat) /\ Len(BytesByParty) = Len(PartyOrder)
             /\ \A i \in 1..Len(PartyOrder) : BytesByParty[i] = BytesBy(metric, PartyOrder[i]))'
        BY <4>1, CountTypes, PTL
      <4>. QED  BY <4>2
    <3>4. ASSUME NEW i \in 1..m
          PROVE  BytesByParty'[i] = IF i = j THEN s[j] + n ELSE s[i]
      <4>1. PartyOrder[i] \in Party /\ (PartyOrder[i] = p <=> i = j)
        BY <3>1, PartyAssumption
      <4>. QED  BY <2>9, <3>1, <3>2, <3>3, <4>1
    <3>5. BytesByParty' = Put(s, j, s[j] + n)
      <4>. DEFINE x == s[j] + n
      <4>1. x \in Nat /\ j \in 1..Len(s)
        BY <1>4, <3>1, <3>2
      <4>. HIDE DEF s, x, m
      <4>2. /\ Put(s, j, x) \in Seq(Nat) /\ Len(Put(s, j, x)) = m
            /\ \A i \in 1..m : Put(s, j, x)[i] = IF i = j THEN x ELSE s[i]
        BY <3>2, <4>1, ExceptSeq DEF Put
      <4>3. \A i \in 1..m : BytesByParty'[i] = Put(s, j, x)[i]
        BY <3>4, <4>2 DEF x
      <4>4. BytesByParty' = Put(s, j, x)
        BY <3>3, <4>2, <4>3, SeqEqual
      <4>. QED  BY <4>4 DEF x
    <3>6. SumOf(Put(s, j, s[j] + n)) = SumOf(s) + n
      BY <1>4, <3>1, <3>2, SumBump
    <3>. QED  BY <3>5, <3>6
  <2>13. BandwidthTypes'
    BY <2>7, <2>9 DEF BandwidthTypes
  <2>14. metric'.total = SumOf(BytesByParty)'
    BY <2>9, <2>12 DEF BandwidthInv
  <2>. QED  BY <2>10, <2>11, <2>13, <2>14 DEF BandwidthInv
<1>. QED  BY <1>6, <1>7

LEMMA ReceiveKeepsBytes ==
  ASSUME TypeOK, LinkInv, TaskInv, NestInv, Logged, BandwidthInv, NEW p \in Party,
         ReceivePacket(p) \/ ResumeReceive(p)
  PROVE  BandwidthInv'
<1>1. Receives(p) /\ RecordReceipt(p)
  BY ReceiveCases
<1>2. Frame(p) /\ TraceTypes /\ UNCHANGED <<packets, calls, spent>>
  BY <1>1, ReceiveNest DEF NestInv, RecordReceipt
<1>3. CASE received' = received
  <2>1. Record(p, <<>>)
    BY <1>1, <1>3 DEF RecordReceipt
  <2>2. traces' = traces
    BY <1>2, <2>1, RecordNone
  <2>3. metric' = metric
    <3>1. <<>> \in Seq(Event) /\ \A i \in 1..Len(<<>>) : ~Counts(<<>>[i])
      OBVIOUS
    <3>. QED  BY <2>1, <3>1, HookQuiet DEF Record
  <2>. QED  BY <1>2, <2>2, <2>3, QuietStep DEF BandwidthInv, PartyBytes
<1>4. CASE received' # received
  <2>. DEFINE e(l) == ReceiveData(p, l, packets[l][received'[l]])
  <2>1. PICK l \in Link : received'[l] # received[l] /\ Record(p, <<e(l)>>)
    BY <1>1, <1>4 DEF RecordReceipt
  <2>2. packets[l][received'[l]] \in PacketChoices
    <3>1. received'[l] \in 1..Len(packets[l])
      BY <1>1, <2>1, ReceiveLinks DEF Logged
    <3>. QED  BY <1>2, <3>1 DEF TraceTypes
  <2>3. e(l) \in Event
    BY <2>2, EventTypes DEF ReceiveData, TransferType
  <2>4. e(l).type = "ReceiveData"
    BY DEF ReceiveData, Transfer
  <2>. HIDE DEF e
  <2>5. ~Counts(e(l)) /\ calls'[p] = calls[p]
    BY <1>2, <2>4 DEF Counts
  <2>. QED  BY <1>2, <2>1, <2>3, <2>4, <2>5, QuietOne
<1>. QED  BY <1>3, <1>4

LEMMA BandwidthInit == TraceInit => BandwidthInv
<1>. SUFFICES ASSUME TraceInit PROVE BandwidthInv
  OBVIOUS
<1>1. metric = [total |-> 0, by |-> <<>>] /\ metric.total = 0 /\ metric.by = <<>>
  BY DEF TraceInit, NoBytes
<1>2. DOMAIN <<>> = {} /\ <<>> \in AccountsOf(Party) /\ <<>> \in AccountsOf(Path)
  BY EmptyAccount
<1>3. metric \in [total : Nat, by : AccountsOf(Party)]
  BY <1>1, <1>2
<1>4. BandwidthTypes
  <2>1. spent \in [Party -> AccountsOf(Path)]
    BY <1>2 DEF TraceInit
  <2>. QED  BY <1>3, <2>1 DEF BandwidthTypes
<1>5. \A p : BytesBy(metric, p) = 0
  BY <1>1, <1>2 DEF BytesBy
<1>6. ASSUME NEW p \in Party PROVE PartyBytes(p)
  <2>1. traces[p] = <<>> /\ calls[p] = <<>> /\ spent[p] = <<>>
    BY DEF TraceInit
  <2>2. ~(p \in DOMAIN metric.by) /\ DOMAIN spent[p] = {}
    BY <1>1, <1>2, <2>1
  <2>. QED  BY <1>5, <2>1, <2>2, NothingSent DEF PartyBytes
<1>7. SumOf(BytesByParty) = 0
  <2>. DEFINE Q == {s \in Seq(Nat) : (\A i \in 1..Len(s) : s[i] = 0) => SumOf(s) = 0}
  <2>1. <<>> \in Q
    BY SumAppend
  <2>2. ASSUME NEW s \in Seq(Nat), NEW n \in Nat, s \in Q
        PROVE  Append(s, n) \in Q
    <3>. DEFINE more == Append(s, n)
    <3>1. /\ more \in Seq(Nat) /\ Len(more) = Len(s) + 1 /\ Len(s) \in Nat
          /\ more[Len(s) + 1] = n
          /\ \A i \in 1..Len(s) : more[i] = s[i]
      BY AppendProperties
    <3>2. SumOf(more) = SumOf(s) + n
      BY SumAppend
    <3>. HIDE DEF more
    <3>3. ASSUME \A i \in 1..Len(more) : more[i] = 0
          PROVE  SumOf(more) = 0
      <4>1. n = 0 /\ \A i \in 1..Len(s) : s[i] = 0
        BY <3>1, <3>3
      <4>2. SumOf(s) = 0
        BY <2>2, <4>1
      <4>. QED  BY <3>2, <4>1, <4>2
    <3>4. more \in Q
      BY <3>1, <3>3
    <3>. QED  BY <3>4 DEF more
  <2>3. BytesByParty \in Q
    <3>1. BytesByParty \in Seq(Nat)
      BY <1>3, CountTypes
    <3>. HIDE DEF Q
    <3>. QED  BY <2>1, <2>2, <3>1, ScopeFold!SeqInduction
  <2>4. \A i \in 1..Len(BytesByParty) : BytesByParty[i] = 0
    BY <1>3, <1>5, CountTypes
  <2>. QED  BY <2>3, <2>4
<1>. QED  BY <1>1, <1>4, <1>6, <1>7 DEF BandwidthInv

LEMMA BandwidthStep ==
  TypeOK /\ LinkInv /\ TaskInv /\ NestInv /\ Logged /\ BandwidthInv
    /\ [TraceNext]_<<vars, traceVars>> => BandwidthInv'
<1>. SUFFICES ASSUME TypeOK, LinkInv, TaskInv, NestInv, Logged, BandwidthInv,
                     [TraceNext]_<<vars, traceVars>>
     PROVE  BandwidthInv'
  OBVIOUS
<1>1. ASSUME UNCHANGED traceVars
      PROVE  BandwidthInv'
  <2>1. UNCHANGED <<calls, traces, metric, spent>>
    BY <1>1 DEF traceVars
  <2>. QED  BY <2>1, QuietStep DEF BandwidthInv, PartyBytes
<1>2. CASE Silent
  BY <1>1, <1>2 DEF Silent
<1>3. ASSUME NEW p \in Party, PartyStep(p)
      PROVE  BandwidthInv'
  BY <1>3, StartKeepsBytes, ExecuteKeepsBytes, ReturnKeepsBytes, CompleteKeepsBytes,
     PanicKeepsBytes, SendKeepsBytes, ReceiveKeepsBytes DEF PartyStep
<1>4. CASE UNCHANGED <<vars, traceVars>>
  BY <1>1, <1>4
<1>. QED  BY <1>2, <1>3, <1>4 DEF TraceNext

LEMMA BandwidthImplies == BandwidthInv => BandwidthAccounted
<1>. SUFFICES ASSUME BandwidthInv PROVE BandwidthAccounted
  OBVIOUS
<1>1. ASSUME NEW p \in Party
      PROVE  /\ \A path \in DOMAIN ByPath(Report(p)) :
                  \E c \in DOMAIN spent[p] : path = <<Simulation>> \o c
             /\ \A c \in DOMAIN spent[p] :
                  AmountAt(ByPath(Report(p)), <<Simulation>> \o c) = spent[p][c]
             /\ BytesOf(Report(p)) = BytesBy(metric, p)
             /\ p \in DOMAIN metric.by <=> DOMAIN spent[p] # {}
  <2>. DEFINE found == Calls(traces[p]).found
  <2>1. Report(p) = Lines(found)
    BY DEF Report
  <2>2. /\ OpenOK(Calls(traces[p]), calls[p])
        /\ Accounted(found, spent[p], BytesBy(metric, p))
        /\ p \in DOMAIN metric.by <=> DOMAIN spent[p] # {}
    BY DEF BandwidthInv, PartyBytes, BytesOK
  <2>3. found \in Seq(Call)
    BY <2>2 DEF OpenOK, Listing
  <2>. HIDE DEF found
  <2>4. ASSUME NEW path \in DOMAIN ByPath(Lines(found))
        PROVE  \E c \in DOMAIN spent[p] : path = <<Simulation>> \o c
    <3>1. PICK i \in 1..Len(found) : found[i].path = path /\ found[i].bytes > 0
      BY <2>3, PathsFound
    <3>. QED  BY <2>2, <3>1 DEF Accounted, Chain
  <2>5. ASSUME NEW c \in DOMAIN spent[p]
        PROVE  AmountAt(ByPath(Lines(found)), <<Simulation>> \o c) = spent[p][c]
    <3>1. c \in Path
      BY DEF BandwidthInv, BandwidthTypes, AccountsOf
    <3>. QED  BY <2>2, <3>1 DEF Accounted, Amount, Chain, AmountAt
  <2>6. BytesOf(Lines(found)) = BytesBy(metric, p)
    BY <2>2 DEF Accounted, Bytes
  <2>. QED  BY <2>1, <2>2, <2>4, <2>5, <2>6
<1>2. metric.total = SumOf(BytesByParty)
  BY DEF BandwidthInv
<1>. QED  BY <1>1, <1>2 DEF BandwidthAccounted

-----------------------------------------------------------------------------
\* The three accounts of a party's bytes agree, in any run: its report gives each
\* chain of calls what was sent to others while it was running, and the hook counted
\* the same in all, whatever calls are nested, repeated or failed.
THEOREM AccountsAgree == TraceSpec => []BandwidthAccounted
<1>1. TraceSpec => []BandwidthInv
  BY BandwidthInit, BandwidthStep, NestInvariant, SimulatorInvariants, PTL DEF TraceSpec
<1>. QED  BY <1>1, BandwidthImplies, PTL

=============================================================================
