----------------------------- MODULE TraceProofs ------------------------------
(***************************************************************************)
(* The traces of a simulated run: proofs of TracesNest and TransfersMatch, *)
(* for every network, every choice of packets and protocols and traces of  *)
(* any length.                                                             *)
(***************************************************************************)
EXTENDS Trace, TaskProofs

-----------------------------------------------------------------------------
(***************************************************************************)
(* A run with traces is a run of the simulator, so all that is proved      *)
(* about Simulator holds while the traces are recorded.                    *)
(***************************************************************************)
LEMMA TraceStepRuns == [TraceNext]_<<vars, traceVars>> => [Next]_vars
<1>. SUFFICES ASSUME [TraceNext]_<<vars, traceVars>> PROVE [Next]_vars
  OBVIOUS
<1>1. CASE Silent
  BY <1>1 DEF Silent, Next, ExecutorStep
<1>2. ASSUME NEW p \in Party, PartyStep(p)
      PROVE  [Next]_vars
  <2>1. CASE StartParty(p)
    BY <2>1 DEF StartParty, Next, ExecutorStep
  <2>2. CASE (\E id \in SubProtocols : Execute(p, id)) \/ \E result \in {"Ok", "Err"} : Return(p, result)
    <3>1. UNCHANGED vars
      BY <2>2 DEF Execute, Return
    <3>. QED  BY <3>1
  <2>3. CASE Complete(p) \/ Panic(p)
    BY <2>3 DEF Complete, Panic, Next, ProtocolStep
  <2>4. ASSUME NEW to \in Party, NEW packet \in PacketChoices, SendPacket(p, to, packet)
        PROVE  [Next]_vars
    <3>1. Delay(<<p, to>>, packet) \in Delays
      BY TraceAssumption DEF Delay, Link
    <3>2. Send(p, to, Delay(<<p, to>>, packet))
      BY <2>4 DEF SendPacket
    <3>. QED  BY <3>1, <3>2 DEF Next, ProtocolStep
  <2>5. CASE ReceivePacket(p)
    BY <2>5 DEF ReceivePacket, Next, ProtocolStep
  <2>6. CASE ResumeReceive(p)
    BY <2>6 DEF ResumeReceive, Next, ExecutorStep
  <2>. QED  BY <1>2, <2>1, <2>2, <2>3, <2>4, <2>5, <2>6 DEF PartyStep
<1>3. CASE UNCHANGED <<vars, traceVars>>
  BY <1>3
<1>. QED  BY <1>1, <1>2, <1>3 DEF TraceNext

\* The runs with traces are runs of the simulator: recording the events of a run
\* constrains neither the switchboard nor the executor, and the delay a packet's
\* size costs is one of the delays a send may have.
THEOREM TracedRunsSimulate == TraceSpec => Spec
<1>1. TraceInit => Init
  BY DEF TraceInit
<1>. QED  BY <1>1, TraceStepRuns, PTL DEF TraceSpec, Spec

-----------------------------------------------------------------------------
(***************************************************************************)
(* Events, and what is read from a trace by folding over it.               *)
(***************************************************************************)
Parts == Seq((Label \cup {UnknownElem}) \X Nat)

Event ==
  [type : {"Start", "Stop", "Output"}, timestamp : Nat]
    \cup [type : {"ProtocolBegin", "ProtocolEnd"}, timestamp : Nat, protocol_name : ProtocolId]
    \cup [type : TransferType, timestamp : Nat, link : Link, size : Nat, content_count : Parts]

ScopeFold == INSTANCE FoldLemmas
  WITH S <- Seq(ProtocolId), E <- Event, base <- <<>>, Op <- Scopes

DepthFold == INSTANCE FoldLemmas
  WITH S <- Nat, E <- Event, base <- 0, Op <- Indent

TransferFold == INSTANCE FoldLemmas
  WITH S <- [TransferType -> [Link -> Seq(Event)]], E <- Event, base <- NoTransfers,
       Op <- Transferred

CountFold == INSTANCE FoldLemmas
  WITH S <- Parts, E <- Element, base <- <<>>, Op <- Counted

SizeFold == INSTANCE FoldLemmas
  WITH S <- Nat, E <- Element, base <- 0, Op <- LAMBDA total, element : total + element.bytes

TotalFold == INSTANCE FoldLemmas
  WITH S <- Nat, E <- (Label \cup {UnknownElem}) \X Nat, base <- 0, Op <- AddCount

LEMMA ScopesAppend ==
  /\ OpenScopes(<<>>) = <<>>
  /\ \A trace \in Seq(Event), e \in Event :
       OpenScopes(Append(trace, e)) = Scopes(OpenScopes(trace), e)
<1>1. ASSUME NEW trace PROVE OpenScopes(trace) = ScopeFold!Value(trace)
  BY Zenon DEF OpenScopes, ScopeFold!Value, FoldLeft, MapThenFoldSet, Max,
               ScopeFold!FoldLeft, ScopeFold!MapThenFoldSet, ScopeFold!Max
<1>. QED  BY <1>1, ScopeFold!FoldEmpty, ScopeFold!FoldAppend, Zenon

LEMMA DepthAppend ==
  /\ DisplayDepth(<<>>) = 0
  /\ \A trace \in Seq(Event), e \in Event :
       DisplayDepth(Append(trace, e)) = Indent(DisplayDepth(trace), e)
<1>1. ASSUME NEW trace PROVE DisplayDepth(trace) = DepthFold!Value(trace)
  BY Zenon DEF DisplayDepth, DepthFold!Value, FoldLeft, MapThenFoldSet, Max,
               DepthFold!FoldLeft, DepthFold!MapThenFoldSet, DepthFold!Max
<1>. QED  BY <1>1, DepthFold!FoldEmpty, DepthFold!FoldAppend, Zenon

LEMMA TransferLink ==
  ASSUME NEW e \in Event, e.type \in TransferType
  PROVE  e.link \in Link
BY DEF Event, TransferType

LEMMA TransfersAppend ==
  /\ Transfers(<<>>) = NoTransfers
  /\ \A trace \in Seq(Event), e \in Event :
       Transfers(Append(trace, e)) = Transferred(Transfers(trace), e)
  /\ \A trace \in Seq(Event) : Transfers(trace) \in [TransferType -> [Link -> Seq(Event)]]
<1>1. ASSUME NEW trace PROVE Transfers(trace) = TransferFold!Value(trace)
  BY Zenon DEF Transfers, TransferFold!Value, FoldLeft, MapThenFoldSet, Max,
               TransferFold!FoldLeft, TransferFold!MapThenFoldSet, TransferFold!Max
<1>2. NoTransfers \in [TransferType -> [Link -> Seq(Event)]]
  BY DEF NoTransfers
<1>3. ASSUME NEW found \in [TransferType -> [Link -> Seq(Event)]], NEW e \in Event
      PROVE  Transferred(found, e) \in [TransferType -> [Link -> Seq(Event)]]
  <2>1. CASE e.type \in TransferType
    <3>1. e.link \in Link
      BY <2>1, TransferLink
    <3>2. Append(found[e.type][e.link], e) \in Seq(Event)
      BY <2>1, <3>1, AppendProperties
    <3>. QED  BY <2>1, <3>1, <3>2 DEF Transferred
  <2>2. CASE e.type \notin TransferType
    BY <2>2 DEF Transferred
  <2>. QED  BY <2>1, <2>2
<1>. QED
  BY <1>1, <1>2, <1>3, TransferFold!FoldEmpty, TransferFold!FoldAppend, TransferFold!FoldType, Zenon

LEMMA CompositionAppend ==
  /\ Composition(<<>>) = <<>>
  /\ \A packet \in Seq(Element), e \in Element :
       Composition(Append(packet, e)) = Counted(Composition(packet), e)
  /\ \A packet \in Seq(Element) : Composition(packet) \in Parts
<1>1. ASSUME NEW packet PROVE Composition(packet) = CountFold!Value(packet)
  BY Zenon DEF Composition, CountFold!Value, FoldLeft, MapThenFoldSet, Max,
               CountFold!FoldLeft, CountFold!MapThenFoldSet, CountFold!Max
<1>2. <<>> \in Parts
  BY DEF Parts
<1>3. ASSUME NEW parts \in Parts, NEW e \in Element
      PROVE  Counted(parts, e) \in Parts
  <2>1. LabelOf(e) \in Label \cup {UnknownElem}
    BY DEF LabelOf, Element
  <2>2. CASE \E k \in DOMAIN parts : parts[k][1] = LabelOf(e)
    <3>1. Counted(parts, e) =
            [k \in DOMAIN parts |->
               IF parts[k][1] = LabelOf(e) THEN <<LabelOf(e), parts[k][2] + 1>> ELSE parts[k]]
      BY <2>2 DEF Counted
    <3>2. DOMAIN parts = 1..Len(parts) /\ Len(parts) \in Nat
      BY DEF Parts
    <3>3. \A k \in 1..Len(parts) : parts[k] \in (Label \cup {UnknownElem}) \X Nat
      BY DEF Parts
    <3>4. \A k \in 1..Len(parts) :
            <<LabelOf(e), parts[k][2] + 1>> \in (Label \cup {UnknownElem}) \X Nat
      BY <2>1, <3>3
    <3>5. Counted(parts, e) \in [1..Len(parts) -> (Label \cup {UnknownElem}) \X Nat]
      BY <3>1, <3>2, <3>3, <3>4
    <3>. QED  BY <3>2, <3>5, SeqDef DEF Parts
  <2>3. CASE ~ \E k \in DOMAIN parts : parts[k][1] = LabelOf(e)
    <3>1. Counted(parts, e) = Append(parts, <<LabelOf(e), 1>>)
      BY <2>3 DEF Counted
    <3>. QED  BY <2>1, <3>1, AppendProperties DEF Parts
  <2>. QED  BY <2>2, <2>3
<1>. QED
  BY <1>1, <1>2, <1>3, CountFold!FoldEmpty, CountFold!FoldAppend, CountFold!FoldType, Zenon

LEMMA TotalAppend ==
  /\ Total(<<>>) = 0
  /\ \A parts \in Parts, part \in (Label \cup {UnknownElem}) \X Nat :
       Total(Append(parts, part)) = Total(parts) + part[2]
  /\ \A parts \in Parts : Total(parts) \in Nat
<1>1. ASSUME NEW parts PROVE Total(parts) = TotalFold!Value(parts)
  BY Zenon DEF Total, TotalFold!Value, FoldLeft, MapThenFoldSet, Max,
               TotalFold!FoldLeft, TotalFold!MapThenFoldSet, TotalFold!Max
<1>2. \A n \in Nat, part \in (Label \cup {UnknownElem}) \X Nat : AddCount(n, part) \in Nat
  BY DEF AddCount
<1>3. 0 \in Nat
  OBVIOUS
<1>. QED
  BY <1>1, <1>2, <1>3, TotalFold!FoldEmpty, TotalFold!FoldAppend, TotalFold!FoldType,
     Zenon DEF Parts, AddCount

-----------------------------------------------------------------------------
(***************************************************************************)
(* The breakdown of a packet into labels.                                  *)
(***************************************************************************)
Labels == Label \cup {UnknownElem}

\* Replacing the last element of a sequence, or one before it.
LEMMA ReplaceInAppend ==
  ASSUME NEW T, NEW r \in Seq(T), NEW e \in T, NEW u \in T
  PROVE  /\ [Append(r, e) EXCEPT ![Len(r) + 1] = u] = Append(r, u)
         /\ \A j \in 1..Len(r) :
              [Append(r, e) EXCEPT ![j] = u] = Append([r EXCEPT ![j] = u], e)
<1>. DEFINE n == Len(r)
            s == Append(r, e)
<1>1. /\ s \in Seq(T) /\ Len(s) = n + 1 /\ n \in Nat
      /\ s[n + 1] = e
      /\ \A i \in 1..n : s[i] = r[i]
  BY AppendProperties
<1>. HIDE DEF s
<1>2. [s EXCEPT ![n + 1] = u] = Append(r, u)
  <2>. DEFINE a == [s EXCEPT ![n + 1] = u]
              b == Append(r, u)
  <2>1. /\ a \in Seq(T) /\ Len(a) = n + 1
        /\ \A i \in 1..(n + 1) : a[i] = IF i = n + 1 THEN u ELSE s[i]
    <3>1. n + 1 \in 1..Len(s)
      BY <1>1
    <3>. HIDE DEF n
    <3>. QED  BY <1>1, <3>1, ExceptSeq
  <2>2. /\ b \in Seq(T) /\ Len(b) = n + 1
        /\ \A i \in 1..n : b[i] = r[i]
        /\ b[n + 1] = u
    BY AppendProperties
  <2>. HIDE DEF a, b
  <2>3. \A i \in 1..(n + 1) : a[i] = b[i]
    BY <1>1, <2>1, <2>2
  <2>4. a = b
    BY <2>1, <2>2, <2>3, SeqEqual
  <2>. QED  BY <2>4 DEF a, b
<1>3. ASSUME NEW j \in 1..n
      PROVE  [s EXCEPT ![j] = u] = Append([r EXCEPT ![j] = u], e)
  <2>. DEFINE a == [s EXCEPT ![j] = u]
              c == [r EXCEPT ![j] = u]
              b == Append(c, e)
  <2>1. /\ a \in Seq(T) /\ Len(a) = n + 1
        /\ \A i \in 1..(n + 1) : a[i] = IF i = j THEN u ELSE s[i]
    <3>1. j \in 1..Len(s)
      BY <1>1
    <3>. QED  BY <1>1, <3>1, ExceptSeq
  <2>2. /\ c \in Seq(T) /\ Len(c) = n
        /\ \A i \in 1..n : c[i] = IF i = j THEN u ELSE r[i]
    BY ExceptSeq
  <2>. HIDE DEF c
  <2>3. /\ b \in Seq(T) /\ Len(b) = n + 1
        /\ \A i \in 1..n : b[i] = c[i]
        /\ b[n + 1] = e
    BY <2>2, AppendProperties
  <2>. HIDE DEF a, b
  <2>4. \A i \in 1..(n + 1) : a[i] = b[i]
    BY <1>1, <2>1, <2>2, <2>3, SMTT(20)
  <2>5. a = b
    BY <2>1, <2>3, <2>4, SeqEqual
  <2>. QED  BY <2>5 DEF a, b, c
<1>. QED
  BY <1>2, <1>3 DEF s

\* Counting one more under a label that is there adds one to the total.
LEMMA TotalBump ==
  ASSUME NEW parts \in Parts, NEW k \in DOMAIN parts, NEW x \in Labels
  PROVE  /\ [parts EXCEPT ![k] = <<x, @[2] + 1>>] \in Parts
         /\ Total([parts EXCEPT ![k] = <<x, @[2] + 1>>]) = Total(parts) + 1
<1>. DEFINE Bump(r, j) == [r EXCEPT ![j] = <<x, @[2] + 1>>]
            Q == {r \in Parts : \A j \in 1..Len(r) : Total(Bump(r, j)) = Total(r) + 1}
            T == Labels \X Nat
<1>0. Parts = Seq(T)
  BY DEF Parts, Labels
<1>1. ASSUME NEW r \in Parts, NEW j \in 1..Len(r)
      PROVE  Bump(r, j) \in Parts /\ Len(Bump(r, j)) = Len(r) /\ <<x, r[j][2] + 1>> \in T
  <2>1. r[j] \in T
    BY <1>0
  <2>2. <<x, r[j][2] + 1>> \in T
    BY <2>1
  <2>3. Bump(r, j) = [r EXCEPT ![j] = <<x, r[j][2] + 1>>]
    OBVIOUS
  <2>. HIDE DEF T, Bump
  <2>. QED  BY <1>0, <2>2, <2>3, ExceptSeq
<1>2. <<>> \in Q
  BY <1>0
<1>3. ASSUME NEW r \in Seq(T), NEW e \in T, r \in Q
      PROVE  Append(r, e) \in Q
  <2>. DEFINE n == Len(r)
              s == Append(r, e)
  <2>1. /\ s \in Seq(T) /\ Len(s) = n + 1 /\ n \in Nat
        /\ s[n + 1] = e
        /\ \A i \in 1..n : s[i] = r[i]
    BY AppendProperties
  <2>. HIDE DEF n, s
  <2>2. ASSUME NEW j \in 1..(n + 1)
        PROVE  Total(Bump(s, j)) = Total(s) + 1
    <3>1. Total(s) = Total(r) + e[2] /\ e[2] \in Nat /\ Total(r) \in Nat
      BY <1>0, TotalAppend DEF s, Labels
    <3>2. CASE j = n + 1
      <4>. DEFINE u == <<x, e[2] + 1>>
      <4>1. u \in T
        OBVIOUS
      <4>2. Bump(s, j) = Append(r, u)
        <5>1. Bump(s, j) = [s EXCEPT ![j] = u]
          BY <2>1, <3>2
        <5>2. j = Len(r) + 1
          BY <3>2 DEF n
        <5>. HIDE DEF Bump, u, T
        <5>3. [Append(r, e) EXCEPT ![Len(r) + 1] = u] = Append(r, u)
          BY <4>1, ReplaceInAppend
        <5>. QED  BY <5>1, <5>2, <5>3 DEF s
      <4>3. Total(Append(r, u)) = Total(r) + u[2]
        <5>. HIDE DEF u
        <5>. QED  BY <1>0, <4>1, TotalAppend DEF Labels
      <4>4. u[2] = e[2] + 1
        OBVIOUS
      <4>. HIDE DEF Bump, u
      <4>. QED  BY <3>1, <4>2, <4>3, <4>4
    <3>3. CASE j \in 1..n
      <4>1. Bump(s, j) = Append(Bump(r, j), e)
        <5>. DEFINE u == <<x, r[j][2] + 1>>
        <5>1. Bump(s, j) = [s EXCEPT ![j] = u] /\ Bump(r, j) = [r EXCEPT ![j] = u]
          BY <2>1, <3>3
        <5>2. u \in T
          BY <1>0, <1>1, <3>3 DEF n
        <5>. HIDE DEF Bump, u, T
        <5>. QED  BY <3>3, <5>1, <5>2, ReplaceInAppend DEF s, n
      <4>2. Bump(r, j) \in Parts
        BY <1>0, <1>1, <3>3 DEF n
      <4>3. Total(Bump(r, j)) = Total(r) + 1
        BY <1>3, <3>3 DEF n
      <4>. HIDE DEF Bump
      <4>4. Total(Append(Bump(r, j), e)) = Total(Bump(r, j)) + e[2]
        BY <4>2, TotalAppend DEF Labels
      <4>. QED  BY <3>1, <4>1, <4>3, <4>4
    <3>. QED  BY <2>1, <3>2, <3>3
  <2>. HIDE DEF Bump
  <2>3. s \in Q
    BY <1>0, <2>1, <2>2
  <2>. QED  BY <2>3 DEF s
<1>4. parts \in Q
  <2>. HIDE DEF Q, T
  <2>. QED  BY <1>0, <1>2, <1>3, ScopeFold!SeqInduction
<1>5. k \in 1..Len(parts)
  BY <1>0
<1>. QED
  BY <1>1, <1>4, <1>5

LabelsDistinct(parts) == \A i, j \in DOMAIN parts : parts[i][1] = parts[j][1] => i = j

\* The breakdown of a packet counts each of its elements once, and lists each of its
\* labels once (composition).
LEMMA CompositionCounts ==
  ASSUME NEW packet \in Seq(Element)
  PROVE  /\ Total(Composition(packet)) = Len(packet)
         /\ LabelsDistinct(Composition(packet))
<1>. DEFINE Q == {r \in Seq(Element) :
                    Total(Composition(r)) = Len(r) /\ LabelsDistinct(Composition(r))}
<1>1. <<>> \in Q
  BY CompositionAppend, TotalAppend DEF LabelsDistinct
<1>2. ASSUME NEW r \in Seq(Element), NEW e \in Element, r \in Q
      PROVE  Append(r, e) \in Q
  <2>. DEFINE parts == Composition(r)
              more == Counted(parts, e)
              x == LabelOf(e)
  <2>1. x \in Labels
    BY DEF LabelOf, Element, Labels
  <2>2. Composition(Append(r, e)) = more
    BY CompositionAppend
  <2>3. /\ parts \in Parts
        /\ Total(parts) = Len(r)
        /\ \A i, j \in DOMAIN parts : parts[i][1] = parts[j][1] => i = j
    BY <1>2, CompositionAppend DEF LabelsDistinct
  <2>4. DOMAIN parts = 1..Len(parts) /\ Len(parts) \in Nat
    BY <2>3 DEF Parts
  <2>. HIDE DEF parts, x
  <2>5. Total(more) = Total(parts) + 1 /\ LabelsDistinct(more)
    <3>1. ASSUME NEW k \in DOMAIN parts, parts[k][1] = x
          PROVE  Total(more) = Total(parts) + 1 /\ LabelsDistinct(more)
      <4>1. more = [i \in DOMAIN parts |->
                      IF parts[i][1] = x THEN <<x, parts[i][2] + 1>> ELSE parts[i]]
        BY <3>1 DEF Counted, x
      <4>2. more = [parts EXCEPT ![k] = <<x, @[2] + 1>>]
        BY <2>3, <2>4, <3>1, <4>1 DEF Parts
      <4>3. Total(more) = Total(parts) + 1
        <5>. HIDE DEF more
        <5>. QED  BY <2>1, <2>3, <4>2, TotalBump
      <4>4. \A i \in DOMAIN parts : more[i][1] = parts[i][1]
        BY <4>1
      <4>5. DOMAIN more = DOMAIN parts
        BY <4>1
      <4>. QED  BY <2>3, <4>3, <4>4, <4>5 DEF LabelsDistinct
    <3>2. CASE \A k \in DOMAIN parts : parts[k][1] # x
      <4>. DEFINE one == <<x, 1>>
      <4>1. more = Append(parts, one)
        BY <3>2 DEF Counted, x
      <4>2. one \in Labels \X Nat
        BY <2>1
      <4>3. Total(more) = Total(parts) + 1
        BY <2>3, <4>1, <4>2, TotalAppend DEF Labels
      <4>4. /\ DOMAIN more = 1..(Len(parts) + 1)
            /\ more[Len(parts) + 1][1] = x
            /\ \A i \in 1..Len(parts) : more[i] = parts[i]
        BY <2>3, <4>1, <4>2 DEF Parts, Labels
      <4>5. \A i \in 1..(Len(parts) + 1) : i \in DOMAIN parts \/ i = Len(parts) + 1
        BY <2>4
      <4>. HIDE DEF more
      <4>. QED  BY <2>3, <2>4, <3>2, <4>3, <4>4, <4>5 DEF LabelsDistinct
    <3>. QED  BY <3>1, <3>2
  <2>6. Append(r, e) \in Seq(Element) /\ Len(Append(r, e)) = Len(r) + 1
    OBVIOUS
  <2>. HIDE DEF more
  <2>. QED  BY <2>2, <2>3, <2>5, <2>6
<1>. HIDE DEF Q
<1>3. packet \in Q
  BY <1>1, <1>2, ScopeFold!SeqInduction
<1>. QED
  BY <1>3 DEF Q

LEMMA SizeNat ==
  ASSUME NEW packet \in Seq(Element)
  PROVE  Size(packet) \in Nat
<1>1. Size(packet) = SizeFold!Value(packet)
  BY Zenon DEF Size, SizeFold!Value, FoldLeft, MapThenFoldSet, Max,
               SizeFold!FoldLeft, SizeFold!MapThenFoldSet, SizeFold!Max
<1>2. \A n \in Nat, e \in Element : n + e.bytes \in Nat
  BY DEF Element
<1>3. 0 \in Nat
  OBVIOUS
<1>. QED
  BY <1>1, <1>2, <1>3, SizeFold!FoldType, Zenon

-----------------------------------------------------------------------------
(***************************************************************************)
(* The life of a party: the inductive invariant of TracesNest.             *)
(*                                                                         *)
(* TracesNest is not inductive: a second Start, or an event after Stop,    *)
(* would break it.  A task starts its protocol once because only a party   *)
(* with an empty trace is in the ready queue without a pending receive,    *)
(* and records nothing more because a task that ended is never polled.     *)
(***************************************************************************)
TraceTypes ==
  /\ packets \in [Link -> Seq(PacketChoices)]
  /\ calls \in [Party -> Seq(ProtocolId)]
  /\ traces \in [Party -> Seq(Event)]

\* The marks of a trace at the time `now` of its party, which has ended or not.
Marks(trace, now, ended) ==
  /\ \A i, j \in DOMAIN trace : i < j => trace[i].timestamp <= trace[j].timestamp
  /\ \A i \in DOMAIN trace :
       /\ trace[i].timestamp <= now
       /\ trace[i].type = "Start" <=> i = 1
       /\ trace[i].type = "Output" <=> ended /\ i = Len(trace) - 1
       /\ trace[i].type = "Stop" <=> ended /\ i = Len(trace)
  /\ ended => Len(trace) >= 2

NestOK(p) ==
  /\ OpenScopes(traces[p]) = calls[p]
  /\ DisplayDepth(traces[p]) = Len(calls[p])
  /\ Marks(traces[p], clocks[p], p \in finished)

\* A trace is empty until its party's task is polled, and until then the task waits
\* in the ready queue for nothing but its turn.
Begun(p) == traces[p] = <<>> => current # p /\ ~Pending(p) /\ p \notin finished

Unbegun(p) == InReadyQueue(p) /\ ~Pending(p) => traces[p] = <<>>

\* Every packet sent is kept.
Logged == \A l \in Link : Len(packets[l]) = sent[l]

NestInv ==
  /\ TraceTypes
  /\ \A p \in Party : NestOK(p) /\ Begun(p) /\ Unbegun(p)

-----------------------------------------------------------------------------
(***************************************************************************)
(* What a step of a party does to the simulator.                           *)
(***************************************************************************)
\* A receive, whichever it is: a poll of p's task that moves no clock, and schedules
\* a timer at most.
Receives(p) ==
  /\ \E fut \in Future : PollsTask(p, fut)
  /\ current = p \/ Pending(p)
  /\ TimersOnly
  /\ UNCHANGED <<clocks, last_arrivals, sent>>

LEMMA ReceiveCases ==
  ASSUME TypeOK, TaskInv, NEW p \in Party, ReceivePacket(p) \/ ResumeReceive(p)
  PROVE  Receives(p) /\ RecordReceipt(p)
<1>1. ASSUME NEW s \in Party, RecvFrom(p, s)
      PROVE  Receives(p)
  <2>1. /\ current = p /\ Poll(p, Recv(s))
        /\ UNCHANGED <<ready_queue, finished, events, seq, clocks, last_arrivals, sent>>
    BY <1>1 DEF RecvFrom, Operates, ReceiveFrame
  <2>2. Recv(s) \in Future /\ WellFormed(Recv(s)) /\ Recv(s).kind # "None"
    BY DEF Recv, Future, WellFormed
  <2>3. PollsTask(p, Recv(s))
    BY <2>1, <2>2, FirstPoll
  <2>. QED  BY <2>1, <2>2, <2>3, NoEventsChange DEF Receives
<1>2. ASSUME RecvFromAny(p)
      PROVE  Receives(p)
  <2>1. /\ current = p /\ Poll(p, RecvAny)
        /\ UNCHANGED <<ready_queue, finished, events, seq, clocks, last_arrivals, sent>>
    BY <1>2 DEF RecvFromAny, Operates, ReceiveFrame
  <2>2. RecvAny \in Future /\ WellFormed(RecvAny) /\ RecvAny.kind # "None"
    BY DEF RecvAny, Future, WellFormed
  <2>3. PollsTask(p, RecvAny)
    BY <2>1, <2>2, FirstPoll
  <2>. QED  BY <2>1, <2>2, <2>3, NoEventsChange DEF Receives
<1>3. ASSUME NEW s \in Party, NEW timeout \in Timeouts, RecvFromWithTimeout(p, s, timeout)
      PROVE  Receives(p)
  <2>. DEFINE fut == RecvTimeout(p, s, timeout)
  <2>1. /\ current = p /\ Poll(p, fut)
        /\ ArmTimer(<<s, p>>, clocks[p] + timeout)
        /\ UNCHANGED <<ready_queue, finished, clocks, last_arrivals, sent>>
    BY <1>3 DEF RecvFromWithTimeout, Operates, ReceiveFrame
  <2>2. fut \in Future /\ clocks[p] + timeout \in Nat /\ <<s, p>> \in Link
    BY FutureTypes DEF Link
  <2>3. WellFormed(fut) /\ fut.kind # "None"
    BY DEF RecvTimeout, WellFormed
  <2>. HIDE DEF fut
  <2>4. PollsTask(p, fut)
    BY <2>1, <2>2, <2>3, FirstPoll
  <2>5. TimersOnly
    BY <2>1, <2>2, ArmTimerQuiet
  <2>. QED  BY <2>1, <2>2, <2>4, <2>5 DEF Receives
<1>4. ASSUME NEW timeout \in Timeouts, RecvAnyWithTimeout(p, timeout)
      PROVE  Receives(p)
  <2>. DEFINE fut == RecvAnyTimeout(p, timeout)
  <2>1. /\ current = p /\ Poll(p, fut)
        /\ ArmTimer(<<PartyOrder[1], p>>, clocks[p] + timeout)
        /\ UNCHANGED <<ready_queue, finished, clocks, last_arrivals, sent>>
    BY <1>4 DEF RecvAnyWithTimeout, Operates, ReceiveFrame
  <2>2. fut \in Future /\ clocks[p] + timeout \in Nat /\ <<PartyOrder[1], p>> \in Link
    BY FutureTypes, FirstParty DEF Link
  <2>3. WellFormed(fut) /\ fut.kind # "None"
    BY DEF RecvAnyTimeout, WellFormed
  <2>. HIDE DEF fut
  <2>4. PollsTask(p, fut)
    BY <2>1, <2>2, <2>3, FirstPoll
  <2>5. TimersOnly
    BY <2>1, <2>2, ArmTimerQuiet
  <2>. QED  BY <2>1, <2>2, <2>4, <2>5 DEF Receives
<1>5. ASSUME ResumeTask(p)
      PROVE  Receives(p)
  <2>1. Pending(p) /\ UNCHANGED <<events, seq, clocks, last_arrivals, sent>>
    BY <1>5 DEF ResumeTask
  <2>. QED  BY <1>5, <2>1, SecondPoll, NoEventsChange DEF Receives
<1>. QED
  BY <1>1, <1>2, <1>3, <1>4, <1>5 DEF ReceivePacket, ResumeReceive

\* A step of p's task runs a task that has not ended, and leaves the other parties,
\* their traces and all the clocks alone.
Frame(p) ==
  /\ p \notin finished
  /\ clocks' = clocks
  /\ current' \in {p, NoParty}
  /\ ~InReadyQueue(p)'
  /\ \A q \in Party \ {p} :
       /\ traces'[q] = traces[q] /\ calls'[q] = calls[q]
       /\ q \in finished' <=> q \in finished
       /\ Pending(q)' <=> Pending(q)
       /\ InReadyQueue(q)' <=> InReadyQueue(q)

\* A task that is running stays out of the ready queue.
LEMMA RunningFrame ==
  ASSUME TypeOK, TaskInv, NEW p \in Party, current = p, UNCHANGED <<ready_queue, awaiting>>
  PROVE  /\ p \notin finished
         /\ ~InReadyQueue(p)'
         /\ \A q \in Party : Pending(q)' <=> Pending(q)
         /\ \A q \in Party : InReadyQueue(q)' <=> InReadyQueue(q)
<1>1. p \notin finished /\ ~InReadyQueue(p)
  BY DEF TaskInv, PolledTaskRuns, ReadyTasksLive, Live
<1>2. \A q \in Party : Pending(q)' <=> Pending(q)
  BY DEF Pending
<1>3. \A q \in Party : InReadyQueue(q)' <=> InReadyQueue(q)
  BY DEF InReadyQueue
<1>. QED  BY <1>1, <1>2, <1>3

LEMMA ReceiveFrameKept ==
  ASSUME TypeOK, TaskInv, NEW p \in Party, Receives(p)
  PROVE  /\ p \notin finished /\ finished' = finished
         /\ clocks' = clocks
         /\ current' \in {p, NoParty}
         /\ ~InReadyQueue(p)'
         /\ \A q \in Party \ {p} :
              (Pending(q)' <=> Pending(q)) /\ (InReadyQueue(q)' <=> InReadyQueue(q))
<1>1. PICK fut \in Future : PollsTask(p, fut)
  BY DEF Receives
<1>2. \A q \in Party \ {p} : awaiting'[q] = awaiting[q]
  BY <1>1, PollOthers DEF PollsTask
<1>3. \A q \in Party \ {p} : Pending(q)' <=> Pending(q)
  BY <1>2 DEF Pending
<1>4. current' \in {p, NoParty}
  BY <1>1 DEF PollsTask, Poll, PollPacket, PollTimeout, PollPending
<1>. QED  BY <1>1, <1>3, <1>4 DEF PollsTask, Live, Receives

-----------------------------------------------------------------------------
(***************************************************************************)
(* Recording.                                                              *)
(***************************************************************************)
LEMMA RecordNone ==
  ASSUME TraceTypes, NEW p \in Party, Record(p, <<>>)
  PROVE  traces' = traces
<1>1. traces[p] \o <<>> = traces[p]
  BY DEF TraceTypes
<1>. QED  BY <1>1 DEF Record, TraceTypes

LEMMA RecordOne ==
  ASSUME TraceTypes, NEW p \in Party, NEW e \in Event, Record(p, <<e>>)
  PROVE  traces' = [traces EXCEPT ![p] = Append(traces[p], e)]
<1>1. traces[p] \o <<e>> = Append(traces[p], e)
  BY AppendIsConcat DEF TraceTypes
<1>. QED  BY <1>1 DEF Record

LEMMA PairConcat ==
  ASSUME NEW e \in Event, NEW f \in Event
  PROVE  /\ <<e>> \in Seq(Event) /\ <<f>> \in Seq(Event) /\ <<e, f>> \in Seq(Event)
         /\ <<e>> \o <<f>> = <<e, f>>
<1>1. <<e>> \in Seq(Event) /\ <<f>> \in Seq(Event)
  OBVIOUS
<1>2. <<e, f>> \in Seq(Event)
  OBVIOUS
<1>3. Append(<<e>>, f) = <<e, f>>
  <2>. DEFINE a == Append(<<e>>, f)
              b == <<e, f>>
  <2>1. a \in Seq(Event) /\ Len(a) = 2 /\ a[1] = e /\ a[2] = f
    <3>1. Len(<<e>>) = 1 /\ <<e>>[1] = e
      OBVIOUS
    <3>. QED  BY <1>1, <3>1, AppendProperties
  <2>2. b \in Seq(Event) /\ Len(b) = 2 /\ b[1] = e /\ b[2] = f
    BY <1>2
  <2>. HIDE DEF a, b
  <2>3. \A i \in 1..2 : a[i] = b[i]
    BY <2>1, <2>2
  <2>4. a = b
    BY <2>1, <2>2, <2>3, SeqEqual
  <2>. QED  BY <2>4 DEF a, b
<1>4. Append(<<e>>, f) = <<e>> \o <<f>>
  BY <1>1, AppendIsConcat
<1>. QED  BY <1>1, <1>2, <1>3, <1>4

LEMMA RecordTwo ==
  ASSUME TraceTypes, NEW p \in Party, NEW e \in Event, NEW f \in Event, Record(p, <<e, f>>)
  PROVE  traces' = [traces EXCEPT ![p] = Append(Append(traces[p], e), f)]
<1>1. traces[p] \o <<e, f>> = Append(Append(traces[p], e), f)
  <2>. DEFINE t == traces[p]
  <2>1. t \in Seq(Event)
    BY DEF TraceTypes
  <2>. HIDE DEF t
  <2>2. Append(t, e) = t \o <<e>> /\ Append(t, e) \in Seq(Event)
    BY <2>1, AppendIsConcat, AppendProperties
  <2>3. Append(Append(t, e), f) = (t \o <<e>>) \o <<f>>
    BY <2>2, AppendIsConcat
  <2>4. <<e>> \in Seq(Event) /\ <<f>> \in Seq(Event) /\ <<e>> \o <<f>> = <<e, f>>
    BY PairConcat
  <2>5. (t \o <<e>>) \o <<f>> = t \o (<<e>> \o <<f>>)
    BY <2>1, <2>4, ConcatAssociative
  <2>. QED  BY <2>3, <2>4, <2>5 DEF t
<1>. QED  BY <1>1 DEF Record

LEMMA RecordThree ==
  ASSUME TraceTypes, NEW p \in Party, NEW e \in Event, NEW f \in Event, NEW g \in Event,
         Record(p, <<e>> \o <<f, g>>)
  PROVE  traces' = [traces EXCEPT ![p] = Append(Append(Append(traces[p], e), f), g)]
<1>1. traces[p] \o (<<e>> \o <<f, g>>) = Append(Append(Append(traces[p], e), f), g)
  <2>. DEFINE t == traces[p]
              u == Append(t, e)
              v == Append(u, f)
  <2>1. t \in Seq(Event)
    BY DEF TraceTypes
  <2>. HIDE DEF t
  <2>2. u = t \o <<e>> /\ u \in Seq(Event)
    BY <2>1, AppendIsConcat, AppendProperties
  <2>. HIDE DEF u
  <2>3. v = u \o <<f>> /\ v \in Seq(Event)
    BY <2>2, AppendIsConcat, AppendProperties
  <2>. HIDE DEF v
  <2>4. Append(v, g) = v \o <<g>>
    BY <2>3, AppendIsConcat
  <2>5. /\ <<e>> \in Seq(Event) /\ <<f>> \in Seq(Event) /\ <<g>> \in Seq(Event)
        /\ <<f, g>> \in Seq(Event) /\ <<f>> \o <<g>> = <<f, g>>
    BY PairConcat
  <2>6. (u \o <<f>>) \o <<g>> = u \o (<<f>> \o <<g>>)
    BY <2>2, <2>5, ConcatAssociative
  <2>7. (t \o <<e>>) \o <<f, g>> = t \o (<<e>> \o <<f, g>>)
    BY <2>1, <2>5, ConcatAssociative
  <2>. QED  BY <2>2, <2>3, <2>4, <2>5, <2>6, <2>7 DEF t, u, v
<1>. QED  BY <1>1 DEF Record

LEMMA MarksOfParty ==
  ASSUME NEW trace, NEW now, NEW p, NEW ended
  PROVE  /\ p \in ended => (Marks(trace, now, p \in ended) <=> Marks(trace, now, TRUE))
         /\ p \notin ended => (Marks(trace, now, p \in ended) <=> Marks(trace, now, FALSE))
BY Zenon DEF Marks

\* What a trace that grew by an event shows.
LEMMA MarksAppend ==
  ASSUME NEW trace \in Seq(Event), NEW e \in Event, NEW now \in Nat, trace # <<>>,
         Marks(trace, now, FALSE), e.timestamp = now,
         e.type \notin {"Start", "Output", "Stop"}
  PROVE  Marks(Append(trace, e), now, FALSE)
<1>. DEFINE n == Len(trace)
            more == Append(trace, e)
<1>1. /\ n \in Nat \ {0}
      /\ DOMAIN trace = 1..n /\ DOMAIN more = 1..(n + 1)
      /\ more[n + 1] = e
      /\ \A i \in 1..n : more[i] = trace[i]
  BY AppendProperties, LenProperties, EmptySeq
<1>2. \A i \in 1..n : trace[i].timestamp \in Nat
  <2>1. \A i \in 1..n : trace[i] \in Event
    OBVIOUS
  <2>. QED  BY <2>1 DEF Event
<1>. HIDE DEF n, more
<1>3. \A i \in 1..(n + 1) : i \in 1..n \/ i = n + 1
  BY <1>1
<1>4. \A i, j \in 1..(n + 1) : i < j => more[i].timestamp <= more[j].timestamp
  BY <1>1, <1>2, <1>3, SMTT(20) DEF Marks
<1>5. \A i \in 1..(n + 1) :
        /\ more[i].timestamp <= now
        /\ more[i].type = "Start" <=> i = 1
        /\ more[i].type # "Output"
        /\ more[i].type # "Stop"
  BY <1>1, <1>2, <1>3 DEF Marks
<1>. QED  BY <1>1, <1>4, <1>5 DEF Marks, more

LEMMA MarksBegin ==
  ASSUME NEW e \in Event, NEW f \in Event, NEW now \in Nat,
         e.timestamp = now, f.timestamp = now, e.type = "Start",
         f.type \notin {"Start", "Output", "Stop"}
  PROVE  Marks(<<e, f>>, now, FALSE)
BY DEF Marks

\* The trace of a party that ended: its last protocol's end, Output and Stop.
LEMMA MarksEnd ==
  ASSUME NEW trace \in Seq(Event), NEW e \in Event, NEW f \in Event, NEW now \in Nat,
         trace # <<>>, Marks(trace, now, FALSE),
         e.timestamp = now, f.timestamp = now, e.type = "Output", f.type = "Stop"
  PROVE  Marks(Append(Append(trace, e), f), now, TRUE)
<1>. DEFINE n == Len(trace)
            less == Append(trace, e)
            more == Append(less, f)
<1>1. /\ n \in Nat \ {0}
      /\ DOMAIN trace = 1..n
      /\ less \in Seq(Event) /\ Len(less) = n + 1 /\ less[n + 1] = e
      /\ \A i \in 1..n : less[i] = trace[i]
  BY AppendProperties, LenProperties, EmptySeq
<1>. HIDE DEF n, less
<1>2. /\ DOMAIN more = 1..(n + 2) /\ Len(more) = n + 2
      /\ more[n + 2] = f /\ more[n + 1] = e
      /\ \A i \in 1..n : more[i] = trace[i]
  <2>1. /\ more \in Seq(Event) /\ Len(more) = (n + 1) + 1
        /\ more[(n + 1) + 1] = f
        /\ \A i \in 1..(n + 1) : more[i] = less[i]
    BY <1>1, AppendProperties
  <2>. HIDE DEF more
  <2>2. (n + 1) + 1 = n + 2 /\ n + 1 \in 1..(n + 1) /\ \A i \in 1..n : i \in 1..(n + 1)
    BY <1>1
  <2>. QED  BY <1>1, <2>1, <2>2
<1>3. \A i \in 1..n : trace[i].timestamp \in Nat
  <2>1. \A i \in 1..n : trace[i] \in Event
    BY DEF n
  <2>. QED  BY <2>1 DEF Event
<1>. HIDE DEF more
<1>4. \A i \in 1..(n + 2) : i \in 1..n \/ i = n + 1 \/ i = n + 2
  BY <1>1
<1>5. ASSUME NEW i \in 1..(n + 2), NEW j \in 1..(n + 2), i < j
      PROVE  more[i].timestamp <= more[j].timestamp
  <2>1. more[i].timestamp <= now
    BY <1>1, <1>2, <1>4 DEF Marks
  <2>2. CASE j \in 1..n
    <3>1. i \in 1..n
      BY <1>1, <1>5, <2>2
    <3>. QED  BY <1>1, <1>2, <1>5, <2>2, <3>1 DEF Marks
  <2>3. CASE j = n + 1 \/ j = n + 2
    <3>1. more[j].timestamp = now
      BY <1>2, <2>3
    <3>. QED  BY <2>1, <3>1
  <2>. QED  BY <1>4, <2>2, <2>3
<1>6. \A i \in 1..(n + 2) :
        /\ more[i].timestamp <= now
        /\ more[i].type = "Start" <=> i = 1
        /\ more[i].type = "Output" <=> i = n + 1
        /\ more[i].type = "Stop" <=> i = n + 2
  BY <1>1, <1>2, <1>3, <1>4 DEF Marks
<1>7. Len(more) - 1 = n + 1 /\ Len(more) >= 2
  BY <1>1, <1>2
<1>. QED  BY <1>2, <1>5, <1>6, <1>7 DEF Marks, more, less

LEMMA MarksLater ==
  ASSUME NEW trace \in Seq(Event), NEW ended \in BOOLEAN, NEW now \in Nat, NEW later \in Nat,
         Marks(trace, now, ended), now <= later
  PROVE  Marks(trace, later, ended)
<1>1. \A i \in DOMAIN trace : trace[i].timestamp \in Nat
  <2>1. \A i \in DOMAIN trace : trace[i] \in Event
    OBVIOUS
  <2>. QED  BY <2>1 DEF Event
<1>. QED  BY <1>1 DEF Marks

\* The events a party may record.
LEMMA EventTypes ==
  ASSUME TypeOK, NEW p \in Party
  PROVE  /\ Start(p) \in Event /\ Stop(p) \in Event /\ Output(p) \in Event
         /\ \A id \in ProtocolId : ProtocolBegin(p, id) \in Event /\ ProtocolEnd(p, id) \in Event
         /\ \A type \in TransferType, l \in Link, packet \in PacketChoices :
              Transfer(type, p, l, packet) \in Event
<1>1. clocks[p] \in Nat
  BY DEF TypeOK
<1>2. Start(p) \in Event /\ Stop(p) \in Event /\ Output(p) \in Event
  BY <1>1 DEF Start, Stop, Output, Event
<1>3. \A id \in ProtocolId : ProtocolBegin(p, id) \in Event /\ ProtocolEnd(p, id) \in Event
  BY <1>1 DEF ProtocolBegin, ProtocolEnd, Event
<1>4. ASSUME NEW type \in TransferType, NEW l \in Link, NEW packet \in PacketChoices
      PROVE  Transfer(type, p, l, packet) \in Event
  <2>1. packet \in Seq(Element)
    BY TraceAssumption
  <2>2. Size(packet) \in Nat /\ Composition(packet) \in Parts
    BY <2>1, SizeNat, CompositionAppend
  <2>. QED  BY <1>1, <2>2 DEF Transfer, Event
<1>. QED  BY <1>2, <1>3, <1>4

\* What one more event does to the open scopes and to the depth.
LEMMA ScopeEvents ==
  ASSUME NEW trace \in Seq(Event), NEW e \in Event, NEW open \in Seq(ProtocolId),
         OpenScopes(trace) = open, DisplayDepth(trace) = Len(open)
  PROVE  /\ e.type = "ProtocolBegin" =>
              /\ OpenScopes(Append(trace, e)) = Append(open, e.protocol_name)
              /\ DisplayDepth(Append(trace, e)) = Len(open) + 1
         /\ e.type = "ProtocolEnd" /\ open # <<>> /\ e.protocol_name = Last(open) =>
              /\ OpenScopes(Append(trace, e)) = Front(open)
              /\ DisplayDepth(Append(trace, e)) = Len(open) - 1
         /\ e.type \notin {"ProtocolBegin", "ProtocolEnd"} =>
              /\ OpenScopes(Append(trace, e)) = open
              /\ DisplayDepth(Append(trace, e)) = Len(open)
<1>1. /\ OpenScopes(Append(trace, e)) = Scopes(open, e)
      /\ DisplayDepth(Append(trace, e)) = Indent(Len(open), e)
  BY ScopesAppend, DepthAppend
<1>2. Len(open) \in Nat /\ (open # <<>> => Len(open) # 0)
  BY EmptySeq
<1>. QED  BY <1>1, <1>2 DEF Scopes, Indent

-----------------------------------------------------------------------------
(***************************************************************************)
(* The steps of a party.                                                   *)
(***************************************************************************)
Own(p) ==
  /\ TraceTypes'
  /\ traces'[p] # <<>>
  /\ NestOK(p)'

LEMMA StartNest ==
  ASSUME TypeOK, TaskInv, NestInv, NEW p \in Party, StartParty(p)
  PROVE  Frame(p) /\ Own(p)
<1>. DEFINE e == Start(p)
            f == ProtocolBegin(p, RootProtocol)
            t == Append(<<>>, e)
            u == Append(t, f)
<1>1. /\ StartTask(p)
      /\ calls' = [calls EXCEPT ![p] = <<RootProtocol>>]
      /\ Record(p, <<e, f>>)
      /\ packets' = packets
  BY DEF StartParty
<1>2. /\ PopsReady(p) /\ ~Pending(p) /\ p \notin finished /\ current' = p
      /\ UNCHANGED <<finished, awaiting, clocks>>
  BY <1>1 DEF StartTask, PopsReady, Live, switchboardVars
<1>3. /\ InReadyQueue(p)
      /\ ~InReadyQueue(p)'
      /\ \A q \in Party \ {p} : InReadyQueue(q)' <=> InReadyQueue(q)
  BY <1>2, PopReady DEF TaskInv
<1>4. traces[p] = <<>>
  BY <1>2, <1>3 DEF NestInv, Unbegun
<1>5. RootProtocol \in ProtocolId /\ clocks[p] \in Nat
  BY DEF ProtocolId, TypeOK
<1>6. e \in Event /\ f \in Event
  BY <1>5, EventTypes
<1>7. traces' = [traces EXCEPT ![p] = u]
  BY <1>1, <1>4, <1>6, RecordTwo DEF NestInv
<1>8. t \in Seq(Event) /\ u \in Seq(Event) /\ u # <<>>
  <2>. HIDE DEF e, f
  <2>. QED  BY <1>6, AppendProperties, EmptySeq
<1>9. Frame(p)
  BY <1>1, <1>2, <1>3, <1>7 DEF Frame, NestInv, TraceTypes, Pending
<1>10. TraceTypes'
  <2>1. <<RootProtocol>> \in Seq(ProtocolId)
    BY <1>5
  <2>. HIDE DEF u
  <2>. QED  BY <1>1, <1>7, <1>8, <2>1 DEF NestInv, TraceTypes
<1>11. OpenScopes(u) = <<RootProtocol>> /\ DisplayDepth(u) = 1
  <2>. HIDE DEF e, f
  <2>1. e.type = "Start" /\ f.type = "ProtocolBegin" /\ f.protocol_name = RootProtocol
    BY DEF e, f, Start, ProtocolBegin
  <2>2. OpenScopes(t) = <<>> /\ DisplayDepth(t) = Len(<<>>)
    <3>1. <<>> \in Seq(Event)
      OBVIOUS
    <3>2. OpenScopes(t) = Scopes(<<>>, e) /\ DisplayDepth(t) = Indent(0, e)
      BY <1>6, <3>1, ScopesAppend, DepthAppend
    <3>. QED  BY <2>1, <3>2 DEF Scopes, Indent
  <2>3. OpenScopes(u) = Append(<<>>, RootProtocol) /\ DisplayDepth(u) = Len(<<>>) + 1
    <3>1. <<>> \in Seq(ProtocolId)
      OBVIOUS
    <3>. HIDE DEF t
    <3>. QED  BY <1>6, <1>8, <2>1, <2>2, <3>1, ScopeEvents
  <2>. QED  BY <2>3
<1>12. Marks(u, clocks[p], FALSE)
  <2>1. /\ e.timestamp = clocks[p] /\ f.timestamp = clocks[p]
        /\ e.type = "Start" /\ f.type = "ProtocolBegin"
    BY DEF Start, ProtocolBegin
  <2>. HIDE DEF e, f
  <2>2. u = <<e, f>>
    <3>1. t = <<e>>
      OBVIOUS
    <3>. QED  BY <1>6, <3>1, PairConcat, AppendIsConcat
  <2>. HIDE DEF u
  <2>. QED  BY <1>5, <1>6, <2>1, <2>2, MarksBegin
<1>13. NestOK(p)'
  <2>1. traces'[p] = u /\ calls'[p] = <<RootProtocol>> /\ ~(p \in finished')
    BY <1>1, <1>2, <1>7 DEF NestInv, TraceTypes
  <2>2. Len(<<RootProtocol>>) = 1 /\ clocks'[p] = clocks[p]
    BY <1>2
  <2>. HIDE DEF u
  <2>3. Marks(u, clocks[p], p \in finished')
    BY <1>12, <2>1, MarksOfParty
  <2>. QED  BY <1>11, <2>1, <2>2, <2>3 DEF NestOK
<1>14. traces'[p] # <<>>
  BY <1>7, <1>8 DEF NestInv, TraceTypes
<1>. QED  BY <1>9, <1>10, <1>13, <1>14 DEF Own

\* A running party records one event, and its calls change to match it.
LEMMA OneEvent ==
  ASSUME TypeOK, NestInv, NEW p \in Party, traces[p] # <<>>, p \notin finished,
         NEW e \in Event, Record(p, <<e>>), e.timestamp = clocks[p],
         e.type \notin {"Start", "Output", "Stop"},
         p \notin finished', clocks' = clocks,
         packets' \in [Link -> Seq(PacketChoices)], calls' \in [Party -> Seq(ProtocolId)],
         \/ e.type = "ProtocolBegin" /\ calls'[p] = Append(calls[p], e.protocol_name)
         \/ /\ e.type = "ProtocolEnd" /\ calls[p] # <<>>
            /\ e.protocol_name = Last(calls[p]) /\ calls'[p] = Front(calls[p])
         \/ e.type \notin {"ProtocolBegin", "ProtocolEnd"} /\ calls'[p] = calls[p]
  PROVE  Own(p) /\ \A q \in Party \ {p} : traces'[q] = traces[q]
<1>. DEFINE t == traces[p]
            u == Append(t, e)
            open == calls[p]
<1>1. /\ t \in Seq(Event) /\ open \in Seq(ProtocolId) /\ clocks[p] \in Nat
      /\ OpenScopes(t) = open /\ DisplayDepth(t) = Len(open)
      /\ Marks(t, clocks[p], FALSE)
  <2>1. t \in Seq(Event) /\ open \in Seq(ProtocolId) /\ clocks[p] \in Nat
    BY DEF NestInv, TraceTypes, TypeOK
  <2>2. /\ OpenScopes(t) = open /\ DisplayDepth(t) = Len(open)
        /\ Marks(t, clocks[p], p \in finished)
    BY DEF NestInv, NestOK
  <2>. HIDE DEF t, open
  <2>3. Marks(t, clocks[p], FALSE)
    BY <2>2, MarksOfParty, Zenon
  <2>. QED  BY <2>1, <2>2, <2>3, Zenon
<1>2. u \in Seq(Event) /\ u # <<>>
  <2>1. t \in Seq(Event)
    BY <1>1
  <2>. HIDE DEF t
  <2>. QED  BY <2>1, AppendProperties
<1>3. traces' = [traces EXCEPT ![p] = u]
  BY RecordOne DEF NestInv
<1>4. TraceTypes' /\ traces'[p] = u /\ \A q \in Party \ {p} : traces'[q] = traces[q]
  <2>. HIDE DEF u
  <2>. QED  BY <1>2, <1>3 DEF NestInv, TraceTypes
<1>5. Marks(u, clocks[p], FALSE)
  BY <1>1, MarksAppend
<1>6. OpenScopes(u) = calls'[p] /\ DisplayDepth(u) = Len(calls'[p])
  <2>1. calls'[p] \in Seq(ProtocolId)
    OBVIOUS
  <2>. HIDE DEF t, open
  <2>2. CASE e.type = "ProtocolBegin" /\ calls'[p] = Append(open, e.protocol_name)
    <3>1. e.protocol_name \in ProtocolId
      BY <2>2 DEF Event, TransferType
    <3>2. Len(Append(open, e.protocol_name)) = Len(open) + 1
      BY <1>1, <3>1, AppendProperties
    <3>. QED  BY <1>1, <2>2, <3>2, ScopeEvents
  <2>3. CASE /\ e.type = "ProtocolEnd" /\ open # <<>>
             /\ e.protocol_name = Last(open) /\ calls'[p] = Front(open)
    <3>1. Len(Front(open)) = Len(open) - 1
      BY <1>1, <2>3, EmptySeq DEF Front
    <3>. QED  BY <1>1, <2>3, <3>1, ScopeEvents
  <2>4. CASE e.type \notin {"ProtocolBegin", "ProtocolEnd"} /\ calls'[p] = open
    BY <1>1, <2>4, ScopeEvents
  <2>. QED  BY <2>2, <2>3, <2>4 DEF open
<1>7. NestOK(p)'
  <2>. HIDE DEF u
  <2>1. Marks(u, clocks[p], p \in finished')
    BY <1>5, MarksOfParty
  <2>. QED  BY <1>4, <1>6, <2>1 DEF NestOK
<1>. QED  BY <1>2, <1>4, <1>7 DEF Own

\* A party whose task runs has a trace, and has not ended.
LEMMA RunningBegun ==
  ASSUME TaskInv, NestInv, NEW p \in Party, current = p
  PROVE  traces[p] # <<>> /\ p \notin finished
BY DEF TaskInv, PolledTaskRuns, Live, NestInv, Begun

LEMMA ExecuteNest ==
  ASSUME TypeOK, TaskInv, NestInv, NEW p \in Party, NEW id \in SubProtocols, Execute(p, id)
  PROVE  Frame(p) /\ Own(p)
<1>. DEFINE e == ProtocolBegin(p, id)
<1>1. /\ current = p
      /\ calls' = [calls EXCEPT ![p] = Append(@, id)]
      /\ Record(p, <<e>>)
      /\ UNCHANGED <<packets, ready_queue, awaiting, current, finished, clocks>>
  BY DEF Execute, vars
<1>2. id \in ProtocolId
  BY DEF ProtocolId
<1>3. e \in Event
  BY <1>2, EventTypes
<1>4. e.type = "ProtocolBegin" /\ e.timestamp = clocks[p] /\ e.protocol_name = id
  BY DEF ProtocolBegin
<1>. HIDE DEF e
<1>5. /\ calls' \in [Party -> Seq(ProtocolId)]
      /\ calls'[p] = Append(calls[p], e.protocol_name)
      /\ \A q \in Party \ {p} : calls'[q] = calls[q]
  BY <1>1, <1>2, <1>4, AppendProperties DEF NestInv, TraceTypes
<1>6. packets' \in [Link -> Seq(PacketChoices)]
  BY <1>1 DEF NestInv, TraceTypes
<1>7. traces[p] # <<>> /\ p \notin finished /\ p \notin finished'
  BY <1>1, RunningBegun
<1>8. Own(p) /\ \A q \in Party \ {p} : traces'[q] = traces[q]
  BY <1>1, <1>3, <1>4, <1>5, <1>6, <1>7, OneEvent
<1>9. Frame(p)
  BY <1>1, <1>5, <1>8, RunningFrame DEF Frame
<1>. QED  BY <1>8, <1>9

LEMMA ReturnNest ==
  ASSUME TypeOK, TaskInv, NestInv, NEW p \in Party, NEW result, Return(p, result)
  PROVE  Frame(p) /\ Own(p)
<1>. DEFINE e == ProtocolEnd(p, Calling(p))
            open == calls[p]
<1>1. /\ current = p
      /\ Len(calls[p]) > 1
      /\ calls' = [calls EXCEPT ![p] = Front(@)]
      /\ Record(p, <<e>>)
      /\ UNCHANGED <<packets, ready_queue, awaiting, current, finished, clocks>>
  BY DEF Return, EndMarker, vars
<1>2. open \in Seq(ProtocolId) /\ open # <<>> /\ Last(open) \in ProtocolId
  <2>1. open \in Seq(ProtocolId)
    BY DEF NestInv, TraceTypes
  <2>2. open # <<>> /\ Len(open) \in 1..Len(open)
    BY <1>1, <2>1
  <2>. QED  BY <2>1, <2>2 DEF Last
<1>3. e \in Event
  BY <1>2, EventTypes DEF Calling
<1>4. e.type = "ProtocolEnd" /\ e.timestamp = clocks[p] /\ e.protocol_name = Last(calls[p])
  BY DEF ProtocolEnd, Calling
<1>. HIDE DEF e
<1>5. /\ calls' \in [Party -> Seq(ProtocolId)]
      /\ calls'[p] = Front(calls[p])
      /\ \A q \in Party \ {p} : calls'[q] = calls[q]
  <2>1. Front(open) \in Seq(ProtocolId)
    BY <1>2 DEF Front
  <2>. QED  BY <1>1, <2>1 DEF NestInv, TraceTypes
<1>6. packets' \in [Link -> Seq(PacketChoices)]
  BY <1>1 DEF NestInv, TraceTypes
<1>7. traces[p] # <<>> /\ p \notin finished /\ p \notin finished'
  BY <1>1, RunningBegun
<1>8. Own(p) /\ \A q \in Party \ {p} : traces'[q] = traces[q]
  BY <1>1, <1>2, <1>3, <1>4, <1>5, <1>6, <1>7, OneEvent
<1>9. Frame(p)
  BY <1>1, <1>5, <1>8, RunningFrame DEF Frame
<1>. QED  BY <1>8, <1>9

LEMMA PanicNest ==
  ASSUME TypeOK, TaskInv, NestInv, NEW p \in Party, Panic(p)
  PROVE  Frame(p) /\ Own(p)
<1>. DEFINE e == ProtocolEnd(p, Calling(p))
            open == calls[p]
<1>1. /\ current = p
      /\ Len(calls[p]) = 1
      /\ calls' = [calls EXCEPT ![p] = <<>>]
      /\ Record(p, <<e>>)
      /\ UNCHANGED <<packets, ready_queue, awaiting, current, finished, clocks>>
  BY DEF Panic, Fail, EndMarker, switchboardVars
<1>2. open \in Seq(ProtocolId) /\ open # <<>> /\ Last(open) \in ProtocolId /\ Front(open) = <<>>
  <2>1. open \in Seq(ProtocolId)
    BY DEF NestInv, TraceTypes
  <2>2. Len(open) = 1
    BY <1>1, Zenon
  <2>3. Front(open) = <<>>
    BY <1>1, SubSeqEmpty DEF Front
  <2>. HIDE DEF open
  <2>4. open # <<>> /\ Len(open) \in 1..Len(open)
    <3>1. Len(open) \in 1..Len(open)
      BY <2>2
    <3>2. open # <<>>
      BY <2>2
    <3>. QED  BY <3>1, <3>2
  <2>. QED  BY <2>1, <2>3, <2>4 DEF Last
<1>3. e \in Event
  BY <1>2, EventTypes DEF Calling
<1>4. e.type = "ProtocolEnd" /\ e.timestamp = clocks[p] /\ e.protocol_name = Last(calls[p])
  BY DEF ProtocolEnd, Calling
<1>. HIDE DEF e
<1>5. /\ calls' \in [Party -> Seq(ProtocolId)]
      /\ calls'[p] = Front(calls[p])
      /\ \A q \in Party \ {p} : calls'[q] = calls[q]
  BY <1>1, <1>2 DEF NestInv, TraceTypes
<1>6. packets' \in [Link -> Seq(PacketChoices)]
  BY <1>1 DEF NestInv, TraceTypes
<1>7. traces[p] # <<>> /\ p \notin finished /\ p \notin finished'
  BY <1>1, RunningBegun
<1>8. Own(p) /\ \A q \in Party \ {p} : traces'[q] = traces[q]
  BY <1>1, <1>2, <1>3, <1>4, <1>5, <1>6, <1>7, OneEvent
<1>9. Frame(p)
  BY <1>1, <1>5, <1>8, RunningFrame DEF Frame
<1>. QED  BY <1>8, <1>9

LEMMA SendNest ==
  ASSUME TypeOK, TaskInv, NestInv, NEW p \in Party, NEW to \in Party,
         NEW packet \in PacketChoices, SendPacket(p, to, packet)
  PROVE  Frame(p) /\ Own(p)
<1>. DEFINE l == <<p, to>>
            e == SendData(p, l, packet)
<1>1. /\ current = p
      /\ packets' = [packets EXCEPT ![l] = Append(@, packet)]
      /\ Record(p, <<e>>)
      /\ UNCHANGED <<calls, ready_queue, awaiting, current, finished, clocks>>
  BY DEF SendPacket, Send, Operates, PushPacket
<1>2. l \in Link
  BY DEF Link
<1>3. e \in Event
  BY <1>2, EventTypes DEF SendData, TransferType
<1>4. e.type = "SendData" /\ e.timestamp = clocks[p]
  BY DEF SendData, Transfer
<1>. HIDE DEF e, l
<1>5. packets' \in [Link -> Seq(PacketChoices)]
  BY <1>1, <1>2, AppendProperties DEF NestInv, TraceTypes
<1>6. calls' \in [Party -> Seq(ProtocolId)] /\ calls'[p] = calls[p]
  BY <1>1 DEF NestInv, TraceTypes
<1>7. traces[p] # <<>> /\ p \notin finished /\ p \notin finished'
  BY <1>1, RunningBegun
<1>8. Own(p) /\ \A q \in Party \ {p} : traces'[q] = traces[q]
  BY <1>1, <1>3, <1>4, <1>5, <1>6, <1>7, OneEvent
<1>9. Frame(p)
  BY <1>1, <1>8, RunningFrame DEF Frame
<1>. QED  BY <1>8, <1>9

\* A receive takes the next packet of one link to its party, or none.
LEMMA ReceiveLinks ==
  ASSUME TypeOK, LinkInv, NEW p \in Party, Receives(p)
  PROVE  /\ \/ UNCHANGED <<msg_queues, received>>
            \/ \E l \in Link : l[2] = p /\ Consumes(l)
         /\ \A l \in Link : received'[l] # received[l] =>
              /\ l[2] = p /\ Consumes(l)
              /\ received'[l] = received[l] + 1 /\ received'[l] \in 1..sent[l]
              /\ msg_queues[l][1].number = received[l] + 1 /\ 1 \in 1..Len(msg_queues[l])
              /\ \A k \in Link \ {l} : received'[k] = received[k]
<1>1. PICK fut \in Future : Poll(p, fut)
  BY DEF Receives, PollsTask
<1>2. \/ UNCHANGED <<msg_queues, received>>
      \/ \E l \in Link : l[2] = p /\ Consumes(l)
  <2>1. CASE PollPacket(p, fut)
    <3>1. PICK s \in fut.senders : IsChosen(s, p, fut.senders) /\ TakePacket(<<s, p>>)
      BY <2>1 DEF PollPacket
    <3>2. <<s, p>> \in Link /\ <<s, p>>[2] = p
      BY DEF Link, Future
    <3>3. msg_queues[<<s, p>>] # <<>>
      BY <3>1 DEF IsChosen, ReadySenders
    <3>. QED  BY <3>1, <3>2, <3>3 DEF Consumes, Receives
  <2>2. CASE PollTimeout(p, fut) \/ PollPending(p, fut)
    BY <2>2 DEF PollTimeout, PollPending
  <2>. QED  BY <1>1, <2>1, <2>2 DEF Poll
<1>3. ASSUME NEW l \in Link, received'[l] # received[l]
      PROVE  /\ l[2] = p /\ Consumes(l)
             /\ received'[l] = received[l] + 1 /\ received'[l] \in 1..sent[l]
             /\ msg_queues[l][1].number = received[l] + 1 /\ 1 \in 1..Len(msg_queues[l])
             /\ \A k \in Link \ {l} : received'[k] = received[k]
  <2>1. PICK k \in Link : k[2] = p /\ Consumes(k)
    BY <1>2, <1>3
  <2>2. /\ received' = [received EXCEPT ![k] = Head(msg_queues[k]).number]
        /\ msg_queues[k] # <<>>
    BY <2>1 DEF Consumes, TakePacket
  <2>3. k = l
    BY <1>3, <2>2 DEF TypeOK
  <2>4. /\ msg_queues[l] \in Seq(Packet) /\ msg_queues[l] # <<>>
        /\ received \in [Link -> Nat] /\ sent[l] \in Nat
    BY <2>2, <2>3 DEF TypeOK
  <2>5. Len(msg_queues[l]) \in Nat \ {0} /\ Head(msg_queues[l]) = msg_queues[l][1]
    BY <2>4, EmptySeq
  <2>6. /\ msg_queues[l][1].number = received[l] + 1
        /\ received[l] + Len(msg_queues[l]) <= sent[l]
    BY <2>5 DEF LinkInv, LinkOK
  <2>. QED  BY <2>1, <2>2, <2>3, <2>4, <2>5, <2>6
<1>. QED  BY <1>2, <1>3

LEMMA ReceiveNest ==
  ASSUME TypeOK, LinkInv, TaskInv, NestInv, Logged, NEW p \in Party,
         ReceivePacket(p) \/ ResumeReceive(p)
  PROVE  Frame(p) /\ Own(p)
<1>1. Receives(p) /\ RecordReceipt(p)
  BY ReceiveCases
<1>2. UNCHANGED <<packets, calls>>
  BY <1>1 DEF RecordReceipt
<1>3. traces[p] # <<>>
  BY <1>1 DEF Receives, NestInv, Begun
<1>4. /\ p \notin finished /\ finished' = finished /\ clocks' = clocks
      /\ current' \in {p, NoParty}
      /\ ~InReadyQueue(p)'
      /\ \A q \in Party \ {p} :
           (Pending(q)' <=> Pending(q)) /\ (InReadyQueue(q)' <=> InReadyQueue(q))
  BY <1>1, ReceiveFrameKept
<1>5. Own(p) /\ \A q \in Party \ {p} : traces'[q] = traces[q]
  <2>1. CASE received' = received
    <3>1. traces' = traces
      BY <1>1, <2>1, RecordNone DEF RecordReceipt, NestInv
    <3>2. NestOK(p)'
      BY <1>2, <1>4, <3>1 DEF NestInv, NestOK
    <3>. QED  BY <1>2, <1>3, <3>1, <3>2 DEF Own, NestInv, TraceTypes
  <2>2. CASE received' # received
    <3>. DEFINE taken(l) == packets[l][received'[l]]
                e(l) == ReceiveData(p, l, taken(l))
    <3>1. PICK l \in Link : received'[l] # received[l] /\ Record(p, <<e(l)>>)
      BY <1>1, <2>2 DEF RecordReceipt
    <3>2. taken(l) \in PacketChoices
      <4>1. received'[l] \in 1..Len(packets[l])
        BY <1>1, <3>1, ReceiveLinks DEF Logged
      <4>. QED  BY <4>1 DEF NestInv, TraceTypes
    <3>3. e(l) \in Event
      BY <3>2, EventTypes DEF ReceiveData, TransferType
    <3>4. e(l).type = "ReceiveData" /\ e(l).timestamp = clocks[p]
      BY DEF ReceiveData, Transfer
    <3>5. /\ packets' \in [Link -> Seq(PacketChoices)]
          /\ calls' \in [Party -> Seq(ProtocolId)] /\ calls'[p] = calls[p]
      BY <1>2 DEF NestInv, TraceTypes
    <3>. HIDE DEF e
    <3>. QED  BY <1>3, <1>4, <3>1, <3>3, <3>4, <3>5, OneEvent
  <2>. QED  BY <2>1, <2>2
<1>6. Frame(p)
  BY <1>2, <1>4, <1>5 DEF Frame
<1>. QED  BY <1>5, <1>6

LEMMA CompleteNest ==
  ASSUME TypeOK, TaskInv, NestInv, NEW p \in Party, Complete(p)
  PROVE  Frame(p) /\ Own(p)
<1>. DEFINE open == calls[p]
            e == ProtocolEnd(p, Calling(p))
            f == Output(p)
            g == Stop(p)
            t == traces[p]
            u == Append(t, e)
            v == Append(u, f)
            w == Append(v, g)
            now == clocks[p]
<1>1. /\ current = p /\ current' = NoParty
      /\ Len(calls[p]) = 1
      /\ calls' = [calls EXCEPT ![p] = <<>>]
      /\ Record(p, <<e>> \o <<f, g>>)
      /\ finished' = finished \cup {p}
      /\ UNCHANGED <<packets, ready_queue, awaiting, clocks>>
  BY DEF Complete, Finish, EndMarker, switchboardVars
<1>2. open \in Seq(ProtocolId) /\ open # <<>> /\ Last(open) \in ProtocolId /\ Front(open) = <<>>
  <2>1. open \in Seq(ProtocolId)
    BY DEF NestInv, TraceTypes
  <2>. HIDE DEF e, f, g, t, u, v, w, now
  <2>2. Len(open) = 1
    BY <1>1, Zenon
  <2>3. Front(open) = <<>>
    BY <1>1, SubSeqEmpty DEF Front
  <2>. HIDE DEF open
  <2>4. open # <<>> /\ Len(open) \in 1..Len(open)
    <3>1. Len(open) \in 1..Len(open)
      BY <2>2
    <3>2. open # <<>>
      BY <2>2
    <3>. QED  BY <3>1, <3>2
  <2>. QED  BY <2>1, <2>3, <2>4 DEF Last
<1>3. e \in Event /\ f \in Event /\ g \in Event
  BY <1>2, EventTypes DEF Calling
<1>4. /\ e.type = "ProtocolEnd" /\ e.timestamp = now /\ e.protocol_name = Last(open)
      /\ f.type = "Output" /\ f.timestamp = now
      /\ g.type = "Stop" /\ g.timestamp = now
  BY DEF ProtocolEnd, Calling, Output, Stop
<1>. HIDE DEF e, f, g
<1>5. traces' = [traces EXCEPT ![p] = w]
  BY <1>1, <1>3, RecordThree DEF NestInv
<1>6. /\ t \in Seq(Event) /\ t # <<>> /\ now \in Nat
      /\ OpenScopes(t) = open /\ DisplayDepth(t) = Len(open)
      /\ Marks(t, now, p \in finished) /\ p \notin finished
  BY <1>1, RunningBegun DEF NestInv, NestOK, TraceTypes, TypeOK
<1>. HIDE DEF t, now, open
<1>7. Marks(t, now, FALSE)
  BY <1>6, MarksOfParty, Zenon
<1>8. u \in Seq(Event) /\ u # <<>>
  BY <1>3, <1>6, AppendProperties
<1>9. Marks(u, now, FALSE)
  BY <1>3, <1>4, <1>6, <1>7, MarksAppend
<1>10. OpenScopes(u) = <<>> /\ DisplayDepth(u) = Len(<<>>)
  <2>1. Len(open) - 1 = Len(<<>>)
    BY <1>1 DEF open
  <2>2. OpenScopes(u) = Front(open) /\ DisplayDepth(u) = Len(open) - 1
    BY <1>2, <1>3, <1>4, <1>6, ScopeEvents
  <2>. QED  BY <1>2, <2>1, <2>2
<1>. HIDE DEF u
<1>11. v \in Seq(Event) /\ w \in Seq(Event) /\ w # <<>>
  BY <1>3, <1>8, AppendProperties
<1>12. Marks(w, now, TRUE)
  BY <1>3, <1>4, <1>6, <1>8, <1>9, MarksEnd
<1>13. OpenScopes(w) = <<>> /\ DisplayDepth(w) = Len(<<>>)
  <2>1. <<>> \in Seq(ProtocolId)
    OBVIOUS
  <2>2. OpenScopes(v) = <<>> /\ DisplayDepth(v) = Len(<<>>)
    BY <1>3, <1>4, <1>8, <1>10, <2>1, ScopeEvents
  <2>. HIDE DEF v
  <2>. QED  BY <1>3, <1>4, <1>11, <2>1, <2>2, ScopeEvents
<1>. HIDE DEF w
<1>14. /\ TraceTypes'
       /\ traces'[p] = w /\ calls'[p] = <<>>
       /\ \A q \in Party \ {p} : traces'[q] = traces[q] /\ calls'[q] = calls[q]
  <2>1. <<>> \in Seq(ProtocolId)
    OBVIOUS
  <2>. QED  BY <1>1, <1>5, <1>11, <2>1 DEF NestInv, TraceTypes
<1>15. NestOK(p)'
  <2>1. p \in finished' /\ clocks'[p] = now
    BY <1>1 DEF now
  <2>2. Marks(w, now, p \in finished')
    BY <1>12, <2>1, MarksOfParty, Zenon
  <2>. QED  BY <1>13, <1>14, <2>1, <2>2 DEF NestOK
<1>16. Frame(p)
  <2>1. \A q \in Party \ {p} : q \in finished' <=> q \in finished
    BY <1>1
  <2>. QED  BY <1>1, <1>14, <2>1, RunningFrame DEF Frame
<1>. QED  BY <1>11, <1>14, <1>15, <1>16 DEF Own

-----------------------------------------------------------------------------
\* A step of a party's task keeps the invariant: the party's own trace grows as it
\* may, and nothing of the others changes.
LEMMA PartyKeepsNest ==
  ASSUME TypeOK, NestInv, NEW p \in Party, Frame(p), Own(p)
  PROVE  NestInv'
<1>1. TraceTypes'
  BY DEF Own
<1>2. NestOK(p)' /\ Begun(p)' /\ Unbegun(p)'
  BY DEF Own, Frame, Begun, Unbegun
<1>3. ASSUME NEW q \in Party \ {p}
      PROVE  NestOK(q)' /\ Begun(q)' /\ Unbegun(q)'
  <2>1. NestOK(q) /\ Begun(q) /\ Unbegun(q)
    BY DEF NestInv
  <2>2. /\ traces'[q] = traces[q] /\ calls'[q] = calls[q] /\ clocks' = clocks
        /\ q \in finished' <=> q \in finished
        /\ Pending(q)' <=> Pending(q)
        /\ InReadyQueue(q)' <=> InReadyQueue(q)
    BY DEF Frame
  <2>3. current' # q
    BY SimulatorAssumption DEF Frame
  <2>4. Marks(traces[q], clocks[q], q \in finished')
    BY <2>1, <2>2, MarksOfParty, Zenon DEF NestOK
  <2>5. NestOK(q)'
    BY <2>1, <2>2, <2>4 DEF NestOK
  <2>6. Begun(q)' /\ Unbegun(q)'
    BY <2>1, <2>2, <2>3 DEF Begun, Unbegun
  <2>. QED  BY <2>5, <2>6
<1>. QED  BY <1>1, <1>2, <1>3 DEF NestInv

\* A delivery moves clocks forward only, and wakes only a task that is suspended.
LEMMA DeliveryKeepsNest ==
  ASSUME TypeOK, TypeOK', TaskInv, NestInv, NEW e \in events,
         DeliverPacket(e) \/ FireTimer(e), UNCHANGED traceVars
  PROVE  NestInv'
<1>1. /\ ready_queue = <<>> /\ ready_queue' = Wake(e)
      /\ clocks' = ClockAfter(e)
      /\ UNCHANGED <<current, finished, awaiting, packets, calls, traces>>
  BY DEF DeliverPacket, FireTimer, IsIdle, DeliverNext, traceVars
<1>2. e \in ScheduledEvent /\ e.link \in Link /\ e.link[2] \in Party /\ e.arrival \in Nat
  BY DEF TypeOK, ScheduledEvent, Link
<1>3. ASSUME NEW q \in Party
      PROVE  clocks[q] \in Nat /\ clocks'[q] \in Nat /\ clocks[q] <= clocks'[q]
  <2>1. clocks \in [Party -> Nat] /\ clocks[q] \in Nat /\ clocks[e.link[2]] \in Nat
    BY <1>2 DEF TypeOK
  <2>2. clocks'[q] = IF q = e.link[2] THEN Later(clocks[q], e.arrival) ELSE clocks[q]
    BY <1>1, <1>2, <2>1 DEF ClockAfter
  <2>. QED  BY <1>2, <2>1, <2>2 DEF Later
<1>4. ASSUME NEW q \in Party, InReadyQueue(q)'
      PROVE  Pending(q)
  <2>1. e.link \in parked /\ ready_queue' = <<e.link[2]>>
    <3>1. Append(<<>>, e.link[2]) = <<e.link[2]>>
      OBVIOUS
    <3>. QED  BY <1>1, <1>4, <3>1 DEF InReadyQueue, Wake
  <2>2. q = e.link[2]
    BY <1>4, <2>1 DEF InReadyQueue
  <2>. QED  BY <2>1, <2>2 DEF TaskInv, NoStaleWaker
<1>5. ASSUME NEW q \in Party
      PROVE  NestOK(q)' /\ Begun(q)' /\ Unbegun(q)'
  <2>1. NestOK(q) /\ Begun(q) /\ Unbegun(q) /\ traces[q] \in Seq(Event)
    BY DEF NestInv, TraceTypes
  <2>2. Marks(traces[q], clocks'[q], q \in finished)
    <3>1. Marks(traces[q], clocks[q], q \in finished)
      BY <2>1 DEF NestOK
    <3>2. (q \in finished) \in BOOLEAN
      OBVIOUS
    <3>3. clocks[q] \in Nat /\ clocks'[q] \in Nat /\ clocks[q] <= clocks'[q]
      BY <1>3
    <3>4. traces[q] \in Seq(Event)
      BY <2>1
    <3>. QED  BY <3>1, <3>2, <3>3, <3>4, MarksLater, Zenon
  <2>3. NestOK(q)'
    BY <1>1, <2>1, <2>2 DEF NestOK
  <2>4. Pending(q)' <=> Pending(q)
    BY <1>1 DEF Pending
  <2>. QED  BY <1>1, <1>4, <2>1, <2>3, <2>4 DEF Begun, Unbegun
<1>. QED  BY <1>1, <1>5 DEF NestInv, TraceTypes

LEMMA NestInit == TraceInit => NestInv
<1>. SUFFICES ASSUME TraceInit PROVE NestInv
  OBVIOUS
<1>1. TraceTypes
  <2>1. <<>> \in Seq(PacketChoices) /\ <<>> \in Seq(ProtocolId) /\ <<>> \in Seq(Event)
    OBVIOUS
  <2>. QED  BY <2>1 DEF TraceInit, TraceTypes
<1>2. ASSUME NEW p \in Party
      PROVE  NestOK(p) /\ Begun(p) /\ Unbegun(p)
  <2>1. traces[p] = <<>> /\ calls[p] = <<>> /\ p \notin finished /\ current # p /\ ~Pending(p)
    BY SimulatorAssumption DEF TraceInit, Init, Pending, NoFuture
  <2>2. OpenScopes(<<>>) = <<>> /\ DisplayDepth(<<>>) = 0
    BY ScopesAppend, DepthAppend
  <2>3. Marks(<<>>, clocks[p], FALSE)
    BY DEF Marks
  <2>4. NestOK(p)
    <3>1. Marks(<<>>, clocks[p], p \in finished)
      BY <2>1, <2>3, MarksOfParty, Zenon
    <3>2. Len(<<>>) = 0
      OBVIOUS
    <3>. QED  BY <2>1, <2>2, <3>1, <3>2 DEF NestOK
  <2>. QED  BY <2>1, <2>4 DEF Begun, Unbegun
<1>. QED  BY <1>1, <1>2 DEF NestInv

LEMMA LoggedInit == TraceInit => Logged
BY DEF TraceInit, Init, SwitchboardInit, Logged

LEMMA NestStep ==
  TypeOK /\ TypeOK' /\ LinkInv /\ TaskInv /\ NestInv /\ Logged /\ [TraceNext]_<<vars, traceVars>>
    => NestInv'
<1>. SUFFICES ASSUME TypeOK, TypeOK', LinkInv, TaskInv, NestInv, Logged,
                     [TraceNext]_<<vars, traceVars>>
     PROVE  NestInv'
  OBVIOUS
<1>1. CASE Silent
  <2>1. UNCHANGED traceVars
    BY <1>1 DEF Silent
  <2>2. ASSUME NEW e \in events, DeliverPacket(e) \/ FireTimer(e)
        PROVE  NestInv'
    BY <2>1, <2>2, DeliveryKeepsNest
  <2>3. CASE Deadlock \/ Ended
    <3>1. UNCHANGED <<clocks, ready_queue, current, finished, awaiting>>
      BY <2>3 DEF Deadlock, Ended, vars, switchboardVars
    <3>. QED  BY <2>1, <3>1 DEF traceVars, NestInv, TraceTypes, NestOK, Begun, Unbegun,
                                Pending, InReadyQueue
  <2>. QED  BY <1>1, <2>2, <2>3 DEF Silent
<1>2. ASSUME NEW p \in Party, PartyStep(p)
      PROVE  NestInv'
  <2>1. Frame(p) /\ Own(p)
    BY <1>2, StartNest, ExecuteNest, ReturnNest, CompleteNest, PanicNest, SendNest, ReceiveNest
       DEF PartyStep
  <2>. QED  BY <2>1, PartyKeepsNest
<1>3. CASE UNCHANGED <<vars, traceVars>>
  BY <1>3 DEF vars, traceVars, NestInv, TraceTypes, NestOK, Begun, Unbegun, Pending, InReadyQueue
<1>. QED  BY <1>1, <1>2, <1>3 DEF TraceNext

\* Only a send changes what was sent on a link, and it keeps the packet it sends.
LEMMA LoggedStep ==
  TypeOK /\ TraceTypes /\ LinkInv /\ TaskInv /\ Logged /\ [TraceNext]_<<vars, traceVars>> => Logged'
<1>. SUFFICES ASSUME TypeOK, TraceTypes, LinkInv, TaskInv, Logged,
                     [TraceNext]_<<vars, traceVars>>
     PROVE  Logged'
  OBVIOUS
<1>1. ASSUME UNCHANGED <<packets, sent>>
      PROVE  Logged'
  BY <1>1 DEF Logged
<1>2. CASE Silent
  BY <1>1, <1>2 DEF Silent, DeliverPacket, FireTimer, DeliverNext, Deadlock, Ended, vars,
                    switchboardVars, traceVars
<1>3. ASSUME NEW p \in Party, NEW to \in Party, NEW packet \in PacketChoices,
             SendPacket(p, to, packet)
      PROVE  Logged'
  <2>. DEFINE l == <<p, to>>
  <2>1. /\ l \in Link
        /\ sent' = [sent EXCEPT ![l] = @ + 1]
        /\ packets' = [packets EXCEPT ![l] = Append(@, packet)]
    BY <1>3 DEF SendPacket, Send, PushPacket, Link
  <2>. HIDE DEF l
  <2>2. packets[l] \in Seq(PacketChoices)
    BY <2>1 DEF TraceTypes
  <2>3. Len(Append(packets[l], packet)) = Len(packets[l]) + 1
    BY <2>2, AppendProperties
  <2>. QED  BY <2>1, <2>3 DEF Logged, TraceTypes, TypeOK
<1>4. ASSUME NEW p \in Party, ReceivePacket(p) \/ ResumeReceive(p)
      PROVE  Logged'
  BY <1>1, <1>4, ReceiveCases DEF Receives, RecordReceipt
<1>5. ASSUME NEW p \in Party,
             \/ StartParty(p) \/ Complete(p) \/ Panic(p)
             \/ \E id \in SubProtocols : Execute(p, id)
             \/ \E result \in {"Ok", "Err"} : Return(p, result)
      PROVE  Logged'
  BY <1>1, <1>5 DEF StartParty, StartTask, Complete, Finish, Panic, Fail, Execute, Return, vars,
                    switchboardVars
<1>6. CASE UNCHANGED <<vars, traceVars>>
  BY <1>1, <1>6 DEF vars, traceVars
<1>. QED  BY <1>2, <1>3, <1>4, <1>5, <1>6 DEF TraceNext, PartyStep

LEMMA SimulatorInvariants == TraceSpec => [](TypeOK /\ LinkInv /\ TaskInv)
BY TracedRunsSimulate, LinkInvariant, TaskInvariant, PTL

LEMMA NestInvariant == TraceSpec => [](NestInv /\ Logged)
<1>1. NestInv => TraceTypes
  BY DEF NestInv
<1>. QED
  BY <1>1, NestInit, LoggedInit, NestStep, LoggedStep, SimulatorInvariants, PTL DEF TraceSpec

-----------------------------------------------------------------------------
\* A trace tells the life of its party, in any run: the scopes open in it are the
\* calls the party is in, virtual time never goes back in it, and Start opens and
\* Output and Stop close it, however polls, deliveries and errors interleave.
THEOREM TracesTellLives == TraceSpec => []TracesNest
<1>1. NestInv => TracesNest
  <2>. SUFFICES ASSUME NestInv, NEW p \in Party
       PROVE  LET trace == traces[p]
              IN  /\ OpenScopes(trace) = calls[p]
                  /\ DisplayDepth(trace) = Len(calls[p])
                  /\ \A i, j \in DOMAIN trace :
                       i < j => trace[i].timestamp <= trace[j].timestamp
                  /\ \A i \in DOMAIN trace :
                       /\ trace[i].timestamp <= clocks[p]
                       /\ trace[i].type = "Start" <=> i = 1
                       /\ trace[i].type = "Output" <=> p \in finished /\ i = Len(trace) - 1
                       /\ trace[i].type = "Stop" <=> p \in finished /\ i = Len(trace)
                  /\ p \in finished => Len(trace) >= 2
    BY DEF TracesNest
  <2>. QED  BY Zenon DEF NestInv, NestOK, Marks
<1>. QED  BY <1>1, NestInvariant, PTL

-----------------------------------------------------------------------------
(***************************************************************************)
(* The transfers of a link.  TransfersMatch is not inductive: it says when *)
(* a packet may be received, and the step that receives it only looks at   *)
(* the clock of the recipient.  MatchInv follows the packet on its way:    *)
(* nothing sent is due after the last arrival scheduled on its link, what  *)
(* is in flight is due before it arrives, with all that was sent before    *)
(* it, and what is queued was due by the present of the recipient.         *)
(***************************************************************************)
Outs(l) == Transfers(traces[l[1]])["SendData"][l]

Ins(l) == Transfers(traces[l[2]])["ReceiveData"][l]

\* The instant at which the i-th packet sent on l has travelled for its delay.
Due(l, i) == Outs(l)[i].timestamp + MessageDelay(ChannelConfig(Config, l), Outs(l)[i].size)

Describes(event, packet) ==
  event.size = Size(packet) /\ event.content_count = Composition(packet)

SendsMatch(l) ==
  \A k \in 1..sent[l] :
    Describes(Outs(l)[k], packets[l][k]) /\ Due(l, k) \in Nat /\ Due(l, k) <= last_arrivals[l]

FlightsDue(l) == \A e \in InFlight(l) : \A i \in 1..e.number : Due(l, i) <= e.arrival

QueueDue(l) ==
  \A q \in 1..Len(msg_queues[l]) : \A i \in 1..msg_queues[l][q].number :
    Due(l, i) <= clocks[l[2]]

ReceiptsMatch(l) ==
  \A k \in 1..received[l] :
    /\ Describes(Ins(l)[k], packets[l][k])
    /\ \A i \in 1..k : Due(l, i) <= Ins(l)[k].timestamp

MatchOK(l) ==
  /\ Len(Outs(l)) = sent[l] /\ Len(Ins(l)) = received[l]
  /\ SendsMatch(l)
  /\ FlightsDue(l)
  /\ QueueDue(l)
  /\ ReceiptsMatch(l)

MatchInv == \A l \in Link : MatchOK(l)

\* The links whose transfers and traffic a step leaves alone.
Untouched(l) ==
  /\ Outs(l)' = Outs(l) /\ Ins(l)' = Ins(l)
  /\ packets'[l] = packets[l] /\ sent'[l] = sent[l] /\ received'[l] = received[l]
  /\ last_arrivals'[l] = last_arrivals[l]
  /\ InFlight(l)' = InFlight(l)
  /\ msg_queues'[l] = msg_queues[l]
  /\ clocks[l[2]] <= clocks'[l[2]]

LEMMA TransferTypes ==
  ASSUME TypeOK, TraceTypes, NEW l \in Link
  PROVE  /\ l[1] \in Party /\ l[2] \in Party
         /\ Outs(l) \in Seq(Event) /\ Ins(l) \in Seq(Event)
         /\ packets[l] \in Seq(PacketChoices)
         /\ sent[l] \in Nat /\ received[l] \in Nat /\ last_arrivals[l] \in Nat
         /\ clocks[l[1]] \in Nat /\ clocks[l[2]] \in Nat
         /\ msg_queues[l] \in Seq(Packet)
<1>1. l[1] \in Party /\ l[2] \in Party
  BY DEF Link
<1>2. traces[l[1]] \in Seq(Event) /\ traces[l[2]] \in Seq(Event)
  BY <1>1 DEF TraceTypes
<1>3. /\ Transfers(traces[l[1]]) \in [TransferType -> [Link -> Seq(Event)]]
      /\ Transfers(traces[l[2]]) \in [TransferType -> [Link -> Seq(Event)]]
  BY <1>2, TransfersAppend
<1>4. Outs(l) \in Seq(Event) /\ Ins(l) \in Seq(Event)
  BY <1>3 DEF Outs, Ins, TransferType
<1>. QED  BY <1>1, <1>4 DEF TypeOK, TraceTypes

\* Only a transfer changes the transfers of a trace, and only those of its link.
LEMMA TransfersGrow ==
  ASSUME NEW trace \in Seq(Event), NEW e \in Event
  PROVE  /\ e.type \notin TransferType => Transfers(Append(trace, e)) = Transfers(trace)
         /\ \A type \in TransferType, l \in Link :
              Transfers(Append(trace, e))[type][l] =
                IF e.type = type /\ e.link = l THEN Append(Transfers(trace)[type][l], e)
                                               ELSE Transfers(trace)[type][l]
<1>. DEFINE found == Transfers(trace)
<1>1. found \in [TransferType -> [Link -> Seq(Event)]]
  BY TransfersAppend
<1>2. Transfers(Append(trace, e)) = Transferred(found, e)
  BY TransfersAppend
<1>. HIDE DEF found
<1>3. CASE e.type \in TransferType
  <2>1. e.link \in Link
    BY <1>3, TransferLink
  <2>2. Transferred(found, e) = [found EXCEPT ![e.type][e.link] = Append(@, e)]
    BY <1>3 DEF Transferred
  <2>3. \A type \in TransferType, l \in Link :
          [found EXCEPT ![e.type][e.link] = Append(@, e)][type][l] =
            IF e.type = type /\ e.link = l THEN Append(found[type][l], e) ELSE found[type][l]
    BY <1>1, <1>3, <2>1
  <2>. QED  BY <1>2, <1>3, <2>2, <2>3 DEF found
<1>4. CASE e.type \notin TransferType
  BY <1>2, <1>4 DEF Transferred, found
<1>. QED  BY <1>3, <1>4

\* What is queued, in flight or received on a link was sent on it.
LEMMA LinkNumbers ==
  ASSUME TypeOK, LinkInv, NEW l \in Link
  PROVE  /\ received[l] \in Nat /\ sent[l] \in Nat /\ received[l] <= sent[l]
         /\ \A q \in 1..Len(msg_queues[l]) :
              msg_queues[l][q].number \in Nat /\ msg_queues[l][q].number <= sent[l]
         /\ \A e \in InFlight(l) :
              e.number \in Nat /\ e.number <= sent[l] /\ e.arrival \in Nat
<1>1. msg_queues[l] \in Seq(Packet) /\ sent[l] \in Nat /\ received[l] \in Nat
  BY DEF TypeOK
<1>2. Len(msg_queues[l]) \in Nat
  BY <1>1
<1>3. /\ \A i \in 1..Len(msg_queues[l]) : msg_queues[l][i].number = received[l] + i
      /\ received[l] + Len(msg_queues[l]) <= sent[l]
      /\ \A e \in InFlight(l) : e.number <= sent[l]
  BY DEF LinkInv, LinkOK
<1>4. \A e \in InFlight(l) : e.number \in Nat /\ e.arrival \in Nat
  BY DEF InFlight, TypeOK, ScheduledEvent
<1>. QED  BY <1>1, <1>2, <1>3, <1>4

LEMMA UntouchedKept ==
  ASSUME TypeOK, TypeOK', TraceTypes, LinkInv, NEW l \in Link, MatchOK(l), Untouched(l)
  PROVE  MatchOK(l)'
<1>1. \A i : Due(l, i)' = Due(l, i)
  BY DEF Untouched, Due
<1>2. Len(Outs(l)') = sent'[l] /\ Len(Ins(l)') = received'[l]
  BY DEF Untouched, MatchOK
<1>3. SendsMatch(l)'
  BY <1>1 DEF Untouched, MatchOK, SendsMatch, Describes
<1>4. FlightsDue(l)'
  BY <1>1 DEF Untouched, MatchOK, FlightsDue
<1>5. QueueDue(l)'
  <2>. SUFFICES ASSUME NEW q \in 1..Len(msg_queues[l]), NEW i \in 1..msg_queues[l][q].number
       PROVE  Due(l, i) <= clocks'[l[2]]
    BY <1>1 DEF Untouched, QueueDue
  <2>1. Due(l, i) <= clocks[l[2]]
    BY DEF MatchOK, QueueDue
  <2>2. Due(l, i) \in Nat
    <3>1. msg_queues[l][q].number <= sent[l] /\ msg_queues[l][q].number \in Nat /\ sent[l] \in Nat
      BY LinkNumbers
    <3>2. i \in 1..sent[l]
      BY <3>1
    <3>. QED  BY <3>2 DEF MatchOK, SendsMatch
  <2>3. clocks[l[2]] \in Nat /\ clocks'[l[2]] \in Nat /\ clocks[l[2]] <= clocks'[l[2]]
    BY TransferTypes DEF Untouched, TypeOK
  <2>. QED  BY <2>1, <2>2, <2>3
<1>6. ReceiptsMatch(l)'
  BY <1>1 DEF Untouched, MatchOK, ReceiptsMatch, Describes
<1>. QED  BY <1>2, <1>3, <1>4, <1>5, <1>6 DEF MatchOK

\* The transfers after one more event of p.
LEMMA OneTransfer ==
  ASSUME TraceTypes, NEW p \in Party, NEW e \in Event,
         traces' = [traces EXCEPT ![p] = Append(traces[p], e)]
  PROVE  \A k \in Link :
           /\ Outs(k)' = IF k[1] = p /\ e.type = "SendData" /\ e.link = k
                           THEN Append(Outs(k), e) ELSE Outs(k)
           /\ Ins(k)' = IF k[2] = p /\ e.type = "ReceiveData" /\ e.link = k
                          THEN Append(Ins(k), e) ELSE Ins(k)
<1>. SUFFICES ASSUME NEW k \in Link
     PROVE  /\ Outs(k)' = IF k[1] = p /\ e.type = "SendData" /\ e.link = k
                            THEN Append(Outs(k), e) ELSE Outs(k)
            /\ Ins(k)' = IF k[2] = p /\ e.type = "ReceiveData" /\ e.link = k
                           THEN Append(Ins(k), e) ELSE Ins(k)
  OBVIOUS
<1>1. traces[p] \in Seq(Event) /\ traces \in [Party -> Seq(Event)]
  BY DEF TraceTypes
<1>2. k[1] \in Party /\ k[2] \in Party
  BY DEF Link
<1>3. /\ \A q \in Party \ {p} : traces'[q] = traces[q]
      /\ traces'[p] = Append(traces[p], e)
  BY <1>1
<1>4. /\ Outs(k)' = Transfers(traces'[k[1]])["SendData"][k]
      /\ Ins(k)' = Transfers(traces'[k[2]])["ReceiveData"][k]
  BY DEF Outs, Ins
<1>5. \A type \in TransferType, l \in Link :
        Transfers(Append(traces[p], e))[type][l] =
          IF e.type = type /\ e.link = l THEN Append(Transfers(traces[p])[type][l], e)
                                         ELSE Transfers(traces[p])[type][l]
  BY <1>1, TransfersGrow
<1>. QED  BY <1>2, <1>3, <1>4, <1>5 DEF Outs, Ins, TransferType

LEMMA SendKeepsMatch ==
  ASSUME TypeOK, TypeOK', TraceTypes, Logged, LinkInv, MatchInv, NEW p \in Party,
         NEW to \in Party, NEW packet \in PacketChoices, SendPacket(p, to, packet)
  PROVE  MatchInv'
<1>. DEFINE l == <<p, to>>
            d == Delay(l, packet)
            e == SendData(p, l, packet)
            a == ArrivalTime(l, d)
            n == [arrival |-> a, seq |-> seq, link |-> l, kind |-> "Delivery",
                  number |-> sent[l] + 1]
<1>1. /\ l \in Link /\ l[1] = p
      /\ events' = events \cup {n}
      /\ last_arrivals' = [last_arrivals EXCEPT ![l] = a]
      /\ sent' = [sent EXCEPT ![l] = @ + 1]
      /\ packets' = [packets EXCEPT ![l] = Append(@, packet)]
      /\ Record(p, <<e>>)
      /\ UNCHANGED <<msg_queues, clocks, received>>
  BY DEF SendPacket, Send, PushPacket, Link
<1>2. d \in Nat /\ d = MessageDelay(ChannelConfig(Config, l), Size(packet))
  BY <1>1, TraceAssumption, SimulatorAssumption DEF Delay
<1>3. /\ e.type = "SendData" /\ e.timestamp = clocks[p] /\ e.link = l
      /\ e.size = Size(packet) /\ e.content_count = Composition(packet)
  BY DEF SendData, Transfer
<1>4. e \in Event
  BY <1>1, EventTypes DEF SendData, TransferType
<1>5. /\ n.number = sent[l] + 1 /\ n.arrival = a /\ n.link = l /\ n.kind = "Delivery"
  OBVIOUS
<1>6. /\ clocks[p] \in Nat /\ last_arrivals[l] \in Nat /\ sent[l] \in Nat /\ received[l] \in Nat
      /\ a \in Nat /\ clocks[p] + d <= a /\ last_arrivals[l] <= a
  BY <1>1, <1>2 DEF ArrivalTime, Later, TypeOK
<1>. HIDE DEF d, e, a, n
<1>7. traces' = [traces EXCEPT ![p] = Append(traces[p], e)]
  BY <1>1, <1>4, RecordOne
<1>. HIDE DEF l
<1>8. \A k \in Link :
        /\ Outs(k)' = IF k = l THEN Append(Outs(k), e) ELSE Outs(k)
        /\ Ins(k)' = Ins(k)
  <2>1. \A k \in Link :
          /\ Outs(k)' = IF k[1] = p /\ e.type = "SendData" /\ e.link = k
                          THEN Append(Outs(k), e) ELSE Outs(k)
          /\ Ins(k)' = IF k[2] = p /\ e.type = "ReceiveData" /\ e.link = k
                         THEN Append(Ins(k), e) ELSE Ins(k)
    BY <1>4, <1>7, OneTransfer, Zenon
  <2>2. e.type = "SendData" /\ e.type # "ReceiveData" /\ e.link = l /\ l[1] = p
    BY <1>1, <1>3
  <2>3. ASSUME NEW k \in Link
        PROVE  /\ Outs(k)' = IF k = l THEN Append(Outs(k), e) ELSE Outs(k)
               /\ Ins(k)' = Ins(k)
    <3>1. CASE k = l
      BY <2>1, <2>2, <3>1, Zenon
    <3>2. CASE k # l
      BY <2>1, <2>2, <3>2, Zenon
    <3>. QED  BY <3>1, <3>2
  <2>. QED  BY <2>3
<1>9. ASSUME NEW k \in Link, k # l
      PROVE  MatchOK(k)'
  <2>1. InFlight(k)' = InFlight(k)
    BY <1>1, <1>5, <1>9 DEF InFlight
  <2>2. clocks[k[2]] <= clocks'[k[2]]
    BY <1>1, TransferTypes
  <2>3. Outs(k)' = Outs(k) /\ Ins(k)' = Ins(k)
    BY <1>8, <1>9
  <2>4. Untouched(k)
    BY <1>1, <1>9, <2>1, <2>2, <2>3 DEF Untouched, TypeOK, TraceTypes
  <2>. QED  BY <2>4, UntouchedKept DEF MatchInv
<1>10. ASSUME NEW k \in Link, k = l
       PROVE  MatchOK(k)'
  <2>1. /\ Outs(k) \in Seq(Event) /\ Len(Outs(k)) = sent[k]
        /\ packets[k] \in Seq(PacketChoices) /\ Len(packets[k]) = sent[k]
        /\ Len(Ins(k)) = received[k]
        /\ MatchOK(k)
    BY TransferTypes DEF Logged, MatchInv, MatchOK
  <2>2. /\ Outs(k)' = Append(Outs(k), e) /\ Ins(k)' = Ins(k)
        /\ sent'[k] = sent[k] + 1 /\ received'[k] = received[k]
        /\ packets'[k] = Append(packets[k], packet)
        /\ last_arrivals'[k] = a /\ msg_queues'[k] = msg_queues[k] /\ clocks' = clocks
    BY <1>1, <1>8, <1>10 DEF TypeOK, TraceTypes
  <2>3. PICK m \in Nat : m = sent[k] + 1
    BY <1>6, <1>10
  <2>4. /\ Len(Outs(k)') = m /\ Outs(k)'[m] = e
        /\ \A i \in 1..sent[k] : Outs(k)'[i] = Outs(k)[i]
    BY <1>4, <2>1, <2>2, <2>3, AppendProperties
  <2>5. /\ packets'[k][m] = packet
        /\ \A i \in 1..sent[k] : packets'[k][i] = packets[k][i]
    BY <2>1, <2>2, <2>3, AppendProperties
  <2>6. \A i \in 1..sent[k] : Due(k, i)' = Due(k, i)
    BY <2>4 DEF Due
  <2>7. Due(k, m)' = clocks[p] + d
    BY <1>2, <1>3, <1>10, <2>4 DEF Due
  <2>8. \A i \in 1..m : i \in 1..sent[k] \/ i = m
    BY <1>6, <1>10, <2>3
  <2>9. \A i \in 1..m : Due(k, i)' \in Nat /\ Due(k, i)' <= a
    <3>1. \A i \in 1..sent[k] : Due(k, i) \in Nat /\ Due(k, i) <= last_arrivals[k]
      BY <2>1 DEF MatchOK, SendsMatch
    <3>2. \A i \in 1..sent[k] : Due(k, i)' \in Nat /\ Due(k, i)' <= a
      BY <1>6, <1>10, <2>6, <3>1
    <3>3. Due(k, m)' \in Nat /\ Due(k, m)' <= a
      BY <1>2, <1>6, <2>7
    <3>. QED  BY <2>8, <3>2, <3>3
  <2>10. \A i \in 1..m : Describes(Outs(k)'[i], packets'[k][i])
    <3>1. \A i \in 1..sent[k] : Describes(Outs(k)[i], packets[k][i])
      BY <2>1 DEF MatchOK, SendsMatch
    <3>2. Describes(e, packet)
      BY <1>3 DEF Describes
    <3>. QED  BY <2>4, <2>5, <2>8, <3>1, <3>2 DEF Describes
  <2>11. SendsMatch(k)'
    BY <2>2, <2>3, <2>9, <2>10 DEF SendsMatch, Describes
  <2>12. FlightsDue(k)'
    <3>1. InFlight(k)' = InFlight(k) \cup {n}
      BY <1>1, <1>5, <1>10 DEF InFlight
    <3>2. \A f \in InFlight(k) : \A i \in 1..f.number : Due(k, i)' <= f.arrival
      <4>1. \A f \in InFlight(k) : f.number \in Nat /\ f.number <= sent[k] /\ sent[k] \in Nat
        BY LinkNumbers
      <4>2. \A f \in InFlight(k) : \A i \in 1..f.number : i \in 1..sent[k]
        BY <4>1
      <4>. QED  BY <2>1, <2>6, <4>2 DEF MatchOK, FlightsDue
    <3>3. \A i \in 1..n.number : Due(k, i)' <= n.arrival
      BY <1>5, <1>10, <2>3, <2>9
    <3>. QED  BY <3>1, <3>2, <3>3 DEF FlightsDue
  <2>13. QueueDue(k)'
    <3>1. \A q \in 1..Len(msg_queues[k]) :
            msg_queues[k][q].number \in Nat /\ msg_queues[k][q].number <= sent[k] /\ sent[k] \in Nat
      BY LinkNumbers
    <3>2. \A q \in 1..Len(msg_queues[k]) : \A i \in 1..msg_queues[k][q].number : i \in 1..sent[k]
      BY <3>1
    <3>. QED  BY <2>1, <2>2, <2>6, <3>2 DEF MatchOK, QueueDue
  <2>14. ReceiptsMatch(k)'
    <3>1. \A j \in 1..received[k] : j \in 1..sent[k] /\ \A i \in 1..j : i \in 1..sent[k]
      BY LinkNumbers
    <3>. QED  BY <2>1, <2>2, <2>5, <2>6, <3>1 DEF MatchOK, ReceiptsMatch, Describes
  <2>15. Len(Outs(k)') = sent'[k] /\ Len(Ins(k)') = received'[k]
    BY <2>1, <2>2, <2>3, <2>4
  <2>. QED  BY <2>11, <2>12, <2>13, <2>14, <2>15 DEF MatchOK
<1>. QED  BY <1>9, <1>10 DEF MatchInv

\* A packet is queued when the clock of its recipient has reached its arrival.
LEMMA DeliveryKeepsMatch ==
  ASSUME TypeOK, TypeOK', TraceTypes, LinkInv, MatchInv, NEW e \in events,
         DeliverNext(e), UNCHANGED traceVars
  PROVE  MatchInv'
<1>1. /\ events' = events \ {e} /\ clocks' = ClockAfter(e)
      /\ UNCHANGED <<packets, traces, last_arrivals, sent, received>>
      /\ e.kind # "Delivery" => msg_queues' = msg_queues
      /\ e.kind = "Delivery" =>
           msg_queues' = [msg_queues EXCEPT ![e.link] =
                            Append(@, [number |-> e.number, arrival |-> e.arrival])]
  BY DEF DeliverNext, EventsAfter, traceVars
<1>2. e \in ScheduledEvent /\ e.link \in Link /\ e.link[2] \in Party /\ e.arrival \in Nat
      /\ e.number \in Nat
  BY DEF TypeOK, ScheduledEvent, Link
<1>3. ASSUME NEW q \in Party
      PROVE  /\ clocks[q] \in Nat /\ clocks'[q] \in Nat /\ clocks[q] <= clocks'[q]
             /\ q = e.link[2] => e.arrival <= clocks'[q]
  <2>1. clocks \in [Party -> Nat] /\ clocks[q] \in Nat /\ clocks[e.link[2]] \in Nat
    BY <1>2 DEF TypeOK
  <2>2. clocks'[q] = IF q = e.link[2] THEN Later(clocks[q], e.arrival) ELSE clocks[q]
    BY <1>1, <1>2, <2>1 DEF ClockAfter
  <2>. QED  BY <1>2, <2>1, <2>2 DEF Later
<1>4. \A k \in Link : Outs(k)' = Outs(k) /\ Ins(k)' = Ins(k)
  BY <1>1 DEF Outs, Ins
<1>5. ASSUME NEW k \in Link, ~(e.kind = "Delivery" /\ e.link = k)
      PROVE  MatchOK(k)'
  <2>1. InFlight(k)' = InFlight(k)
    BY <1>1, <1>5 DEF InFlight
  <2>2. msg_queues'[k] = msg_queues[k]
    BY <1>1, <1>2, <1>5 DEF TypeOK
  <2>3. clocks[k[2]] <= clocks'[k[2]]
    BY <1>3, TransferTypes
  <2>4. Untouched(k)
    BY <1>1, <1>4, <2>1, <2>2, <2>3 DEF Untouched
  <2>. QED  BY <2>4, UntouchedKept DEF MatchInv
<1>6. ASSUME NEW k \in Link, e.kind = "Delivery", e.link = k
      PROVE  MatchOK(k)'
  <2>. DEFINE packet == [number |-> e.number, arrival |-> e.arrival]
              queue == msg_queues[k]
  <2>1. MatchOK(k) /\ e \in InFlight(k)
    BY <1>6 DEF MatchInv, InFlight
  <2>2. \A i : Due(k, i)' = Due(k, i)
    BY <1>4 DEF Due
  <2>3. SendsMatch(k)'
    BY <1>1, <1>4, <2>1, <2>2 DEF MatchOK, SendsMatch, Describes
  <2>4. FlightsDue(k)'
    <3>1. InFlight(k)' \subseteq InFlight(k)
      BY <1>1 DEF InFlight
    <3>. QED  BY <2>1, <2>2, <3>1 DEF MatchOK, FlightsDue
  <2>5. QueueDue(k)'
    <3>1. /\ msg_queues'[k] = Append(queue, packet)
          /\ queue \in Seq(Packet) /\ packet \in Packet /\ packet.number = e.number
      BY <1>1, <1>2, <1>6 DEF TypeOK, Packet
    <3>. HIDE DEF queue, packet
    <3>2. /\ Len(msg_queues'[k]) = Len(queue) + 1 /\ Len(queue) \in Nat
          /\ msg_queues'[k][Len(queue) + 1] = packet
          /\ \A q \in 1..Len(queue) : msg_queues'[k][q] = queue[q]
      BY <3>1, AppendProperties
    <3>3. \A q \in 1..Len(queue) : \A i \in 1..queue[q].number :
            Due(k, i) \in Nat /\ Due(k, i) <= clocks[k[2]]
      <4>1. \A q \in 1..Len(queue) :
              queue[q].number \in Nat /\ queue[q].number <= sent[k] /\ sent[k] \in Nat
        BY LinkNumbers DEF queue
      <4>2. \A q \in 1..Len(queue) : \A i \in 1..queue[q].number : i \in 1..sent[k]
        BY <4>1
      <4>. QED  BY <2>1, <4>2 DEF MatchOK, SendsMatch, QueueDue, queue
    <3>4. \A i \in 1..e.number : Due(k, i) \in Nat /\ Due(k, i) <= e.arrival
      <4>1. \A i \in 1..e.number : i \in 1..sent[k]
        BY <2>1, LinkNumbers
      <4>. QED  BY <2>1, <4>1 DEF MatchOK, SendsMatch, FlightsDue
    <3>5. /\ clocks[k[2]] \in Nat /\ clocks'[k[2]] \in Nat
          /\ clocks[k[2]] <= clocks'[k[2]] /\ e.arrival <= clocks'[k[2]]
      BY <1>2, <1>3, <1>6
    <3>6. ASSUME NEW q \in 1..Len(msg_queues'[k]), NEW i \in 1..msg_queues'[k][q].number
          PROVE  Due(k, i) <= clocks'[k[2]]
      <4>1. CASE q \in 1..Len(queue)
        BY <3>2, <3>3, <3>5, <4>1
      <4>2. CASE q = Len(queue) + 1
        BY <1>2, <3>1, <3>2, <3>4, <3>5, <4>2
      <4>. QED  BY <3>2, <4>1, <4>2
    <3>. QED  BY <2>2, <3>6 DEF QueueDue
  <2>6. ReceiptsMatch(k)'
    BY <1>1, <1>4, <2>1, <2>2 DEF MatchOK, ReceiptsMatch, Describes
  <2>7. Len(Outs(k)') = sent'[k] /\ Len(Ins(k)') = received'[k]
    BY <1>1, <1>4, <2>1 DEF MatchOK
  <2>. QED  BY <2>3, <2>4, <2>5, <2>6, <2>7 DEF MatchOK
<1>. QED  BY <1>5, <1>6 DEF MatchInv

\* A receive finds the first packet of a queue, which was due by the clock it reads.
LEMMA TakeKeepsMatch ==
  ASSUME TypeOK, TypeOK', TraceTypes, Logged, LinkInv, MatchInv, NEW p \in Party,
         NEW l \in Link, l[2] = p, Consumes(l),
         received'[l] = received[l] + 1, received'[l] \in 1..sent[l],
         msg_queues[l][1].number = received[l] + 1, 1 \in 1..Len(msg_queues[l]),
         NEW packet \in PacketChoices, packet = packets[l][received'[l]],
         Record(p, <<ReceiveData(p, l, packet)>>), UNCHANGED <<packets, clocks>>
  PROVE  MatchInv'
<1>. DEFINE e == ReceiveData(p, l, packet)
<1>1. /\ e.type = "ReceiveData" /\ e.timestamp = clocks[p] /\ e.link = l
      /\ e.size = Size(packet) /\ e.content_count = Composition(packet)
  BY DEF ReceiveData, Transfer
<1>2. e \in Event
  BY EventTypes DEF ReceiveData, TransferType
<1>3. Record(p, <<e>>)
  OBVIOUS
<1>. HIDE DEF e
<1>4. traces' = [traces EXCEPT ![p] = Append(traces[p], e)]
  BY <1>2, <1>3, RecordOne
<1>5. \A k \in Link :
        /\ Outs(k)' = Outs(k)
        /\ Ins(k)' = IF k = l THEN Append(Ins(k), e) ELSE Ins(k)
  BY <1>1, <1>2, <1>4, OneTransfer
<1>6. /\ received' = [received EXCEPT ![l] = Head(msg_queues[l]).number]
      /\ msg_queues' = [msg_queues EXCEPT ![l] = Tail(@)]
      /\ \A k \in Link : InFlight(k)' = InFlight(k)
      /\ UNCHANGED <<last_arrivals, sent>>
  BY DEF Consumes, TakePacket, TimersOnly
<1>7. \A k \in Link, i \in Nat : Due(k, i)' = Due(k, i)
  BY <1>5 DEF Due
<1>8. ASSUME NEW k \in Link, k # l
      PROVE  MatchOK(k)'
  <2>1. clocks[k[2]] <= clocks'[k[2]]
    BY TransferTypes
  <2>2. Untouched(k)
    BY <1>5, <1>6, <1>8, <2>1 DEF Untouched, TypeOK
  <2>. QED  BY <2>2, UntouchedKept DEF MatchInv
<1>9. MatchOK(l)'
  <2>1. /\ MatchOK(l) /\ Len(Ins(l)) = received[l] /\ Ins(l) \in Seq(Event)
        /\ received[l] \in Nat /\ sent[l] \in Nat /\ clocks[p] \in Nat
    BY TransferTypes DEF MatchInv, MatchOK
  <2>2. PICK m \in Nat : m = received[l] + 1
    BY <2>1
  <2>3. m \in 1..sent[l] /\ received'[l] = m /\ msg_queues[l][1].number = m
    BY <2>2
  <2>4. /\ Len(Ins(l)') = m /\ Ins(l)'[m] = e
        /\ \A i \in 1..received[l] : Ins(l)'[i] = Ins(l)[i]
    <3>1. Ins(l)' = Append(Ins(l), e)
      BY <1>5
    <3>. QED  BY <1>2, <2>1, <2>2, <3>1, AppendProperties
  <2>5. \A i \in 1..sent[l] : i \in Nat
    BY <2>1
  <2>6. SendsMatch(l)'
    BY <1>5, <1>6, <1>7, <2>1, <2>5 DEF MatchOK, SendsMatch, Describes
  <2>7. FlightsDue(l)'
    <3>1. \A f \in InFlight(l) : f.number \in Nat
      BY LinkNumbers
    <3>2. \A f \in InFlight(l) : \A i \in 1..f.number : i \in Nat
      BY <3>1
    <3>. QED  BY <1>6, <1>7, <2>1, <3>2 DEF MatchOK, FlightsDue
  <2>8. QueueDue(l)'
    <3>1. msg_queues[l] \in Seq(Packet) /\ msg_queues[l] # <<>>
      BY DEF Consumes, TypeOK
    <3>2. msg_queues'[l] = Tail(msg_queues[l])
      BY <1>6 DEF TypeOK
    <3>3. /\ Len(msg_queues[l]) \in Nat \ {0}
          /\ Len(msg_queues'[l]) = Len(msg_queues[l]) - 1
          /\ \A q \in 1..Len(msg_queues'[l]) : msg_queues'[l][q] = msg_queues[l][q + 1]
      BY <3>1, <3>2, HeadTailProperties, EmptySeq
    <3>4. \A q \in 1..Len(msg_queues'[l]) : q + 1 \in 1..Len(msg_queues[l])
      BY <3>3
    <3>5. \A q \in 1..Len(msg_queues[l]) : msg_queues[l][q].number \in Nat
      BY LinkNumbers
    <3>6. \A q \in 1..Len(msg_queues[l]) : \A i \in 1..msg_queues[l][q].number :
            i \in Nat /\ Due(l, i) <= clocks[l[2]]
      BY <2>1, <3>5 DEF MatchOK, QueueDue
    <3>. QED  BY <1>7, <3>3, <3>4, <3>6 DEF QueueDue
  <2>9. ReceiptsMatch(l)'
    <3>1. \A i \in 1..m : i \in Nat /\ Due(l, i) <= clocks[p]
      BY <2>1, <2>2, <2>3 DEF MatchOK, QueueDue
    <3>2. Describes(Ins(l)'[m], packets[l][m])
      BY <1>1, <2>3, <2>4 DEF Describes
    <3>3. \A k \in 1..m : k \in 1..received[l] \/ k = m
      BY <2>1, <2>2
    <3>4. \A k \in 1..received[l] :
            /\ Describes(Ins(l)'[k], packets[l][k])
            /\ \A i \in 1..k : i \in Nat /\ Due(l, i) <= Ins(l)'[k].timestamp
      <4>1. \A k \in 1..received[l] : \A i \in 1..k : i \in Nat
        BY <2>1
      <4>2. \A k \in 1..received[l] :
              /\ Describes(Ins(l)[k], packets[l][k])
              /\ \A i \in 1..k : Due(l, i) <= Ins(l)[k].timestamp
        BY <2>1 DEF MatchOK, ReceiptsMatch
      <4>. QED  BY <2>4, <4>1, <4>2 DEF Describes
    <3>5. \A i \in 1..m : Due(l, i) <= Ins(l)'[m].timestamp
      BY <1>1, <2>4, <3>1
    <3>6. \A k \in 1..m :
            /\ Describes(Ins(l)'[k], packets[l][k])
            /\ \A i \in 1..k : i \in Nat /\ Due(l, i) <= Ins(l)'[k].timestamp
      BY <3>1, <3>2, <3>3, <3>4, <3>5
    <3>. QED  BY <1>7, <2>3, <3>6 DEF ReceiptsMatch, Describes
  <2>10. Len(Outs(l)') = sent'[l] /\ Len(Ins(l)') = received'[l]
    BY <1>5, <1>6, <2>1, <2>3, <2>4 DEF MatchOK
  <2>. QED  BY <2>6, <2>7, <2>8, <2>9, <2>10 DEF MatchOK
<1>. QED  BY <1>8, <1>9 DEF MatchInv

LEMMA ReceiveKeepsMatch ==
  ASSUME TypeOK, TypeOK', TraceTypes, Logged, LinkInv, TaskInv, MatchInv, NEW p \in Party,
         ReceivePacket(p) \/ ResumeReceive(p)
  PROVE  MatchInv'
<1>1. Receives(p) /\ RecordReceipt(p)
  BY ReceiveCases
<1>2. /\ UNCHANGED <<packets, clocks, last_arrivals, sent>>
      /\ \A k \in Link : InFlight(k)' = InFlight(k)
  BY <1>1 DEF RecordReceipt, Receives, TimersOnly
<1>3. CASE received' = received
  <2>1. traces' = traces
    BY <1>1, <1>3, RecordNone DEF RecordReceipt
  <2>2. msg_queues' = msg_queues
    <3>1. ASSUME NEW l \in Link, Consumes(l) PROVE FALSE
      <4>1. /\ received' = [received EXCEPT ![l] = Head(msg_queues[l]).number]
            /\ msg_queues[l] # <<>> /\ msg_queues[l] \in Seq(Packet)
            /\ received \in [Link -> Nat]
        BY <3>1 DEF Consumes, TakePacket, TypeOK
      <4>2. /\ Head(msg_queues[l]) = msg_queues[l][1] /\ 1 \in 1..Len(msg_queues[l])
            /\ received[l] \in Nat
        BY <4>1, EmptySeq
      <4>3. msg_queues[l][1].number = received[l] + 1
        BY <4>2 DEF LinkInv, LinkOK
      <4>4. received'[l] = received[l] + 1
        BY <4>1, <4>2, <4>3
      <4>. QED  BY <1>3, <4>2, <4>4
    <3>. QED  BY <1>1, <3>1, ReceiveLinks
  <2>3. ASSUME NEW k \in Link PROVE Untouched(k)
    <3>1. clocks[k[2]] <= clocks'[k[2]]
      BY <1>2, TransferTypes
    <3>. QED  BY <1>2, <1>3, <2>1, <2>2, <3>1 DEF Untouched, Outs, Ins
  <2>. QED  BY <2>3, UntouchedKept DEF MatchInv
<1>4. CASE received' # received
  <2>. DEFINE taken(l) == packets[l][received'[l]]
  <2>1. PICK l \in Link : received'[l] # received[l] /\ Record(p, <<ReceiveData(p, l, taken(l))>>)
    BY <1>1, <1>4 DEF RecordReceipt
  <2>2. /\ l[2] = p /\ Consumes(l)
        /\ received'[l] = received[l] + 1 /\ received'[l] \in 1..sent[l]
        /\ msg_queues[l][1].number = received[l] + 1 /\ 1 \in 1..Len(msg_queues[l])
    BY <1>1, <2>1, ReceiveLinks
  <2>3. taken(l) \in PacketChoices
    <3>1. received'[l] \in 1..Len(packets[l])
      BY <2>2 DEF Logged
    <3>. QED  BY <3>1 DEF TraceTypes
  <2>. QED  BY <1>2, <2>1, <2>2, <2>3, TakeKeepsMatch
<1>. QED  BY <1>3, <1>4

\* The other events of a party are no transfers.
LEMMA OthersKeepMatch ==
  ASSUME TypeOK, TypeOK', TraceTypes, LinkInv, MatchInv, NEW p \in Party,
         UNCHANGED <<packets, msg_queues, events, clocks, last_arrivals, sent, received>>,
         \A q \in Party : Transfers(traces'[q]) = Transfers(traces[q])
  PROVE  MatchInv'
<1>1. ASSUME NEW k \in Link PROVE Untouched(k)
  <2>1. clocks[k[2]] <= clocks'[k[2]] /\ k[1] \in Party /\ k[2] \in Party
    BY TransferTypes
  <2>2. InFlight(k)' = InFlight(k)
    BY DEF InFlight
  <2>. QED  BY <2>1, <2>2 DEF Untouched, Outs, Ins
<1>. QED  BY <1>1, UntouchedKept DEF MatchInv

LEMMA MatchInit == TraceInit => MatchInv
<1>. SUFFICES ASSUME TraceInit, NEW l \in Link PROVE MatchOK(l)
  BY DEF MatchInv
<1>1. /\ l[1] \in Party /\ l[2] \in Party
      /\ traces[l[1]] = <<>> /\ traces[l[2]] = <<>>
      /\ sent[l] = 0 /\ received[l] = 0 /\ events = {} /\ msg_queues[l] = <<>>
  BY DEF TraceInit, Init, SwitchboardInit, Link
<1>2. Outs(l) = <<>> /\ Ins(l) = <<>>
  BY <1>1, TransfersAppend DEF Outs, Ins, NoTransfers, TransferType
<1>3. Len(<<>>) = 0
  OBVIOUS
<1>. QED
  BY <1>1, <1>2, <1>3 DEF MatchOK, SendsMatch, FlightsDue, QueueDue, ReceiptsMatch, InFlight

\* Starting, executing, returning and ending record events, and no transfer.
LEMMA NoTransfer ==
  ASSUME TypeOK, NestInv, NEW p \in Party,
         \/ StartParty(p) \/ Complete(p) \/ Panic(p)
         \/ \E id \in SubProtocols : Execute(p, id)
         \/ \E result \in {"Ok", "Err"} : Return(p, result)
  PROVE  /\ UNCHANGED <<packets, msg_queues, events, clocks, last_arrivals, sent, received>>
         /\ \A q \in Party : Transfers(traces'[q]) = Transfers(traces[q])
<1>1. UNCHANGED <<packets, msg_queues, events, clocks, last_arrivals, sent, received>>
  BY DEF StartParty, StartTask, Complete, Finish, Panic, Fail, Execute, Return, vars,
         switchboardVars
<1>2. TraceTypes /\ traces[p] \in Seq(Event)
  BY DEF NestInv, TraceTypes
<1>3. ASSUME NEW e \in Event, e.type \notin TransferType, Record(p, <<e>>)
      PROVE  \A q \in Party : Transfers(traces'[q]) = Transfers(traces[q])
  <2>1. traces' = [traces EXCEPT ![p] = Append(traces[p], e)]
    BY <1>2, <1>3, RecordOne
  <2>2. Transfers(Append(traces[p], e)) = Transfers(traces[p])
    BY <1>2, <1>3, TransfersGrow
  <2>. QED  BY <1>2, <2>1, <2>2 DEF TraceTypes
<1>4. CASE StartParty(p)
  <2>. DEFINE e == Start(p)
              f == ProtocolBegin(p, RootProtocol)
              t == Append(traces[p], e)
  <2>1. e \in Event /\ f \in Event
    BY EventTypes DEF ProtocolId
  <2>2. e.type \notin TransferType /\ f.type \notin TransferType
    BY DEF Start, ProtocolBegin, TransferType
  <2>3. Record(p, <<e, f>>)
    BY <1>4 DEF StartParty
  <2>. HIDE DEF e, f
  <2>4. traces' = [traces EXCEPT ![p] = Append(t, f)]
    BY <1>2, <2>1, <2>3, RecordTwo
  <2>5. t \in Seq(Event) /\ Transfers(t) = Transfers(traces[p])
    BY <1>2, <2>1, <2>2, TransfersGrow, AppendProperties
  <2>. HIDE DEF t
  <2>6. Transfers(Append(t, f)) = Transfers(traces[p])
    BY <2>1, <2>2, <2>5, TransfersGrow
  <2>. QED  BY <1>1, <1>2, <2>4, <2>6 DEF TraceTypes
<1>5. CASE \E id \in SubProtocols : Execute(p, id)
  <2>1. PICK id \in SubProtocols : Execute(p, id)
    BY <1>5
  <2>2. ProtocolBegin(p, id) \in Event
    BY EventTypes DEF ProtocolId
  <2>3. ProtocolBegin(p, id).type \notin TransferType
    BY DEF ProtocolBegin, TransferType
  <2>. QED  BY <1>1, <1>3, <2>1, <2>2, <2>3 DEF Execute
<1>6. ASSUME Len(calls[p]) >= 1
      PROVE  /\ ProtocolEnd(p, Calling(p)) \in Event
             /\ ProtocolEnd(p, Calling(p)).type \notin TransferType
  <2>1. calls[p] \in Seq(ProtocolId) /\ Len(calls[p]) \in Nat
    BY <1>2 DEF TraceTypes
  <2>2. Calling(p) \in ProtocolId
    BY <1>6, <2>1 DEF Calling, Last
  <2>. QED  BY <2>2, EventTypes DEF ProtocolEnd, TransferType
<1>7. CASE Panic(p) \/ \E result \in {"Ok", "Err"} : Return(p, result)
  <2>1. Record(p, <<ProtocolEnd(p, Calling(p))>>)
    BY <1>7 DEF Panic, Return, EndMarker
  <2>2. Len(calls[p]) \in Nat
    BY <1>2 DEF TraceTypes
  <2>3. CASE Panic(p)
    <3>1. Len(calls[p]) >= 1
      BY <2>3 DEF Panic
    <3>. QED  BY <1>1, <1>3, <1>6, <2>1, <3>1
  <2>4. CASE \E result \in {"Ok", "Err"} : Return(p, result)
    <3>1. Len(calls[p]) >= 1
      BY <2>2, <2>4 DEF Return
    <3>. QED  BY <1>1, <1>3, <1>6, <2>1, <3>1
  <2>. QED  BY <1>7, <2>3, <2>4
<1>8. CASE Complete(p)
  <2>. DEFINE e == ProtocolEnd(p, Calling(p))
              f == Output(p)
              g == Stop(p)
              t == Append(traces[p], e)
              u == Append(t, f)
  <2>1. Len(calls[p]) >= 1
    BY <1>8 DEF Complete
  <2>2. e \in Event /\ f \in Event /\ g \in Event
    BY <1>6, <2>1, EventTypes
  <2>3. e.type \notin TransferType /\ f.type \notin TransferType /\ g.type \notin TransferType
    BY DEF ProtocolEnd, Output, Stop, TransferType
  <2>4. Record(p, <<e>> \o <<f, g>>)
    BY <1>8 DEF Complete, EndMarker
  <2>. HIDE DEF e, f, g
  <2>5. traces' = [traces EXCEPT ![p] = Append(u, g)]
    BY <1>2, <2>2, <2>4, RecordThree
  <2>6. t \in Seq(Event) /\ Transfers(t) = Transfers(traces[p])
    BY <1>2, <2>2, <2>3, TransfersGrow, AppendProperties
  <2>. HIDE DEF t
  <2>7. u \in Seq(Event) /\ Transfers(u) = Transfers(traces[p])
    BY <2>2, <2>3, <2>6, TransfersGrow, AppendProperties
  <2>. HIDE DEF u
  <2>8. Transfers(Append(u, g)) = Transfers(traces[p])
    BY <2>2, <2>3, <2>7, TransfersGrow
  <2>. QED  BY <1>1, <1>2, <2>5, <2>8 DEF TraceTypes
<1>. QED  BY <1>1, <1>4, <1>5, <1>7, <1>8

LEMMA MatchStep ==
  TypeOK /\ TypeOK' /\ LinkInv /\ TaskInv /\ NestInv /\ Logged /\ MatchInv
    /\ [TraceNext]_<<vars, traceVars>> => MatchInv'
<1>. SUFFICES ASSUME TypeOK, TypeOK', LinkInv, TaskInv, NestInv, Logged, MatchInv,
                     [TraceNext]_<<vars, traceVars>>
     PROVE  MatchInv'
  OBVIOUS
<1>1. TraceTypes
  BY DEF NestInv
<1>2. ASSUME UNCHANGED <<packets, traces, msg_queues, events, clocks, last_arrivals, sent, received>>
      PROVE  MatchInv'
  BY <1>1, <1>2, OthersKeepMatch, FirstParty
<1>3. CASE Silent
  <2>1. UNCHANGED traceVars
    BY <1>3 DEF Silent
  <2>2. ASSUME NEW e \in events, DeliverPacket(e) \/ FireTimer(e)
        PROVE  MatchInv'
    BY <1>1, <2>1, <2>2, DeliveryKeepsMatch DEF DeliverPacket, FireTimer
  <2>3. CASE Deadlock \/ Ended
    BY <1>2, <2>1, <2>3 DEF Deadlock, Ended, vars, switchboardVars, traceVars
  <2>. QED  BY <1>3, <2>2, <2>3 DEF Silent
<1>4. ASSUME NEW p \in Party, PartyStep(p)
      PROVE  MatchInv'
  <2>1. CASE \/ StartParty(p) \/ Complete(p) \/ Panic(p)
             \/ \E id \in SubProtocols : Execute(p, id)
             \/ \E result \in {"Ok", "Err"} : Return(p, result)
    BY <1>1, <2>1, NoTransfer, OthersKeepMatch
  <2>2. CASE \E to \in Party, packet \in PacketChoices : SendPacket(p, to, packet)
    BY <1>1, <2>2, SendKeepsMatch
  <2>3. CASE ReceivePacket(p) \/ ResumeReceive(p)
    BY <1>1, <2>3, ReceiveKeepsMatch
  <2>. QED  BY <1>4, <2>1, <2>2, <2>3 DEF PartyStep
<1>5. CASE UNCHANGED <<vars, traceVars>>
  BY <1>2, <1>5 DEF vars, traceVars
<1>. QED  BY <1>3, <1>4, <1>5 DEF TraceNext

LEMMA MatchImplies == TypeOK /\ LinkInv /\ TraceTypes /\ Logged /\ MatchInv => TransfersMatch
<1>. SUFFICES ASSUME TypeOK, LinkInv, TraceTypes, Logged, MatchInv, NEW l \in Link
     PROVE  /\ Len(Ins(l)) <= Len(Outs(l))
            /\ \A k \in DOMAIN Ins(l) :
                 /\ Ins(l)[k].size = Outs(l)[k].size
                 /\ Ins(l)[k].content_count = Outs(l)[k].content_count
                 /\ \A i \in 1..k : Ins(l)[k].timestamp >= Due(l, i)
            /\ \A k \in DOMAIN Outs(l) :
                 /\ Total(Outs(l)[k].content_count) = Len(packets[l][k])
                 /\ \A i, j \in DOMAIN Outs(l)[k].content_count :
                      Outs(l)[k].content_count[i][1] = Outs(l)[k].content_count[j][1] => i = j
  BY DEF TransfersMatch, Outs, Ins, Due
<1>1. /\ MatchOK(l) /\ received[l] \in Nat /\ sent[l] \in Nat /\ received[l] <= sent[l]
      /\ Outs(l) \in Seq(Event) /\ Ins(l) \in Seq(Event)
      /\ packets[l] \in Seq(PacketChoices) /\ Len(packets[l]) = sent[l]
  BY LinkNumbers, TransferTypes DEF MatchInv, Logged
<1>2. Len(Ins(l)) = received[l] /\ Len(Outs(l)) = sent[l]
  BY <1>1 DEF MatchOK
<1>3. DOMAIN Ins(l) = 1..received[l] /\ DOMAIN Outs(l) = 1..sent[l]
  BY <1>1, <1>2, LenProperties
<1>4. ASSUME NEW k \in 1..received[l]
      PROVE  /\ Ins(l)[k].size = Outs(l)[k].size
             /\ Ins(l)[k].content_count = Outs(l)[k].content_count
             /\ \A i \in 1..k : Ins(l)[k].timestamp >= Due(l, i)
  <2>1. k \in 1..sent[l] /\ \A i \in 1..k : i \in 1..sent[l]
    BY <1>1
  <2>2. Describes(Ins(l)[k], packets[l][k]) /\ Describes(Outs(l)[k], packets[l][k])
    BY <1>1, <2>1 DEF MatchOK, SendsMatch, ReceiptsMatch
  <2>3. \A i \in 1..k : Due(l, i) \in Nat /\ Due(l, i) <= Ins(l)[k].timestamp
    BY <1>1, <2>1 DEF MatchOK, SendsMatch, ReceiptsMatch
  <2>4. Ins(l)[k].timestamp \in Nat
    <3>1. Ins(l)[k] \in Event
      BY <1>1, <1>2
    <3>. QED  BY <3>1 DEF Event
  <2>. QED  BY <2>2, <2>3, <2>4 DEF Describes
<1>5. ASSUME NEW k \in 1..sent[l]
      PROVE  /\ Total(Outs(l)[k].content_count) = Len(packets[l][k])
             /\ \A i, j \in DOMAIN Outs(l)[k].content_count :
                  Outs(l)[k].content_count[i][1] = Outs(l)[k].content_count[j][1] => i = j
  <2>1. packets[l][k] \in Seq(Element)
    BY <1>1, TraceAssumption
  <2>2. Outs(l)[k].content_count = Composition(packets[l][k])
    BY <1>1 DEF MatchOK, SendsMatch, Describes
  <2>. QED  BY <2>1, <2>2, CompositionCounts DEF LabelsDistinct
<1>. QED  BY <1>1, <1>2, <1>3, <1>4, <1>5

LEMMA MatchInvariant == TraceSpec => []MatchInv
BY MatchInit, MatchStep, NestInvariant, SimulatorInvariants, PTL DEF TraceSpec

-----------------------------------------------------------------------------
\* The traces of the two ends of a link agree, in any run: what is received is what
\* was sent first, in order and counted alike, and never before it, and all that was
\* sent before it on the link, has travelled for the delay of its size.
THEOREM EndsAgree == TraceSpec => []TransfersMatch
<1>1. NestInv => TraceTypes
  BY DEF NestInv
<1>. QED  BY <1>1, MatchInvariant, NestInvariant, SimulatorInvariants, MatchImplies, PTL

=============================================================================
