---------------------------- MODULE StreamProofs ----------------------------
(***************************************************************************)
(* Proofs about TcpStreams, for every set of parties, every order of sends *)
(* and receives and any number of them: its types, what the end of a peer  *)
(* means, and that the links are the FIFO links of the Network trait.      *)
(*                                                                         *)
(* All of it rests on where the halves of frames are: on each link, the    *)
(* buffer and then the wire hold the halves that follow what was received, *)
(* in order and without a gap (InSequence), up to the half that its sender *)
(* is about to write (Full).  Where a failed send has cut a frame off, this*)
(* is so up to the torn head, and only later frames stand behind it; there *)
(* the reader goes astray.                                                 *)
(***************************************************************************)
EXTENDS TcpStreams, SequenceTheorems, TLAPS

-----------------------------------------------------------------------------
(***************************************************************************)
(* The inductive invariant.                                                *)
(***************************************************************************)
\* Only a send in progress has something to write, and only a running party awaits.
TaskInv ==
  \A p \in Party :
    /\ op[p].kind = "Send" => ~op[p].timed
    /\ op[p].kind = "RecvFrom" => op[p].from # {}
    /\ op[p].kind # "Send" => unwritten[p] = {}
    /\ status[p] # "running" => op[p] = Idle

\* A frame is written head first, and the loop-back channel takes it whole.
WriteOrder ==
  \A p, t \in Party :
    /\ <<t, "head">> \in unwritten[p] => <<t, "body">> \in unwritten[p]
    /\ <<p, "body">> \in unwritten[p] => <<p, "head">> \in unwritten[p]

\* The place of a half among all the halves of a link, from 1.
Place(half) == IF half.part = "head" THEN 2 * half.number - 1 ELSE 2 * half.number

\* How many halves the link has taken, those of a reset connection excepted.
Taken(l) == 2 * received[l] + Len(buffer[l]) + Len(wire[l])

\* How many halves its sender has written, if it has not sent behind a cut.
Full(l) == IF Torn(l) \/ cut[l] > 0 THEN 2 * sent[l] - 1 ELSE 2 * sent[l]

\* The half at a place is the one that belongs there; behind the torn head of frame
\* number bound stands some later frame.
At(bound, half, place) ==
  IF bound = 0 \/ place < 2 * bound THEN Place(half) = place ELSE half.number > bound

InSequence(l) ==
  l \notin astray =>
    /\ \A i \in 1..Len(buffer[l]) : At(cut[l], buffer[l][i], 2 * received[l] + i)
    /\ \A i \in 1..Len(wire[l]) :
         At(cut[l], wire[l][i], 2 * received[l] + Len(buffer[l]) + i)

\* A link has all that its sender wrote: whole frames while that one is running, and
\* at most half a frame less once it is not, unless the connection was reset.  Behind
\* a cut it has the torn head at least.
AllTaken(l) ==
  /\ Intact(l) =>
       /\ Taken(l) <= Full(l)
       /\ status[l[1]] = "running" => Taken(l) = Full(l)
       /\ writer[l] # "lost" => 2 * sent[l] <= Taken(l) + 1
  /\ cut[l] > 0 /\ l \notin astray /\ status[l[1]] = "running" => 2 * cut[l] <= Taken(l) + 1

\* Where a frame was cut off: a later one was begun if one is under way, or if the
\* reader went astray; until then the reader is before the cut.
CutInv(l) ==
  /\ cut[l] <= sent[l]
  /\ l[1] = l[2] => cut[l] = 0
  /\ cut[l] > 0 /\ Torn(l) => cut[l] < sent[l]
  /\ l \in astray => ~Intact(l)
  /\ cut[l] > 0 /\ l \notin astray => received[l] < cut[l]

\* Only who has ended leaves a connection; one's own is neither closed nor delayed.
WriterInv(l) ==
  /\ writer[l] # "open" => status[l[1]] \in {"closed", "gone"}
  /\ l[1] = l[2] => writer[l] = "open" /\ wire[l] = <<>>

LinkInv == \A l \in Link : InSequence(l) /\ AllTaken(l) /\ CutInv(l) /\ WriterInv(l)

\* What a party was told of a peer, or has forgotten with it, stays true.
ClosedInv ==
  \A p, q \in Party :
    /\ reported[p] = Result("ConnectionClosed", q)
    /\ <<q, p>> \notin failed /\ Intact(<<q, p>>)
    => writer[<<q, p>>] # "open" /\ received[<<q, p>>] = sent[<<q, p>>]

Tasks == TypeOK /\ TaskInv /\ WriteOrder

StreamInv == Tasks /\ LinkInv /\ ClosedInv /\ ForgottenAfterAll

-----------------------------------------------------------------------------
(***************************************************************************)
(* Types, and what the tasks of the parties have under way.                *)
(***************************************************************************)
LEMMA LinkEnds == \A l \in Link : l[1] \in Party /\ l[2] \in Party /\ l = <<l[1], l[2]>>
BY DEF Link

LEMMA IdleType == Idle \in Operation /\ Idle.kind = "Idle"
BY DEF Idle, Operation

LEMMA TasksInit == Init => Tasks
<1>. SUFFICES ASSUME Init PROVE Tasks
  OBVIOUS
<1>1. \A l \in Link : wire[l] \in Seq(Half) /\ buffer[l] \in Seq(Half)
  BY EmptySeq DEF Init
<1>. QED
  BY <1>1 DEF Init, Tasks, TypeOK, TaskInv, WriteOrder, Idle, Operation, Result, Report

LEMMA DecodeTypes ==
  ASSUME TypeOK, NEW l \in Link, Decode(l)
  PROVE  buffer' \in [Link -> Seq(Half)] /\ received' \in [Link -> Nat]
<1>1. buffer[l] \in Seq(Half) /\ Len(buffer[l]) \in Nat /\ Len(buffer[l]) >= 2
  BY LenProperties DEF TypeOK, Decode, FrameReady, Whole
<1>2. buffer[l][1] \in Half /\ buffer[l][2] \in Half
  BY <1>1, ElementOfSeq
<1>3. buffer[l][1].number \in Nat
  BY <1>2 DEF Half
<1>4. SubSeq(buffer[l], 3, Len(buffer[l])) \in Seq(Half)
  BY <1>1, ElementOfSeq, SubSeqProperties
<1>. QED  BY <1>3, <1>4 DEF Decode, Rest, TypeOK

LEMMA MisreadTypes ==
  ASSUME TypeOK, NEW l \in Link, Misread(l)
  PROVE  /\ buffer' \in [Link -> Seq(Half)] /\ received' \in [Link -> Nat]
         /\ astray' \subseteq Link
<1>1. buffer[l] \in Seq(Half) /\ Len(buffer[l]) \in Nat
  BY LenProperties DEF TypeOK
<1>2. PICK n \in 0..Len(buffer[l]) :
        buffer' = [buffer EXCEPT ![l] = SubSeq(@, n + 1, Len(@))]
  BY DEF Misread
<1>3. SubSeq(buffer[l], n + 1, Len(buffer[l])) \in Seq(Half)
  <2>1. n + 1 \in 1..Len(buffer[l]) + 1 /\ Len(buffer[l]) \in (n + 1) - 1..Len(buffer[l])
    BY <1>1, <1>2
  <2>. QED  BY <1>1, <2>1, SubSeqProperties
<1>. QED  BY <1>2, <1>3 DEF Misread, TypeOK

LEMMA ReturnsTypes ==
  ASSUME TypeOK, NEW p \in Party, NEW what, NEW from \in Party \cup {NoParty},
         what \in {"Nothing", "Packet", "Timeout", "ConnectionClosed", "IoError", "PartyNotFound"},
         Returns(p, Result(what, from))
  PROVE  reported' \in [Party -> Report] /\ op' \in [Party -> Operation]
<1>1. Result(what, from) \in Report
  BY DEF Result, Report
<1>2. Idle \in Operation
  BY DEF Idle, Operation
<1>. QED  BY <1>1, <1>2 DEF Returns, TypeOK

\* Starting an operation.
LEMMA StartTasks ==
  ASSUME Tasks, NEW p \in Party,
         \/ \E targets \in Targets : StartSend(p, targets)
         \/ \E q \in Party, timed \in BOOLEAN : StartRecvFrom(p, q, timed)
         \/ \E q \in Party : PeerUnknown(p, q)
         \/ \E timed \in BOOLEAN : StartRecvAny(p, timed)
  PROVE  Tasks'
<1>1. ASSUME NEW targets \in Targets, StartSend(p, targets)
      PROVE  Tasks'
  <2>1. targets \subseteq Party
    BY StreamsAssumption
  <2>2. TypeOK'
    BY <1>1, <2>1 DEF StartSend, Tasks, TypeOK, Operation
  <2>3. TaskInv'
    BY <1>1 DEF StartSend, Tasks, TypeOK, TaskInv, Idle
  <2>4. WriteOrder'
    BY <1>1 DEF StartSend, Tasks, TypeOK, WriteOrder
  <2>. QED  BY <2>2, <2>3, <2>4 DEF Tasks
<1>2. ASSUME NEW operation \in Operation, StartsReceive(p, operation),
             NEW report \in Report, reported' = [reported EXCEPT ![p] = report],
             operation.kind # "Send",
             operation.kind = "RecvFrom" => operation.from # {}
      PROVE  Tasks'
  <2>1. TypeOK'
    BY <1>2 DEF StartsReceive, Tasks, TypeOK
  <2>2. TaskInv'
    <3>1. /\ op'[p] = operation /\ op[p].kind = "Idle" /\ status[p] = "running"
          /\ \A r \in Party : r # p => op'[r] = op[r]
          /\ UNCHANGED <<unwritten, status>>
      BY <1>2, IdleType DEF StartsReceive, Tasks, TypeOK
    <3>. QED  BY <1>2, <3>1 DEF Tasks, TaskInv
  <2>3. WriteOrder'
    BY <1>2 DEF StartsReceive, Tasks, TypeOK, WriteOrder
  <2>. QED  BY <2>1, <2>2, <2>3 DEF Tasks
<1>3. ASSUME NEW q \in Party, NEW timed \in BOOLEAN, StartRecvFrom(p, q, timed)
      PROVE  Tasks'
  <2>. DEFINE operation == [kind |-> "RecvFrom", from |-> {q}, timed |-> timed]
  <2>1. operation \in Operation /\ operation.kind = "RecvFrom" /\ operation.from # {}
    BY DEF Operation
  <2>2. Result("Nothing", NoParty) \in Report
    BY DEF Result, Report
  <2>3. /\ StartsReceive(p, operation)
        /\ reported' = [reported EXCEPT ![p] = Result("Nothing", NoParty)]
    BY <1>3 DEF StartRecvFrom
  <2>. HIDE DEF operation
  <2>. QED  BY <1>2, <2>1, <2>2, <2>3
<1>4. ASSUME NEW q \in Party, PeerUnknown(p, q)
      PROVE  Tasks'
  <2>1. Result("PartyNotFound", q) \in Report
    BY DEF Result, Report
  <2>. QED  BY <1>2, <1>4, <2>1, IdleType DEF PeerUnknown
<1>5. ASSUME NEW timed \in BOOLEAN, StartRecvAny(p, timed)
      PROVE  Tasks'
  <2>. DEFINE operation == [kind |-> "RecvAny", from |-> Party, timed |-> timed]
  <2>1. operation \in Operation /\ operation.kind = "RecvAny"
    BY DEF Operation
  <2>2. Result("Nothing", NoParty) \in Report
    BY DEF Result, Report
  <2>3. /\ StartsReceive(p, operation)
        /\ reported' = [reported EXCEPT ![p] = Result("Nothing", NoParty)]
    BY <1>5 DEF StartRecvAny
  <2>. HIDE DEF operation
  <2>. QED  BY <1>2, <2>1, <2>2, <2>3
<1>. QED  BY <1>1, <1>3, <1>4, <1>5

\* Going on with a send.
LEMMA WrittenTasks ==
  ASSUME Tasks, NEW p \in Party, NEW halves, halves # {}, Written(p, halves)
  PROVE  /\ op' \in [Party -> Operation]
         /\ unwritten' \in [Party -> SUBSET (Party \X {"head", "body"})]
         /\ status' = status => TaskInv'
         /\ op[p].kind = "Send" /\ status[p] = "running"
         /\ unwritten'[p] = unwritten[p] \ halves
         /\ \A r \in Party : r # p => unwritten'[r] = unwritten[r]
<1>1. Idle \in Operation
  BY DEF Idle, Operation
<1>2. op' \in [Party -> Operation]
  BY <1>1 DEF Written, Tasks, TypeOK
<1>3. unwritten' \in [Party -> SUBSET (Party \X {"head", "body"})]
  BY DEF Written, Tasks, TypeOK
<1>4. op[p].kind = "Send" /\ status[p] = "running"
  BY DEF Written, Tasks, TypeOK, TaskInv, Idle
<1>5. status' = status => TaskInv'
  BY <1>4 DEF Written, Tasks, TypeOK, TaskInv, Idle
<1>6. /\ unwritten'[p] = unwritten[p] \ halves
      /\ \A r \in Party : r # p => unwritten'[r] = unwritten[r]
  BY DEF Written, Tasks, TypeOK
<1>. QED  BY <1>2, <1>3, <1>4, <1>5, <1>6

LEMMA SendTasks ==
  ASSUME Tasks, NEW p \in Party, SendStep(p)
  PROVE  Tasks'
<1>1. CASE SendToSelf(p)
  <2>. DEFINE l == <<p, p>>
              whole == <<[number |-> sent[l] + 1, part |-> "head"],
                         [number |-> sent[l] + 1, part |-> "body"]>>
  <2>1. l \in Link /\ sent[l] \in Nat /\ buffer[l] \in Seq(Half)
    BY DEF Link, Tasks, TypeOK
  <2>2. whole \in Seq(Half)
    BY <2>1 DEF Half
  <2>3. buffer[l] \o whole \in Seq(Half)
    BY <2>1, <2>2, ConcatProperties
  <2>4. Written(p, {<<p, "head">>, <<p, "body">>})
    BY <1>1 DEF SendToSelf
  <2>. HIDE DEF whole
  <2>5. TypeOK'
    <3>1. buffer' \in [Link -> Seq(Half)] /\ sent' \in [Link -> Nat]
      BY <1>1, <2>1, <2>3 DEF SendToSelf, Tasks, TypeOK, whole
    <3>. QED  BY <1>1, <2>4, <3>1, WrittenTasks DEF SendToSelf, Tasks, TypeOK
  <2>6. TaskInv'
    BY <1>1, <2>4, WrittenTasks DEF SendToSelf
  <2>7. WriteOrder'
    <3>1. /\ unwritten'[p] = unwritten[p] \ {<<p, "head">>, <<p, "body">>}
          /\ \A r \in Party : r # p => unwritten'[r] = unwritten[r]
      BY <2>4, WrittenTasks
    <3>. QED  BY <3>1 DEF Tasks, WriteOrder
  <2>. QED  BY <2>5, <2>6, <2>7 DEF Tasks
<1>2. CASE SendFails(p)
  <2>1. TypeOK'
    <3>1. cut' \in [Link -> Nat]
      BY <1>2 DEF SendFails, Tasks, TypeOK
    <3>. QED  BY <1>2, <3>1, IdleType DEF SendFails, Tasks, TypeOK
  <2>2. TaskInv' /\ WriteOrder'
    BY <1>2 DEF SendFails, Tasks, TypeOK, TaskInv, WriteOrder, Idle
  <2>. QED  BY <2>1, <2>2 DEF Tasks
<1>3. ASSUME NEW t \in Party, WriteHead(p, t) \/ WriteBody(p, t)
      PROVE  Tasks'
  <2>. DEFINE l == <<p, t>>
  <2>0. PICK part \in {"head", "body"} :
          /\ Written(p, {<<t, part>>}) /\ p # t
          /\ part = "body" => <<t, "head">> \notin unwritten[p]
    BY <1>3 DEF WriteHead, WriteBody
  <2>1. PICK half \in Half :
          /\ wire' = [wire EXCEPT ![l] = Append(@, half)]
          /\ sent' \in [Link -> Nat]
    <3>1. l \in Link /\ sent[l] \in Nat
      BY DEF Link, Tasks, TypeOK
    <3>2. CASE WriteHead(p, t)
      <4>1. [number |-> sent[l] + 1, part |-> "head"] \in Half
        BY <3>1 DEF Half
      <4>2. /\ wire' = [wire EXCEPT ![l] = Append(@, [number |-> sent[l] + 1, part |-> "head"])]
            /\ sent' \in [Link -> Nat]
        BY <3>1, <3>2 DEF WriteHead, Tasks, TypeOK
      <4>. QED  BY <4>1, <4>2
    <3>3. CASE WriteBody(p, t)
      <4>1. [number |-> sent[l], part |-> "body"] \in Half
        BY <3>1 DEF Half
      <4>2. /\ wire' = [wire EXCEPT ![l] = Append(@, [number |-> sent[l], part |-> "body"])]
            /\ sent' \in [Link -> Nat]
        BY <3>1, <3>3 DEF WriteBody, Tasks, TypeOK
      <4>. QED  BY <4>1, <4>2
    <3>. QED  BY <1>3, <3>2, <3>3
  <2>2. wire' \in [Link -> Seq(Half)]
    BY <2>1, AppendProperties DEF Tasks, TypeOK, Link
  <2>3. TypeOK'
    BY <1>3, <2>0, <2>1, <2>2, WrittenTasks DEF WriteHead, WriteBody, Tasks, TypeOK
  <2>4. TaskInv'
    BY <1>3, <2>0, WrittenTasks DEF WriteHead, WriteBody
  <2>5. WriteOrder'
    <3>1. /\ unwritten'[p] = unwritten[p] \ {<<t, part>>}
          /\ \A r \in Party : r # p => unwritten'[r] = unwritten[r]
      BY <2>0, WrittenTasks
    <3>. QED  BY <2>0, <3>1 DEF Tasks, WriteOrder
  <2>. QED  BY <2>3, <2>4, <2>5 DEF Tasks
<1>. QED  BY <1>1, <1>2, <1>3 DEF SendStep

\* Whatever a receive returns: types, and p awaits nothing any more.
LEMMA ReturnsTasks ==
  ASSUME Tasks, NEW p \in Party,
         NEW what \in {"Packet", "Timeout", "ConnectionClosed", "IoError"},
         NEW from \in Party \cup {NoParty}, Returns(p, Result(what, from)),
         ReceiveFrame, op[p].kind # "Send",
         buffer' \in [Link -> Seq(Half)], received' \in [Link -> Nat],
         failed' \subseteq Link, astray' \subseteq Link, receivers' \in [Party -> SUBSET Party]
  PROVE  Tasks'
<1>. USE DEF Tasks
<1>1. TypeOK'
  BY ReturnsTypes DEF ReceiveFrame, TypeOK
<1>2. TaskInv'
  BY IdleType DEF ReceiveFrame, Returns, TypeOK, TaskInv
<1>3. WriteOrder'
  BY DEF ReceiveFrame, WriteOrder
<1>. QED  BY <1>1, <1>2, <1>3

\* Going on with a receive.
LEMMA PollTasks ==
  ASSUME Tasks, NEW p \in Party, PollStep(p)
  PROVE  Tasks'
<1>. USE DEF Tasks
<1>1. astray' = astray /\ astray \subseteq Link
  BY DEF PollStep, PollFrom, PollAny, PruneEnded, TimedOut, TypeOK
<1>2. CASE PollFrom(p)
  <2>1. PICK q \in op[p].from :
          \/ /\ Decode(<<q, p>>)
             /\ Returns(p, Result("Packet", q))
             /\ UNCHANGED failed
          \/ /\ failed' = failed \cup {<<q, p>>}
             /\ Returns(p, Result("IoError", q))
             /\ UNCHANGED <<buffer, received>>
          \/ /\ Returns(p, Result("ConnectionClosed", q))
             /\ UNCHANGED <<buffer, received, failed>>
    BY <1>2 DEF PollFrom
  <2>2. q \in Party /\ <<q, p>> \in Link
    BY DEF TypeOK, Operation, Link
  <2>3. /\ op[p].kind # "Send" /\ ReceiveFrame /\ UNCHANGED receivers
    BY <1>2 DEF PollFrom, Waits
  <2>. QED  BY <1>1, <2>1, <2>2, <2>3, DecodeTypes, ReturnsTasks DEF TypeOK
<1>3. CASE PollAny(p)
  <2>1. PICK q \in Answers(p), passed \in SUBSET EndedPeers(p) :
          /\ receivers' = [receivers EXCEPT ![p] = @ \ passed]
          /\ \/ /\ Decode(<<q, p>>)
                /\ Returns(p, Result("Packet", q))
                /\ UNCHANGED failed
             \/ /\ failed' = failed \cup {<<q, p>>}
                /\ Returns(p, Result("IoError", q))
                /\ UNCHANGED <<buffer, received>>
    BY <1>3 DEF PollAny
  <2>2. q \in Party /\ <<q, p>> \in Link /\ receivers' \in [Party -> SUBSET Party]
    BY <2>1 DEF TypeOK, Answers, Link
  <2>3. op[p].kind # "Send" /\ ReceiveFrame
    BY <1>3 DEF PollAny, Waits
  <2>4. CASE Decode(<<q, p>>) /\ Returns(p, Result("Packet", q)) /\ UNCHANGED failed
    <3>1. /\ buffer' \in [Link -> Seq(Half)] /\ received' \in [Link -> Nat]
          /\ failed' \subseteq Link
      BY <2>2, <2>4, DecodeTypes DEF TypeOK
    <3>. QED  BY <1>1, <2>2, <2>3, <2>4, <3>1, ReturnsTasks
  <2>5. CASE /\ failed' = failed \cup {<<q, p>>}
             /\ Returns(p, Result("IoError", q))
             /\ UNCHANGED <<buffer, received>>
    <3>1. /\ buffer' \in [Link -> Seq(Half)] /\ received' \in [Link -> Nat]
          /\ failed' \subseteq Link
      BY <2>2, <2>5 DEF TypeOK
    <3>. QED  BY <1>1, <2>2, <2>3, <2>5, <3>1, ReturnsTasks
  <2>. QED  BY <2>1, <2>4, <2>5
<1>4. CASE PruneEnded(p)
  <2>1. /\ op[p].kind # "Send" /\ ReceiveFrame
        /\ UNCHANGED <<buffer, failed, received>>
        /\ receivers' \in [Party -> SUBSET Party]
    BY <1>4 DEF PruneEnded, Waits, TypeOK
  <2>2. CASE Returns(p, Result("ConnectionClosed", NoParty))
    BY <1>1, <2>1, <2>2, ReturnsTasks DEF TypeOK
  <2>3. CASE UNCHANGED <<reported, op>>
    BY <1>1, <2>1, <2>3 DEF ReceiveFrame, TypeOK, TaskInv, WriteOrder
  <2>. QED  BY <1>4, <2>2, <2>3 DEF PruneEnded
<1>5. CASE TimedOut(p)
  <2>. DEFINE peer == IF op[p].kind = "RecvFrom" THEN CHOOSE q \in op[p].from : TRUE ELSE NoParty
  <2>1. peer \in Party \cup {NoParty}
    <3>1. CASE op[p].kind = "RecvFrom"
      <4>1. op[p].from # {} /\ op[p].from \subseteq Party
        BY <3>1 DEF TypeOK, TaskInv, Operation
      <4>. QED  BY <3>1, <4>1
    <3>. QED  BY <3>1
  <2>2. /\ Returns(p, Result("Timeout", peer))
        /\ UNCHANGED <<buffer, failed, receivers, received>>
        /\ ReceiveFrame
    BY <1>5 DEF TimedOut, KeepPartial
  <2>3. op[p].kind # "Send"
    BY <1>5 DEF TimedOut, TaskInv
  <2>4. /\ buffer' \in [Link -> Seq(Half)] /\ received' \in [Link -> Nat]
        /\ failed' \subseteq Link /\ receivers' \in [Party -> SUBSET Party]
    BY <2>2 DEF TypeOK
  <2>. HIDE DEF peer
  <2>. QED  BY <1>1, <2>1, <2>2, <2>3, <2>4, ReturnsTasks
<1>. QED  BY <1>2, <1>3, <1>4, <1>5 DEF PollStep

\* Going on with a receive from a tangled stream.
LEMMA MisreadEffect ==
  ASSUME Tasks, NEW p \in Party, MisreadStep(p)
  PROVE  /\ ReceiveFrame
         /\ op[p].kind # "Send" /\ failed \subseteq failed'
         /\ receivers'[p] \subseteq receivers[p]
         /\ \A q \in receivers[p] \ receivers'[p] : Ended(<<q, p>>)
         /\ \A r \in Party : r # p => receivers'[r] = receivers[r]
         /\ receivers' \in [Party -> SUBSET Party]
         /\ \E q \in Party :
              /\ <<q, p>> \in Link /\ Misread(<<q, p>>)
              /\ \E what \in {"Packet", "IoError"} : Returns(p, Result(what, q))
              /\ failed' \subseteq failed \cup {<<q, p>>}
<1>. USE DEF Tasks
<1>1. PICK q \in op[p].from \cap receivers[p] :
        /\ Misread(<<q, p>>)
        /\ \/ Returns(p, Result("Packet", q)) /\ UNCHANGED failed
           \/ Returns(p, Result("IoError", q)) /\ failed' \in {failed, failed \cup {<<q, p>>}}
  BY DEF MisreadStep
<1>2. PICK passed \in SUBSET EndedPeers(p) :
        receivers' = [receivers EXCEPT ![p] = IF op[p].kind = "RecvAny" THEN @ \ passed ELSE @]
  BY DEF MisreadStep
<1>3. q \in Party /\ <<q, p>> \in Link
  BY <1>1 DEF TypeOK, Link
<1>4. op[p].kind # "Send"
  BY DEF MisreadStep, Waits
<1>5. failed \subseteq failed' /\ failed' \subseteq failed \cup {<<q, p>>}
  BY <1>1
<1>6. /\ receivers'[p] \subseteq receivers[p]
      /\ \A r \in receivers[p] \ receivers'[p] : Ended(<<r, p>>)
      /\ \A r \in Party : r # p => receivers'[r] = receivers[r]
      /\ receivers' \in [Party -> SUBSET Party]
  BY <1>2 DEF EndedPeers, TypeOK
<1>7. \E what \in {"Packet", "IoError"} : Returns(p, Result(what, q))
  BY <1>1
<1>. QED  BY <1>1, <1>3, <1>4, <1>5, <1>6, <1>7 DEF MisreadStep

LEMMA MisreadTasks ==
  ASSUME Tasks, NEW p \in Party, MisreadStep(p)
  PROVE  Tasks'
<1>1. /\ ReceiveFrame /\ op[p].kind # "Send"
      /\ receivers' \in [Party -> SUBSET Party]
  BY MisreadEffect
<1>2. PICK q \in Party :
        /\ <<q, p>> \in Link /\ Misread(<<q, p>>)
        /\ \E what \in {"Packet", "IoError"} : Returns(p, Result(what, q))
        /\ failed' \subseteq failed \cup {<<q, p>>}
  BY MisreadEffect
<1>3. /\ buffer' \in [Link -> Seq(Half)] /\ received' \in [Link -> Nat]
      /\ failed' \subseteq Link /\ astray' \subseteq Link
  BY <1>2, MisreadTypes DEF Tasks, TypeOK
<1>. QED  BY <1>1, <1>2, <1>3, ReturnsTasks

LEMMA EndTasks ==
  ASSUME Tasks, NEW p \in Party, Close(p) \/ Drop(p)
  PROVE  Tasks'
<1>. USE DEF Tasks
<1>0. Result("Nothing", NoParty) \in Report
  BY DEF Result, Report
<1>1. CASE Close(p)
  <2>1. TypeOK'
    BY <1>0, <1>1 DEF Close, TypeOK
  <2>2. TaskInv' /\ WriteOrder'
    BY <1>1 DEF Close, TypeOK, TaskInv, WriteOrder
  <2>. QED  BY <2>1, <2>2
<1>2. CASE Drop(p)
  <2>1. wire' \in [Link -> Seq(Half)]
    BY <1>2, EmptySeq DEF Drop, TypeOK
  <2>2. TypeOK'
    BY <1>0, <1>2, <2>1, IdleType DEF Drop, TypeOK
  <2>3. TaskInv' /\ WriteOrder'
    <3>1. /\ op'[p] = Idle /\ unwritten'[p] = {}
          /\ \A r \in Party : r # p => /\ op'[r] = op[r] /\ unwritten'[r] = unwritten[r]
                                     /\ status'[r] = status[r]
      BY <1>2 DEF Drop, TypeOK
    <3>2. TaskInv'
      BY <3>1, IdleType DEF TaskInv
    <3>3. WriteOrder'
      BY <3>1 DEF WriteOrder
    <3>. QED  BY <3>2, <3>3
  <2>. QED  BY <2>2, <2>3
<1>. QED  BY <1>1, <1>2

LEMMA ArriveTasks ==
  ASSUME Tasks, NEW l \in Link, Arrive(l)
  PROVE  Tasks'
<1>1. wire[l] \in Seq(Half) /\ buffer[l] \in Seq(Half) /\ wire[l] # <<>>
  BY DEF Arrive, Tasks, TypeOK
<1>2. Append(buffer[l], Head(wire[l])) \in Seq(Half) /\ Tail(wire[l]) \in Seq(Half)
  BY <1>1, HeadTailProperties, AppendProperties
<1>. QED  BY <1>2 DEF Arrive, Tasks, TypeOK, TaskInv, WriteOrder

LEMMA TasksStep ==
  ASSUME Tasks, [Next]_vars
  PROVE  Tasks'
<1>1. CASE UNCHANGED vars
  BY <1>1 DEF vars, Tasks, TypeOK, TaskInv, WriteOrder
<1>2. ASSUME NEW p \in Party, ProtocolStep(p) PROVE Tasks'
  BY <1>2, StartTasks, EndTasks DEF ProtocolStep
<1>. QED  BY <1>1, <1>2, SendTasks, PollTasks, MisreadTasks, ArriveTasks DEF Next

-----------------------------------------------------------------------------
(***************************************************************************)
(* What a step does to the halves on the links.                            *)
(***************************************************************************)
\* The k-th half of a link, odd and even.
LEMMA PlaceNumbers ==
  ASSUME NEW half \in Half, NEW n \in Nat
  PROVE  /\ Place(half) = 2 * n + 1 => half.number = n + 1
         /\ Place(half) = 2 * n + 2 => half.number = n + 1
BY DEF Place, Half

LEMMA LinkTypes ==
  ASSUME TypeOK, NEW l \in Link
  PROVE  /\ received[l] \in Nat /\ sent[l] \in Nat /\ cut[l] \in Nat
         /\ buffer[l] \in Seq(Half) /\ wire[l] \in Seq(Half)
         /\ Len(buffer[l]) \in Nat /\ Len(wire[l]) \in Nat
BY LenProperties DEF TypeOK

\* The halves in front of a reader that is not astray.
LEMMA InFront ==
  ASSUME Tasks, NEW l \in Link, InSequence(l), CutInv(l), l \notin astray, Len(buffer[l]) >= 2
  PROVE  /\ buffer[l][1].number = received[l] + 1
         /\ Whole(l) <=> cut[l] = 0 \/ received[l] + 1 < cut[l]
<1>1. PICK r \in Nat, c \in Nat : received[l] = r /\ cut[l] = c
  BY LinkTypes DEF Tasks
<1>2. buffer[l][1] \in Half /\ buffer[l][2] \in Half /\ 1 \in 1..Len(buffer[l]) /\ 2 \in 1..Len(buffer[l])
  BY LinkTypes, ElementOfSeq DEF Tasks, TypeOK
<1>3. At(c, buffer[l][1], 2 * r + 1) /\ At(c, buffer[l][2], 2 * r + 2)
  BY <1>1, <1>2 DEF InSequence
<1>4. c = 0 \/ r < c
  BY <1>1 DEF CutInv
<1>5. buffer[l][1].number = r + 1
  BY <1>2, <1>3, <1>4, PlaceNumbers DEF At
<1>6. c = 0 \/ r + 1 < c => buffer[l][2].number = r + 1
  BY <1>2, <1>3, PlaceNumbers DEF At
<1>7. ~(c = 0 \/ r + 1 < c) => buffer[l][2].number # r + 1
  BY <1>2, <1>3, <1>4 DEF At, Half
<1>. QED  BY <1>1, <1>5, <1>6, <1>7 DEF Whole

\* A frame is decoded from its own two halves, and from before the cut.
LEMMA DecodeEffect ==
  ASSUME Tasks, NEW l \in Link, InSequence(l), CutInv(l), Decode(l)
  PROVE  /\ received' = [received EXCEPT ![l] = @ + 1]
         /\ l \notin astray /\ (cut[l] = 0 \/ received[l] + 1 < cut[l])
         /\ Len(buffer[l]) >= 2
         /\ Len(buffer'[l]) = Len(buffer[l]) - 2
         /\ \A i \in 1..Len(buffer'[l]) : buffer'[l][i] = buffer[l][i + 2]
         /\ \A k \in Link : k # l => buffer'[k] = buffer[k]
<1>1. Len(buffer[l]) >= 2 /\ Len(buffer[l]) \in Nat /\ l \notin astray /\ Whole(l)
  BY LinkTypes DEF Decode, FrameReady, Whole, Tasks
<1>2. buffer[l][1].number = received[l] + 1 /\ (cut[l] = 0 \/ received[l] + 1 < cut[l])
  BY <1>1, InFront
<1>3. \A i \in 3..Len(buffer[l]) : buffer[l][i] \in Half
  BY <1>1, ElementOfSeq DEF Tasks, TypeOK
<1>4. /\ Len(SubSeq(buffer[l], 3, Len(buffer[l]))) = Len(buffer[l]) - 2
      /\ \A i \in 1..Len(buffer[l]) - 2 : SubSeq(buffer[l], 3, Len(buffer[l]))[i] = buffer[l][i + 2]
  BY <1>1, <1>3, SubSeqProperties
<1>5. buffer'[l] = SubSeq(buffer[l], 3, Len(buffer[l]))
  BY DEF Decode, Rest, Tasks, TypeOK
<1>. QED  BY <1>1, <1>2, <1>4, <1>5 DEF Decode, Tasks, TypeOK

\* A reader goes astray only behind a torn head, right at it.
LEMMA MisreadBehindCut ==
  ASSUME Tasks, NEW l \in Link, InSequence(l), AllTaken(l), CutInv(l), Misread(l)
  PROVE  ~Intact(l) /\ (l \notin astray => received[l] + 1 = cut[l])
<1>1. CASE l \in astray
  BY <1>1 DEF CutInv
<1>2. CASE l \notin astray
  <2>1. Len(buffer[l]) >= 2 /\ ~Whole(l)
    BY <1>2 DEF Misread, Tangled
  <2>2. PICK r \in Nat, c \in Nat, n \in Nat, m \in Nat, s \in Nat :
          /\ received[l] = r /\ cut[l] = c /\ Len(buffer[l]) = n /\ Len(wire[l]) = m /\ sent[l] = s
    BY LinkTypes DEF Tasks
  <2>3. c # 0 /\ r + 1 = c
    BY <1>2, <2>1, <2>2, InFront DEF CutInv
  <2>4. ASSUME s = c
        PROVE  FALSE
    <3>1. Full(l) = 2 * c - 1 /\ Intact(l)
      BY <2>2, <2>3, <2>4 DEF Full, Intact
    <3>2. 2 * r + n + m <= 2 * c - 1
      BY <2>2, <3>1 DEF AllTaken, Taken
    <3>. QED  BY <2>1, <2>2, <2>3, <3>2
  <2>. QED  BY <2>2, <2>3, <2>4 DEF Intact
<1>. QED  BY <1>1, <1>2

LEMMA ArriveEffect ==
  ASSUME Tasks, NEW l \in Link, Arrive(l)
  PROVE  /\ Len(wire[l]) > 0
         /\ Len(buffer'[l]) = Len(buffer[l]) + 1
         /\ Len(wire'[l]) = Len(wire[l]) - 1
         /\ \A i \in 1..Len(buffer[l]) : buffer'[l][i] = buffer[l][i]
         /\ buffer'[l][Len(buffer[l]) + 1] = wire[l][1]
         /\ \A i \in 1..Len(wire'[l]) : wire'[l][i] = wire[l][i + 1]
         /\ \A k \in Link : k # l => buffer'[k] = buffer[k] /\ wire'[k] = wire[k]
<1>1. buffer[l] \in Seq(Half) /\ wire[l] \in Seq(Half) /\ wire[l] # <<>>
  BY DEF Arrive, Tasks, TypeOK
<1>2. Len(wire[l]) > 0
  BY <1>1, EmptySeq
<1>3. /\ Len(Tail(wire[l])) = Len(wire[l]) - 1
      /\ \A i \in 1..Len(Tail(wire[l])) : Tail(wire[l])[i] = wire[l][i + 1]
      /\ Head(wire[l]) = wire[l][1] /\ Head(wire[l]) \in Half
  BY <1>1, HeadTailProperties
<1>4. /\ Len(Append(buffer[l], Head(wire[l]))) = Len(buffer[l]) + 1
      /\ \A i \in 1..Len(buffer[l]) : Append(buffer[l], Head(wire[l]))[i] = buffer[l][i]
      /\ Append(buffer[l], Head(wire[l]))[Len(buffer[l]) + 1] = Head(wire[l])
  BY <1>1, <1>3, AppendProperties
<1>5. buffer'[l] = Append(buffer[l], Head(wire[l])) /\ wire'[l] = Tail(wire[l])
  BY DEF Arrive, Tasks, TypeOK
<1>. QED  BY <1>2, <1>3, <1>4, <1>5 DEF Arrive, Tasks, TypeOK

\* One half more on the wire.
Writes(l, half) == wire' = [wire EXCEPT ![l] = Append(@, half)]

LEMMA WriteEffect ==
  ASSUME Tasks, NEW l \in Link, NEW half \in Half, Writes(l, half)
  PROVE  /\ Len(wire'[l]) = Len(wire[l]) + 1
         /\ \A i \in 1..Len(wire[l]) : wire'[l][i] = wire[l][i]
         /\ wire'[l][Len(wire[l]) + 1] = half
         /\ \A k \in Link : k # l => wire'[k] = wire[k]
<1>1. wire[l] \in Seq(Half) /\ wire'[l] = Append(wire[l], half)
  BY DEF Writes, Tasks, TypeOK
<1>. QED  BY <1>1, AppendProperties DEF Writes, Tasks, TypeOK

LEMMA SelfEffect ==
  ASSUME Tasks, NEW p \in Party, NEW l \in Link, l = <<p, p>>, SendToSelf(p)
  PROVE  /\ Len(buffer'[l]) = Len(buffer[l]) + 2
         /\ \A i \in 1..Len(buffer[l]) : buffer'[l][i] = buffer[l][i]
         /\ Place(buffer'[l][Len(buffer[l]) + 1]) = 2 * sent[l] + 1
         /\ Place(buffer'[l][Len(buffer[l]) + 2]) = 2 * sent[l] + 2
         /\ \A k \in Link : k # l => buffer'[k] = buffer[k]
<1>. DEFINE whole == <<[number |-> sent[l] + 1, part |-> "head"],
                       [number |-> sent[l] + 1, part |-> "body"]>>
<1>1. buffer[l] \in Seq(Half) /\ Len(buffer[l]) \in Nat /\ sent[l] \in Nat
  BY LinkTypes DEF Tasks
<1>2. whole \in Seq(Half) /\ Len(whole) = 2
  BY <1>1 DEF Half
<1>3. Place(whole[1]) = 2 * sent[l] + 1 /\ Place(whole[2]) = 2 * sent[l] + 2
  BY <1>1 DEF Place
<1>4. buffer'[l] = buffer[l] \o whole /\ \A k \in Link : k # l => buffer'[k] = buffer[k]
  BY DEF SendToSelf, Tasks, TypeOK
<1>. HIDE DEF whole
<1>5. /\ Len(buffer[l] \o whole) = Len(buffer[l]) + 2
      /\ \A i \in 1..Len(buffer[l]) : (buffer[l] \o whole)[i] = buffer[l][i]
      /\ (buffer[l] \o whole)[Len(buffer[l]) + 1] = whole[1]
      /\ (buffer[l] \o whole)[Len(buffer[l]) + 2] = whole[2]
  <2>. DEFINE n == Len(buffer[l])
  <2>1. /\ Len(buffer[l] \o whole) = n + 2
        /\ \A i \in 1..n + 2 :
             (buffer[l] \o whole)[i] = IF i <= n THEN buffer[l][i] ELSE whole[i - n]
    <3>1. /\ Len(buffer[l] \o whole) = n + Len(whole)
          /\ \A i \in 1..n + Len(whole) :
               (buffer[l] \o whole)[i] = IF i <= n THEN buffer[l][i] ELSE whole[i - n]
      BY <1>1, <1>2, ConcatProperties
    <3>. QED  BY <1>2, <3>1
  <2>2. /\ n \in Nat /\ n + 1 \in 1..n + 2 /\ n + 2 \in 1..n + 2
        /\ (n + 1) - n = 1 /\ (n + 2) - n = 2 /\ ~(n + 1 <= n) /\ ~(n + 2 <= n)
        /\ \A i \in 1..n : i \in 1..n + 2 /\ i <= n
    BY <1>1
  <2>. HIDE DEF n
  <2>3. (buffer[l] \o whole)[n + 1] = whole[1] /\ (buffer[l] \o whole)[n + 2] = whole[2]
    BY <2>1, <2>2
  <2>. QED  BY <2>1, <2>2, <2>3 DEF n
<1>. QED  BY <1>3, <1>4, <1>5

-----------------------------------------------------------------------------
(***************************************************************************)
(* The links keep what was sent, in order.                                 *)
(***************************************************************************)
LEMMA LinksInit == Init => LinkInv
BY LinkEnds DEF Init, LinkInv, InSequence, AllTaken, CutInv, WriterInv, Taken, Full, Torn, Intact

LEMMA QuietLinks ==
  ASSUME Tasks, LinkInv,
         UNCHANGED <<wire, buffer, received, sent, cut, astray, writer, status>>,
         \A l \in Link : Torn(l)' <=> Torn(l)
  PROVE  LinkInv'
<1>. SUFFICES ASSUME NEW l \in Link
              PROVE  InSequence(l)' /\ AllTaken(l)' /\ CutInv(l)' /\ WriterInv(l)'
  BY DEF LinkInv
<1>1. InSequence(l)'
  BY DEF LinkInv, InSequence
<1>2. AllTaken(l)'
  BY DEF LinkInv, AllTaken, Taken, Full, Intact
<1>3. CutInv(l)' /\ WriterInv(l)'
  BY DEF LinkInv, CutInv, WriterInv, Intact
<1>. QED  BY <1>1, <1>2, <1>3

\* Unwritten sends that are dropped leave torn frames, or none.
LEMMA FailLinks ==
  ASSUME Tasks, LinkInv, NEW p \in Party, SendFails(p)
  PROVE  LinkInv'
<1>. SUFFICES ASSUME NEW l \in Link
              PROVE  InSequence(l)' /\ AllTaken(l)' /\ CutInv(l)' /\ WriterInv(l)'
  BY DEF LinkInv
<1>0. InSequence(l) /\ AllTaken(l) /\ CutInv(l) /\ WriterInv(l)
  BY DEF LinkInv
<1>1. /\ UNCHANGED <<wire, buffer, received, sent, astray, writer, status>>
      /\ cut'[l] = IF l[1] = p /\ Torn(l) /\ cut[l] = 0 THEN sent[l] ELSE cut[l]
      /\ l[1] \in Party /\ unwritten'[p] = {}
      /\ l[1] # p => unwritten'[l[1]] = unwritten[l[1]]
  BY LinkEnds DEF SendFails, Tasks, TypeOK
<1>2. WriterInv(l)'
  BY <1>0, <1>1 DEF WriterInv
<1>3. CASE l[1] = p /\ Torn(l) /\ cut[l] = 0
  <2>1. PICK r \in Nat, n \in Nat, m \in Nat, s \in Nat :
          /\ received[l] = r /\ Len(buffer[l]) = n /\ Len(wire[l]) = m /\ sent[l] = s
    BY LinkTypes DEF Tasks
  <2>2. status[l[1]] = "running" /\ Intact(l) /\ l \notin astray /\ l[1] # l[2]
    <3>1. status[p] = "running"
      BY <1>3, IdleType DEF Tasks, TaskInv, Torn
    <3>2. l[1] # l[2]
      BY <1>1, <1>3 DEF Torn, Tasks, WriteOrder
    <3>. QED  BY <1>0, <1>3, <3>1, <3>2 DEF CutInv, Intact
  <2>3. 2 * r + n + m = 2 * s - 1 /\ Taken(l) = 2 * s - 1 /\ Taken(l)' = Taken(l)
    BY <1>0, <1>1, <1>3, <2>1, <2>2 DEF AllTaken, Full, Taken
  <2>4. ~Torn(l)' /\ cut'[l] = s /\ s > 0
    BY <1>1, <1>3, <2>1, <2>3 DEF Torn
  <2>5. InSequence(l)'
    <3>1. ASSUME NEW i \in 1..Len(buffer[l])
          PROVE  At(s, buffer[l][i], 2 * r + i)
      <4>1. At(0, buffer[l][i], 2 * r + i) /\ i <= n
        BY <1>0, <1>3, <2>1, <2>2 DEF InSequence
      <4>2. 2 * r + i < 2 * s
        BY <2>1, <2>3, <4>1
      <4>. QED  BY <4>1, <4>2 DEF At
    <3>2. ASSUME NEW i \in 1..Len(wire[l])
          PROVE  At(s, wire[l][i], 2 * r + n + i)
      <4>1. At(0, wire[l][i], 2 * r + n + i) /\ i <= m
        BY <1>0, <1>3, <2>1, <2>2 DEF InSequence
      <4>2. 2 * r + n + i < 2 * s
        BY <2>1, <2>3, <4>1
      <4>. QED  BY <4>1, <4>2 DEF At
    <3>. QED  BY <1>1, <2>1, <2>4, <3>1, <3>2 DEF InSequence, At, Place
  <2>6. AllTaken(l)'
    <3>1. Full(l)' = 2 * s - 1 /\ sent'[l] = s
      BY <1>1, <2>1, <2>4 DEF Full
    <3>. QED  BY <2>1, <2>3, <2>4, <3>1 DEF AllTaken
  <2>7. CutInv(l)'
    <3>1. r < s
      BY <2>3
    <3>. QED  BY <1>1, <2>1, <2>2, <2>4, <3>1 DEF CutInv
  <2>. QED  BY <1>2, <2>5, <2>6, <2>7
<1>4. CASE ~(l[1] = p /\ Torn(l) /\ cut[l] = 0)
  <2>1. cut'[l] = cut[l] /\ (Intact(l)' <=> Intact(l))
    BY <1>1, <1>4 DEF Intact
  <2>2. Torn(l)' => Torn(l)
    BY <1>1 DEF Torn
  <2>3. Intact(l) => Full(l)' = Full(l)
    <3>1. CASE l[1] = p
      BY <1>0, <1>1, <1>4, <2>1, <2>2, <3>1, LinkTypes DEF Full, CutInv, Intact, Tasks
    <3>2. CASE l[1] # p
      BY <1>1, <2>1, <3>2 DEF Full, Torn
    <3>. QED  BY <3>1, <3>2
  <2>4. InSequence(l)'
    BY <1>0, <1>1, <2>1 DEF InSequence
  <2>5. AllTaken(l)'
    BY <1>0, <1>1, <2>1, <2>3 DEF AllTaken, Taken
  <2>6. CutInv(l)'
    BY <1>0, <1>1, <2>1, <2>2 DEF CutInv
  <2>. QED  BY <1>2, <2>4, <2>5, <2>6
<1>. QED  BY <1>3, <1>4

LEMMA MisreadLinks ==
  ASSUME Tasks, LinkInv, NEW l \in Link, Misread(l), ReceiveFrame
  PROVE  LinkInv'
<1>. SUFFICES ASSUME NEW k \in Link
              PROVE  InSequence(k)' /\ AllTaken(k)' /\ CutInv(k)' /\ WriterInv(k)'
  BY DEF LinkInv
<1>0. /\ InSequence(l) /\ AllTaken(l) /\ CutInv(l)
      /\ InSequence(k) /\ AllTaken(k) /\ CutInv(k) /\ WriterInv(k)
  BY DEF LinkInv
<1>1. ~Intact(l)
  BY <1>0, MisreadBehindCut
<1>2. /\ UNCHANGED <<wire, writer, unwritten, status, sent, cut>>
      /\ astray' = astray \cup {l}
      /\ k # l => buffer'[k] = buffer[k] /\ received'[k] = received[k]
  BY DEF Misread, ReceiveFrame, Tasks, TypeOK
<1>3. (Torn(k)' <=> Torn(k)) /\ (Intact(k)' <=> Intact(k))
  BY <1>2 DEF Torn, Intact
<1>4. CASE k = l
  <2>1. ~Intact(l)' /\ l \in astray'
    BY <1>1, <1>2, <1>3, <1>4
  <2>2. InSequence(l)'
    BY <2>1 DEF InSequence
  <2>3. AllTaken(l)'
    BY <2>1 DEF AllTaken
  <2>4. CutInv(l)' /\ WriterInv(l)'
    BY <1>0, <1>2, <1>3, <1>4, <2>1 DEF CutInv, WriterInv
  <2>. QED  BY <1>4, <2>2, <2>3, <2>4
<1>5. CASE k # l
  <2>1. k \in astray' <=> k \in astray
    BY <1>2, <1>5
  <2>2. InSequence(k)'
    BY <1>0, <1>2, <1>5, <2>1 DEF InSequence
  <2>3. AllTaken(k)'
    BY <1>0, <1>2, <1>3, <1>5, <2>1 DEF AllTaken, Taken, Full
  <2>4. CutInv(k)' /\ WriterInv(k)'
    BY <1>0, <1>2, <1>3, <1>5, <2>1 DEF CutInv, WriterInv
  <2>. QED  BY <2>2, <2>3, <2>4
<1>. QED  BY <1>4, <1>5

LEMMA DecodeLinks ==
  ASSUME Tasks, LinkInv, NEW l \in Link, Decode(l), ReceiveFrame, UNCHANGED astray
  PROVE  LinkInv'
<1>. SUFFICES ASSUME NEW k \in Link
              PROVE  InSequence(k)' /\ AllTaken(k)' /\ CutInv(k)' /\ WriterInv(k)'
  BY DEF LinkInv
<1>0. InSequence(l) /\ CutInv(l)
  BY DEF LinkInv
<1>1. /\ received[l] \in Nat /\ Len(buffer[l]) \in Nat /\ Len(wire[l]) \in Nat
      /\ received'[l] = received[l] + 1
      /\ k # l => received'[k] = received[k] /\ buffer'[k] = buffer[k]
      /\ l \notin astray /\ (cut[l] = 0 \/ received[l] + 1 < cut[l])
      /\ UNCHANGED <<wire, writer, unwritten, status, sent, cut>>
  BY <1>0, LinkTypes, DecodeEffect DEF Tasks, TypeOK, ReceiveFrame
<1>2. /\ Len(buffer[l]) >= 2 /\ Len(buffer'[l]) = Len(buffer[l]) - 2
      /\ \A i \in 1..Len(buffer'[l]) : buffer'[l][i] = buffer[l][i + 2]
  BY <1>0, DecodeEffect
<1>3. 2 * received'[l] + Len(buffer'[l]) = 2 * received[l] + Len(buffer[l])
  <2>1. PICK r \in Nat, n \in Nat :
          /\ received[l] = r /\ received'[l] = r + 1
          /\ Len(buffer[l]) = n /\ Len(buffer'[l]) = n - 2
    BY <1>1, <1>2
  <2>. QED  BY <2>1
<1>4. InSequence(k)'
  <2>1. CASE k # l
    BY <1>1, <2>1 DEF LinkInv, InSequence
  <2>2. CASE k = l
    <3>1. ASSUME NEW i \in 1..Len(buffer'[l])
          PROVE  At(cut[l], buffer'[l][i], 2 * received'[l] + i)
      <4>1. i + 2 \in 1..Len(buffer[l]) /\ buffer'[l][i] = buffer[l][i + 2]
        BY <1>1, <1>2
      <4>2. At(cut[l], buffer[l][i + 2], 2 * received[l] + (i + 2))
        BY <1>0, <1>1, <4>1 DEF InSequence
      <4>3. i \in Nat /\ received'[l] = received[l] + 1 /\ received[l] \in Nat
        BY <1>1, <1>2
      <4>4. 2 * received[l] + (i + 2) = 2 * (received[l] + 1) + i
        BY <4>3
      <4>. QED  BY <4>1, <4>2, <4>3, <4>4
    <3>2. ASSUME NEW i \in 1..Len(wire'[l])
          PROVE  At(cut[l], wire'[l][i], 2 * received'[l] + Len(buffer'[l]) + i)
      <4>1. i \in 1..Len(wire[l]) /\ wire'[l][i] = wire[l][i]
        BY <1>1
      <4>2. At(cut[l], wire[l][i], 2 * received[l] + Len(buffer[l]) + i)
        BY <1>0, <1>1, <4>1 DEF InSequence
      <4>. QED  BY <1>3, <4>1, <4>2
    <3>. QED  BY <1>1, <2>2, <3>1, <3>2 DEF InSequence, At, Place
  <2>. QED  BY <2>1, <2>2
<1>5. Taken(k)' = Taken(k)
  BY <1>1, <1>3 DEF Taken
<1>6. /\ Torn(k)' <=> Torn(k)
      /\ Full(k)' = Full(k) /\ (Intact(k)' <=> Intact(k))
  BY <1>1 DEF Full, Torn, Intact
<1>7. AllTaken(k)'
  BY <1>1, <1>5, <1>6 DEF LinkInv, AllTaken
<1>8. CutInv(k)' /\ WriterInv(k)'
  <2>1. CASE k # l
    BY <1>1, <1>6, <2>1 DEF LinkInv, CutInv, WriterInv
  <2>2. CASE k = l
    BY <1>1, <1>6, <2>2 DEF LinkInv, CutInv, WriterInv
  <2>. QED  BY <2>1, <2>2
<1>. QED  BY <1>4, <1>7, <1>8

LEMMA ArriveLinks ==
  ASSUME Tasks, LinkInv, NEW l \in Link, Arrive(l)
  PROVE  LinkInv'
<1>. SUFFICES ASSUME NEW k \in Link
              PROVE  InSequence(k)' /\ AllTaken(k)' /\ CutInv(k)' /\ WriterInv(k)'
  BY DEF LinkInv
<1>0. InSequence(l)
  BY DEF LinkInv
<1>1. UNCHANGED <<writer, unwritten, status, sent, received, cut, astray>>
  BY DEF Arrive
<1>2. k # l => buffer'[k] = buffer[k] /\ wire'[k] = wire[k]
  BY ArriveEffect
<1>3. PICK read \in Nat, n \in Nat, m \in Nat :
        /\ received[l] = read /\ Len(buffer[l]) = n /\ Len(wire[l]) = m
        /\ m > 0
        /\ Len(buffer'[l]) = n + 1 /\ Len(wire'[l]) = m - 1
  <2>1. received[l] \in Nat /\ Len(buffer[l]) \in Nat /\ Len(wire[l]) \in Nat
    BY LinkTypes DEF Tasks
  <2>2. /\ Len(wire[l]) > 0
        /\ Len(buffer'[l]) = Len(buffer[l]) + 1 /\ Len(wire'[l]) = Len(wire[l]) - 1
    BY ArriveEffect
  <2>. QED  BY <2>1, <2>2
<1>4. InSequence(k)'
  <2>1. CASE k # l
    BY <1>1, <1>2, <2>1 DEF LinkInv, InSequence
  <2>2. CASE k = l /\ l \in astray
    BY <1>1, <2>2 DEF InSequence
  <2>3. CASE k = l /\ l \notin astray
    <3>1. ASSUME NEW i \in 1..Len(buffer'[l])
          PROVE  At(cut[l], buffer'[l][i], 2 * received[l] + i)
      <4>1. CASE i \in 1..Len(buffer[l])
        BY <1>0, <2>3, <4>1, ArriveEffect DEF InSequence
      <4>2. CASE i = n + 1
        <5>1. 1 \in 1..Len(wire[l])
          BY <1>3
        <5>2. At(cut[l], wire[l][1], 2 * received[l] + Len(buffer[l]) + 1)
          BY <1>0, <2>3, <5>1 DEF InSequence
        <5>3. At(cut[l], wire[l][1], 2 * read + i)
          BY <1>3, <4>2, <5>2
        <5>4. buffer'[l][i] = wire[l][1]
          BY <1>3, <4>2, ArriveEffect
        <5>. QED  BY <1>3, <5>3, <5>4
      <4>3. i \in 1..Len(buffer[l]) \/ i = n + 1
        BY <1>3
      <4>. QED  BY <4>1, <4>2, <4>3
    <3>2. ASSUME NEW i \in 1..Len(wire'[l])
          PROVE  At(cut[l], wire'[l][i], 2 * received[l] + Len(buffer'[l]) + i)
      <4>1. i + 1 \in 1..Len(wire[l]) /\ i \in Nat
        BY <1>3
      <4>2. wire'[l][i] = wire[l][i + 1]
        BY ArriveEffect
      <4>3. At(cut[l], wire[l][i + 1], 2 * received[l] + Len(buffer[l]) + (i + 1))
        BY <1>0, <2>3, <4>1 DEF InSequence
      <4>4. At(cut[l], wire[l][i + 1], 2 * read + (n + 1) + i)
        BY <1>3, <4>1, <4>3
      <4>. QED  BY <1>3, <4>2, <4>4
    <3>. QED  BY <1>1, <2>3, <3>1, <3>2 DEF InSequence, At, Place
  <2>. QED  BY <2>1, <2>2, <2>3
<1>5. Taken(k)' = Taken(k)
  <2>1. CASE k # l
    BY <1>1, <1>2, <2>1 DEF Taken
  <2>2. CASE k = l
    <3>1. Taken(l) = 2 * read + n + m
      BY <1>3 DEF Taken
    <3>2. Taken(l)' = 2 * read + (n + 1) + (m - 1)
      BY <1>1, <1>3 DEF Taken
    <3>. QED  BY <2>2, <3>1, <3>2
  <2>. QED  BY <2>1, <2>2
<1>6. AllTaken(k)'
  BY <1>1, <1>5 DEF LinkInv, AllTaken, Full, Torn, Intact
<1>7. CutInv(k)' /\ WriterInv(k)'
  <2>1. l[1] = l[2] => wire[l] = <<>>
    BY DEF LinkInv, WriterInv
  <2>. QED  BY <1>1, <1>2, <2>1 DEF LinkInv, CutInv, WriterInv, Torn, Intact, Arrive
<1>. QED  BY <1>4, <1>6, <1>7

\* A sender that writes is running, and its frame is whole but for the half it writes.
LEMMA SenderExact ==
  ASSUME Tasks, LinkInv, NEW l \in Link, <<l[2], "body">> \in unwritten[l[1]]
  PROVE  /\ status[l[1]] = "running" /\ writer[l] = "open"
         /\ Intact(l) => Taken(l) = Full(l)
         /\ cut[l] > 0 /\ l \notin astray => 2 * cut[l] <= Taken(l) + 1
<1>1. l[1] \in Party /\ status[l[1]] = "running"
  BY LinkEnds, IdleType DEF Tasks, TaskInv
<1>. QED  BY <1>1 DEF LinkInv, AllTaken, WriterInv, Tasks, TypeOK

\* A send writes on one link.
LEMMA WriteLinks ==
  ASSUME Tasks, LinkInv, NEW p \in Party, NEW t \in Party, NEW l \in Link, l = <<p, t>>,
         NEW halves, halves # {}, \A half \in halves : half[1] = t, Written(p, halves),
         \A k \in Link : k # l => /\ wire'[k] = wire[k] /\ buffer'[k] = buffer[k]
                                /\ sent'[k] = sent[k] /\ received'[k] = received[k],
         UNCHANGED <<status, writer, cut, astray>>,
         InSequence(l)', AllTaken(l)', CutInv(l)',
         l[1] = l[2] => wire'[l] = <<>>
  PROVE  LinkInv'
<1>. SUFFICES ASSUME NEW k \in Link
              PROVE  InSequence(k)' /\ AllTaken(k)' /\ CutInv(k)' /\ WriterInv(k)'
  BY DEF LinkInv
<1>1. CASE k = l
  <2>1. WriterInv(l)'
    BY DEF LinkInv, WriterInv
  <2>. QED  BY <1>1, <2>1
<1>2. CASE k # l
  <2>0. /\ wire'[k] = wire[k] /\ buffer'[k] = buffer[k]
        /\ sent'[k] = sent[k] /\ received'[k] = received[k]
    BY <1>2
  <2>1. k[1] \in Party /\ (k[1] # p \/ k[2] # t)
    BY <1>2, LinkEnds
  <2>2. Torn(k)' <=> Torn(k)
    <3>1. CASE k[1] # p
      BY <2>1, <3>1, WrittenTasks DEF Torn
    <3>2. CASE k[1] = p /\ k[2] # t
      <4>1. unwritten'[p] = unwritten[p] \ halves
        BY WrittenTasks
      <4>2. \A part : <<k[2], part>> \notin halves
        BY <3>2
      <4>. QED  BY <3>2, <4>1, <4>2 DEF Torn
    <3>. QED  BY <2>1, <3>1, <3>2
  <2>3. InSequence(k)'
    BY <2>0 DEF LinkInv, InSequence
  <2>4. Taken(k)' = Taken(k)
    BY <2>0 DEF Taken
  <2>5. AllTaken(k)'
    BY <2>0, <2>2, <2>4 DEF LinkInv, AllTaken, Full, Intact
  <2>6. CutInv(k)' /\ WriterInv(k)'
    BY <2>0, <2>2 DEF LinkInv, CutInv, WriterInv, Intact
  <2>. QED  BY <2>3, <2>5, <2>6
<1>. QED  BY <1>1, <1>2

LEMMA SelfLinks ==
  ASSUME Tasks, LinkInv, NEW p \in Party, SendToSelf(p)
  PROVE  LinkInv'
<1>0. <<p, p>> \in Link
  BY DEF Link
<1>. PICK l \in Link : l = <<p, p>> /\ l[1] = p /\ l[2] = p
  BY <1>0
<1>. DEFINE halves == {<<p, "head">>, <<p, "body">>}
<1>1. /\ Written(p, halves) /\ halves \subseteq unwritten[p]
      /\ UNCHANGED <<wire, received, status, writer, cut, astray>>
      /\ \A k \in Link : k # l => sent'[k] = sent[k]
      /\ sent'[l] = sent[l] + 1
  BY DEF SendToSelf, Written, Tasks, TypeOK
<1>2. unwritten'[p] = unwritten[p] \ halves /\ halves # {} /\ \A half \in halves : half[1] = p
  BY <1>1, WrittenTasks
<1>3. /\ wire[l] = <<>> /\ InSequence(l)
      /\ cut[l] = 0 /\ Intact(l) /\ l \notin astray
  BY DEF LinkInv, CutInv, WriterInv, Intact
<1>4. ~Torn(l) /\ ~Torn(l)' /\ Taken(l) = 2 * sent[l]
  <2>1. ~Torn(l)
    BY <1>1 DEF Torn
  <2>2. ~Torn(l)'
    BY <1>2 DEF Torn
  <2>3. <<l[2], "body">> \in unwritten[l[1]]
    BY <1>1
  <2>4. Taken(l) = Full(l)
    BY <1>3, <2>3, SenderExact
  <2>5. Full(l) = 2 * sent[l]
    BY <1>3, <2>1 DEF Full
  <2>. QED  BY <2>1, <2>2, <2>4, <2>5
<1>5. PICK read \in Nat, n \in Nat, m \in Nat :
        /\ received[l] = read /\ Len(buffer[l]) = n /\ sent[l] = m
        /\ Len(wire[l]) = 0
        /\ Len(buffer'[l]) = n + 2
        /\ Place(buffer'[l][n + 1]) = 2 * m + 1
        /\ Place(buffer'[l][n + 2]) = 2 * m + 2
  <2>1. received[l] \in Nat /\ Len(buffer[l]) \in Nat /\ sent[l] \in Nat
    BY LinkTypes DEF Tasks
  <2>2. /\ Len(buffer'[l]) = Len(buffer[l]) + 2
        /\ Place(buffer'[l][Len(buffer[l]) + 1]) = 2 * sent[l] + 1
        /\ Place(buffer'[l][Len(buffer[l]) + 2]) = 2 * sent[l] + 2
    BY SelfEffect
  <2>3. Len(wire[l]) = 0
    BY <1>3
  <2>. QED  BY <2>1, <2>2, <2>3
<1>6. 2 * read + n = 2 * m
  BY <1>4, <1>5 DEF Taken
<1>7. InSequence(l)'
  <2>1. ASSUME NEW i \in 1..Len(buffer'[l])
        PROVE  At(0, buffer'[l][i], 2 * received[l] + i)
    <3>1. i \in 1..Len(buffer[l]) \/ i = n + 1 \/ i = n + 2
      BY <1>5
    <3>2. CASE i \in 1..Len(buffer[l])
      BY <1>3, <3>2, SelfEffect DEF InSequence
    <3>3. CASE i = n + 1
      <4>1. Place(buffer'[l][i]) = 2 * m + 1
        BY <1>5, <3>3
      <4>2. 2 * read + i = 2 * m + 1
        BY <1>6, <3>3
      <4>. QED  BY <1>5, <4>1, <4>2 DEF At
    <3>4. CASE i = n + 2
      <4>1. Place(buffer'[l][i]) = 2 * m + 2
        BY <1>5, <3>4
      <4>2. 2 * read + i = 2 * m + 2
        BY <1>6, <3>4
      <4>. QED  BY <1>5, <4>1, <4>2 DEF At
    <3>. QED  BY <3>1, <3>2, <3>3, <3>4
  <2>2. 1..Len(wire[l]) = {}
    BY <1>5
  <2>. QED  BY <1>1, <1>3, <2>1, <2>2 DEF InSequence, At, Place
<1>8. AllTaken(l)' /\ CutInv(l)'
  <2>1. Taken(l)' = 2 * read + (n + 2) + 0
    BY <1>1, <1>5 DEF Taken
  <2>2. Taken(l)' = 2 * (m + 1) /\ sent'[l] = m + 1 /\ Full(l)' = 2 * (m + 1)
    BY <1>1, <1>3, <1>4, <1>5, <1>6, <2>1 DEF Full
  <2>. QED  BY <1>1, <1>3, <2>2 DEF AllTaken, CutInv, Intact
<1>9. \A k \in Link : k # l => buffer'[k] = buffer[k]
  BY SelfEffect
<1>. HIDE DEF halves
<1>. QED  BY <1>1, <1>2, <1>3, <1>4, <1>7, <1>8, <1>9, WriteLinks

LEMMA HeadLinks ==
  ASSUME Tasks, LinkInv, NEW p \in Party, NEW t \in Party, WriteHead(p, t)
  PROVE  LinkInv'
<1>0. <<p, t>> \in Link
  BY DEF Link
<1>. PICK l \in Link : l = <<p, t>> /\ l[1] = p /\ l[2] = t
  BY <1>0
<1>. DEFINE halves == {<<t, "head">>}
            half == [number |-> sent[l] + 1, part |-> "head"]
<1>1. /\ Written(p, halves) /\ halves \subseteq unwritten[p] /\ p # t
      /\ UNCHANGED <<buffer, received, status, writer, cut, astray>>
      /\ \A k \in Link : k # l => sent'[k] = sent[k]
      /\ sent'[l] = sent[l] + 1
      /\ Writes(l, half)
  BY DEF WriteHead, Written, Writes, Tasks, TypeOK
<1>2. unwritten'[p] = unwritten[p] \ halves /\ halves # {} /\ \A h \in halves : h[1] = t
  BY <1>1, WrittenTasks
<1>3. /\ half \in Half /\ Place(half) = 2 * sent[l] + 1 /\ half.number = sent[l] + 1
      /\ InSequence(l) /\ CutInv(l)
  BY LinkTypes DEF Half, Place, LinkInv, Tasks
<1>4. /\ ~Torn(l) /\ Torn(l)'
      /\ cut[l] = 0 => Taken(l) = 2 * sent[l]
      /\ cut[l] > 0 /\ l \notin astray => 2 * cut[l] <= Taken(l) + 1
  <2>1. <<t, "body">> \in unwritten[p] /\ ~Torn(l)
    BY <1>1 DEF Torn, Tasks, WriteOrder
  <2>2. Torn(l)'
    BY <1>2, <2>1 DEF Torn
  <2>. QED  BY <2>1, <2>2, SenderExact DEF Full, Intact
<1>. HIDE DEF half, halves
<1>5. PICK read \in Nat, n \in Nat, m \in Nat, s \in Nat, c \in Nat :
        /\ cut[l] = c /\ received[l] = read /\ Len(buffer[l]) = n /\ Len(wire[l]) = m /\ sent[l] = s
        /\ Len(wire'[l]) = m + 1 /\ wire'[l][m + 1] = half
  <2>1. Len(wire'[l]) = Len(wire[l]) + 1 /\ wire'[l][Len(wire[l]) + 1] = half
    BY <1>1, <1>3, WriteEffect
  <2>2. /\ received[l] \in Nat /\ sent[l] \in Nat /\ cut[l] \in Nat
        /\ Len(buffer[l]) \in Nat /\ Len(wire[l]) \in Nat
    BY LinkTypes DEF Tasks
  <2>. QED  BY <2>1, <2>2
<1>6. /\ c = 0 => 2 * read + n + m = 2 * s
      /\ c > 0 /\ l \notin astray => 2 * c <= 2 * read + n + m + 1
      /\ c <= s
  BY <1>3, <1>4, <1>5 DEF Taken, CutInv
<1>7. InSequence(l)'
  <2>1. ASSUME l \notin astray, NEW i \in 1..Len(wire'[l])
        PROVE  At(c, wire'[l][i], 2 * received[l] + Len(buffer[l]) + i)
    <3>1. i \in 1..Len(wire[l]) \/ i = m + 1
      BY <1>5
    <3>2. CASE i \in 1..Len(wire[l])
      BY <1>1, <1>3, <1>5, <2>1, <3>2, WriteEffect DEF InSequence
    <3>3. CASE i = m + 1
      <4>1. Place(wire'[l][i]) = 2 * s + 1 /\ wire'[l][i].number = s + 1
        BY <1>3, <1>5, <3>3
      <4>2. /\ c = 0 => 2 * read + n + i = 2 * s + 1
            /\ c > 0 => 2 * read + n + i >= 2 * c
        BY <1>6, <2>1, <3>3
      <4>3. At(c, wire'[l][i], 2 * read + n + i)
        BY <1>6, <4>1, <4>2 DEF At
      <4>. QED  BY <1>5, <4>3
    <3>. QED  BY <3>1, <3>2, <3>3
  <2>. QED  BY <1>1, <1>3, <1>5, <2>1 DEF InSequence, At, Place
<1>8. AllTaken(l)' /\ CutInv(l)'
  <2>1. Taken(l)' = 2 * read + n + (m + 1)
    BY <1>1, <1>5 DEF Taken
  <2>2. sent'[l] = s + 1
    BY <1>1, <1>5
  <2>3. CASE c = 0
    <3>1. Full(l)' = 2 * (s + 1) - 1 /\ Taken(l)' = 2 * (s + 1) - 1 /\ cut'[l] = 0
      BY <1>1, <1>4, <1>5, <1>6, <2>1, <2>2, <2>3 DEF Full
    <3>2. AllTaken(l)'
      BY <2>2, <3>1 DEF AllTaken
    <3>3. CutInv(l)'
      BY <1>1, <1>3, <1>5, <2>2, <2>3, <3>1 DEF CutInv, Intact
    <3>. QED  BY <3>2, <3>3
  <2>4. CASE c > 0
    <3>1. cut'[l] = c /\ ~Intact(l)' /\ c < s + 1
      BY <1>1, <1>5, <1>6, <2>2, <2>4 DEF Intact
    <3>2. AllTaken(l)'
      BY <1>1, <1>6, <2>1, <2>4, <3>1 DEF AllTaken
    <3>3. CutInv(l)'
      BY <1>1, <1>3, <1>5, <2>2, <2>4, <3>1 DEF CutInv
    <3>. QED  BY <3>2, <3>3
  <2>. QED  BY <2>3, <2>4
<1>9. \A k \in Link : k # l => /\ wire'[k] = wire[k] /\ buffer'[k] = buffer[k]
                             /\ sent'[k] = sent[k] /\ received'[k] = received[k]
  <2>1. \A k \in Link : k # l => wire'[k] = wire[k]
    BY <1>1, <1>3, WriteEffect
  <2>. QED  BY <1>1, <2>1
<1>10. /\ l[1] = l[2] => wire'[l] = <<>>
       /\ UNCHANGED <<status, writer, cut, astray>> /\ Written(p, halves)
  BY <1>1
<1>. QED  BY <1>2, <1>7, <1>8, <1>9, <1>10, WriteLinks

LEMMA BodyLinks ==
  ASSUME Tasks, LinkInv, NEW p \in Party, NEW t \in Party, WriteBody(p, t)
  PROVE  LinkInv'
<1>0. <<p, t>> \in Link
  BY DEF Link
<1>. PICK l \in Link : l = <<p, t>> /\ l[1] = p /\ l[2] = t
  BY <1>0
<1>. DEFINE halves == {<<t, "body">>}
            half == [number |-> sent[l], part |-> "body"]
<1>1. /\ Written(p, halves) /\ halves \subseteq unwritten[p] /\ p # t
      /\ <<t, "head">> \notin unwritten[p]
      /\ UNCHANGED <<buffer, received, status, writer, sent, cut, astray>>
      /\ Writes(l, half)
  BY DEF WriteBody, Written, Writes, Tasks, TypeOK
<1>2. unwritten'[p] = unwritten[p] \ halves /\ halves # {} /\ \A h \in halves : h[1] = t
  BY <1>1, WrittenTasks
<1>3. /\ half \in Half /\ Place(half) = 2 * sent[l] /\ half.number = sent[l]
      /\ InSequence(l) /\ CutInv(l)
  BY LinkTypes DEF Half, Place, LinkInv, Tasks
<1>4. /\ Torn(l) /\ ~Torn(l)'
      /\ cut[l] = 0 => Taken(l) = 2 * sent[l] - 1
      /\ cut[l] > 0 /\ l \notin astray => 2 * cut[l] <= Taken(l) + 1
  <2>1. <<t, "body">> \in unwritten[p] /\ Torn(l)
    BY <1>1 DEF Torn
  <2>2. ~Torn(l)'
    BY <1>2 DEF Torn
  <2>. QED  BY <2>1, <2>2, SenderExact DEF Full, Intact
<1>. HIDE DEF half, halves
<1>5. PICK read \in Nat, n \in Nat, m \in Nat, s \in Nat, c \in Nat :
        /\ cut[l] = c /\ received[l] = read /\ Len(buffer[l]) = n /\ Len(wire[l]) = m /\ sent[l] = s
        /\ Len(wire'[l]) = m + 1 /\ wire'[l][m + 1] = half
  <2>1. Len(wire'[l]) = Len(wire[l]) + 1 /\ wire'[l][Len(wire[l]) + 1] = half
    BY <1>1, <1>3, WriteEffect
  <2>2. /\ received[l] \in Nat /\ sent[l] \in Nat /\ cut[l] \in Nat
        /\ Len(buffer[l]) \in Nat /\ Len(wire[l]) \in Nat
    BY LinkTypes DEF Tasks
  <2>. QED  BY <2>1, <2>2
<1>6. /\ c = 0 => 2 * read + n + m = 2 * s - 1
      /\ c > 0 /\ l \notin astray => 2 * c <= 2 * read + n + m + 1
      /\ c > 0 => c < s
  BY <1>3, <1>4, <1>5 DEF Taken, CutInv
<1>7. InSequence(l)'
  <2>1. ASSUME l \notin astray, NEW i \in 1..Len(wire'[l])
        PROVE  At(c, wire'[l][i], 2 * received[l] + Len(buffer[l]) + i)
    <3>1. i \in 1..Len(wire[l]) \/ i = m + 1
      BY <1>5
    <3>2. CASE i \in 1..Len(wire[l])
      BY <1>1, <1>3, <1>5, <2>1, <3>2, WriteEffect DEF InSequence
    <3>3. CASE i = m + 1
      <4>1. Place(wire'[l][i]) = 2 * s /\ wire'[l][i].number = s
        BY <1>3, <1>5, <3>3
      <4>2. /\ c = 0 => 2 * read + n + i = 2 * s
            /\ c > 0 => 2 * read + n + i >= 2 * c
        BY <1>6, <2>1, <3>3
      <4>3. At(c, wire'[l][i], 2 * read + n + i)
        BY <1>6, <4>1, <4>2 DEF At
      <4>. QED  BY <1>5, <4>3
    <3>. QED  BY <3>1, <3>2, <3>3
  <2>. QED  BY <1>1, <1>3, <1>5, <2>1 DEF InSequence, At, Place
<1>8. AllTaken(l)' /\ CutInv(l)'
  <2>1. Taken(l)' = 2 * read + n + (m + 1)
    BY <1>1, <1>5 DEF Taken
  <2>2. sent'[l] = s /\ cut'[l] = c
    BY <1>1, <1>5
  <2>3. CASE c = 0
    <3>1. Full(l)' = 2 * s /\ Taken(l)' = 2 * s
      BY <1>4, <1>6, <2>1, <2>2, <2>3 DEF Full
    <3>2. AllTaken(l)'
      BY <2>2, <2>3, <3>1 DEF AllTaken
    <3>3. CutInv(l)'
      BY <1>1, <1>3, <1>5, <2>2, <2>3 DEF CutInv, Intact
    <3>. QED  BY <3>2, <3>3
  <2>4. CASE c > 0
    <3>1. ~Intact(l)'
      BY <1>6, <2>2, <2>4 DEF Intact
    <3>2. AllTaken(l)'
      BY <1>1, <1>6, <2>1, <2>2, <2>4, <3>1 DEF AllTaken
    <3>3. CutInv(l)'
      BY <1>1, <1>3, <1>4, <1>5, <2>2, <2>4, <3>1 DEF CutInv
    <3>. QED  BY <3>2, <3>3
  <2>. QED  BY <2>3, <2>4
<1>9. \A k \in Link : k # l => wire'[k] = wire[k]
  BY <1>1, <1>3, WriteEffect
<1>. QED  BY <1>1, <1>2, <1>4, <1>7, <1>8, <1>9, WriteLinks

LEMMA CloseLinks ==
  ASSUME Tasks, LinkInv, NEW p \in Party, Close(p)
  PROVE  LinkInv'
<1>. SUFFICES ASSUME NEW l \in Link
              PROVE  InSequence(l)' /\ AllTaken(l)' /\ CutInv(l)' /\ WriterInv(l)'
  BY DEF LinkInv
<1>1. /\ UNCHANGED <<wire, buffer, sent, received, cut, astray, unwritten>>
      /\ status' = [status EXCEPT ![p] = "closed"]
      /\ status[p] = "running"
      /\ l[1] \in Party
  BY LinkEnds DEF Close
<1>2. PICK shut \in SUBSET (Party \ {p}) :
        writer' = [k \in Link |-> IF k[1] = p /\ k[2] \in shut THEN "closed" ELSE writer[k]]
  BY DEF Close
<1>3. /\ status'[p] = "closed"
      /\ l[1] # p => status'[l[1]] = status[l[1]]
  BY <1>1 DEF Tasks, TypeOK
<1>4. writer'[l] # writer[l] => l[1] = p /\ l[2] # p /\ writer'[l] = "closed"
  BY <1>2
<1>5. InSequence(l)'
  BY <1>1 DEF LinkInv, InSequence
<1>6. AllTaken(l)'
  <2>1. Taken(l)' = Taken(l) /\ (Torn(l)' <=> Torn(l)) /\ sent'[l] = sent[l]
    BY <1>1 DEF Taken, Torn
  <2>2. l[1] = p => writer[l] = "open"
    BY <1>1 DEF LinkInv, WriterInv, Tasks, TypeOK
  <2>. QED  BY <1>1, <1>3, <1>4, <2>1, <2>2 DEF LinkInv, AllTaken, Full, Intact
<1>7. CutInv(l)' /\ WriterInv(l)'
  BY <1>1, <1>3, <1>4 DEF LinkInv, CutInv, WriterInv, Torn, Intact
<1>. QED  BY <1>5, <1>6, <1>7

LEMMA DropLinks ==
  ASSUME Tasks, LinkInv, NEW p \in Party, Drop(p)
  PROVE  LinkInv'
<1>. SUFFICES ASSUME NEW l \in Link
              PROVE  InSequence(l)' /\ AllTaken(l)' /\ CutInv(l)' /\ WriterInv(l)'
  BY DEF LinkInv
<1>1. /\ UNCHANGED <<buffer, sent, received, cut, astray>>
      /\ status' = [status EXCEPT ![p] = "gone"]
      /\ unwritten' = [unwritten EXCEPT ![p] = {}]
      /\ l[1] \in Party
  BY LinkEnds DEF Drop
<1>2. PICK reset \in SUBSET (Party \ {p}) :
        /\ wire' = [k \in Link |-> IF k[1] = p /\ k[2] \in reset THEN <<>> ELSE wire[k]]
        /\ writer' = [k \in Link |->
             IF k[1] = p /\ p # k[2] /\ (k[2] \in reset \/ writer[k] = "open") THEN "lost"
             ELSE writer[k]]
  BY DEF Drop
<1>3. /\ status'[p] = "gone"
      /\ l[1] # p => status'[l[1]] = status[l[1]] /\ unwritten'[l[1]] = unwritten[l[1]]
  BY <1>1 DEF Tasks, TypeOK
<1>4. /\ writer'[l] # writer[l] => l[1] = p /\ l[2] # p
      /\ wire'[l] # wire[l] => l[1] = p /\ l[2] # p /\ wire'[l] = <<>> /\ writer'[l] = "lost"
      /\ writer'[l] # "lost" => writer[l] # "lost"
  BY <1>2
<1>5. InSequence(l)'
  <2>1. CASE wire'[l] = wire[l]
    BY <1>1, <2>1 DEF LinkInv, InSequence
  <2>2. CASE wire'[l] = <<>>
    <3>1. 1..Len(wire'[l]) = {}
      BY <2>2
    <3>. QED  BY <1>1, <3>1 DEF LinkInv, InSequence
  <2>. QED  BY <1>4, <2>1, <2>2
<1>6. AllTaken(l)'
  <2>1. PICK n \in Nat, m \in Nat :
          Len(wire[l]) = n /\ Taken(l) = m + n /\ m = 2 * received[l] + Len(buffer[l])
    <3>1. received[l] \in Nat /\ Len(buffer[l]) \in Nat /\ Len(wire[l]) \in Nat
      BY LinkTypes DEF Tasks
    <3>2. 2 * received[l] + Len(buffer[l]) \in Nat
      BY <3>1
    <3>. QED  BY <3>1, <3>2 DEF Taken
  <2>2. wire'[l] = wire[l] => Taken(l)' = Taken(l)
    BY <1>1 DEF Taken
  <2>3. wire'[l] = <<>> => Taken(l)' = m + 0
    BY <1>1, <2>1 DEF Taken
  <2>4. sent'[l] \in Nat /\ sent'[l] = sent[l]
    BY <1>1, LinkTypes DEF Tasks
  <2>5. /\ Torn(l)' => Torn(l)
        /\ l[1] # p => (Torn(l)' <=> Torn(l))
        /\ (Intact(l)' <=> Intact(l)) /\ cut'[l] = cut[l]
    BY <1>1, <1>3 DEF Torn, Intact
  <2>6. Full(l) <= Full(l)'
    BY <2>4, <2>5, LinkTypes DEF Full, Tasks
  <2>7. ASSUME Intact(l)'
        PROVE  Taken(l)' <= Full(l)'
    <3>1. Taken(l) <= Full(l)
      BY <2>7, <2>5 DEF LinkInv, AllTaken
    <3>2. PICK f \in Int, g \in Int : Full(l) = f /\ Full(l)' = g
      BY <2>4 DEF Full
    <3>3. CASE wire'[l] = wire[l]
      BY <2>1, <2>2, <2>6, <3>1, <3>3, <3>2
    <3>4. CASE wire'[l] = <<>>
      BY <2>1, <2>3, <2>6, <3>1, <3>4, <3>2
    <3>. QED  BY <1>4, <3>3, <3>4
  <2>8. ASSUME status'[l[1]] = "running"
        PROVE  /\ Intact(l)' => Taken(l)' = Full(l)'
               /\ cut'[l] > 0 /\ l \notin astray' => 2 * cut'[l] <= Taken(l)' + 1
    <3>1. l[1] # p /\ wire'[l] = wire[l] /\ status[l[1]] = "running"
      BY <1>3, <1>4, <2>8
    <3>2. Full(l)' = Full(l)
      BY <2>4, <2>5, <3>1 DEF Full
    <3>. QED  BY <1>1, <2>2, <2>5, <3>1, <3>2 DEF LinkInv, AllTaken
  <2>9. ASSUME Intact(l)', writer'[l] # "lost"
        PROVE  2 * sent'[l] <= Taken(l)' + 1
    <3>1. writer[l] # "lost" /\ wire'[l] = wire[l]
      BY <1>4, <2>9
    <3>. QED  BY <2>2, <2>4, <2>9, <2>5, <3>1 DEF LinkInv, AllTaken
  <2>. QED  BY <2>7, <2>8, <2>9 DEF AllTaken
<1>7. CutInv(l)' /\ WriterInv(l)'
  <2>1. (Torn(l)' => Torn(l)) /\ (Intact(l)' <=> Intact(l))
    BY <1>1, <1>3 DEF Torn, Intact
  <2>. QED  BY <1>1, <1>3, <1>4, <2>1 DEF LinkInv, CutInv, WriterInv
<1>. QED  BY <1>5, <1>6, <1>7

\* A poll decodes a frame, or leaves the links alone.
LEMMA PollEffect ==
  ASSUME Tasks, NEW p \in Party, PollStep(p)
  PROVE  /\ ReceiveFrame
         /\ UNCHANGED astray
         /\ \/ \E q \in Party : Decode(<<q, p>>) /\ reported'[p] = Result("Packet", q)
            \/ UNCHANGED <<buffer, received>>
<1>1. CASE PollFrom(p)
  <2>1. op[p].from \subseteq Party
    BY DEF Tasks, TypeOK, Operation
  <2>. QED  BY <1>1, <2>1 DEF PollFrom, Returns, Tasks, TypeOK
<1>2. CASE PollAny(p)
  <2>1. PICK q \in Answers(p) :
          \/ Decode(<<q, p>>) /\ Returns(p, Result("Packet", q))
          \/ UNCHANGED <<buffer, received>>
    BY <1>2 DEF PollAny
  <2>2. q \in Party
    BY DEF Answers, Tasks, TypeOK
  <2>3. Returns(p, Result("Packet", q)) => reported'[p] = Result("Packet", q)
    BY DEF Returns, Tasks, TypeOK
  <2>. QED  BY <1>2, <2>1, <2>2, <2>3 DEF PollAny
<1>3. CASE PruneEnded(p)
  BY <1>3 DEF PruneEnded
<1>4. CASE TimedOut(p)
  BY <1>4 DEF TimedOut, KeepPartial
<1>. QED  BY <1>1, <1>2, <1>3, <1>4 DEF PollStep

LEMMA LinksStep ==
  ASSUME Tasks, LinkInv, [Next]_vars
  PROVE  LinkInv'
<1>1. CASE UNCHANGED vars
  BY <1>1, QuietLinks DEF vars, Torn
<1>2. ASSUME NEW p \in Party, ProtocolStep(p)
      PROVE  LinkInv'
  <2>1. ASSUME NEW targets \in Targets, StartSend(p, targets)
        PROVE  LinkInv'
    <3>1. unwritten[p] = {}
      BY <2>1, IdleType DEF StartSend, Tasks, TaskInv
    <3>2. /\ UNCHANGED <<wire, buffer, received, sent, cut, astray, writer, status>>
          /\ unwritten'[p] = targets \X {"head", "body"}
          /\ \A r \in Party : r # p => unwritten'[r] = unwritten[r]
      BY <2>1 DEF StartSend, Tasks, TypeOK
    <3>3. \A l \in Link : Torn(l)' <=> Torn(l)
      BY <3>1, <3>2, LinkEnds DEF Torn
    <3>. QED  BY <3>2, <3>3, QuietLinks
  <2>2. CASE \/ \E q \in Party, timed \in BOOLEAN : StartRecvFrom(p, q, timed)
             \/ \E q \in Party : PeerUnknown(p, q)
             \/ \E timed \in BOOLEAN : StartRecvAny(p, timed)
    <3>1. UNCHANGED <<wire, buffer, received, sent, cut, astray, writer, status, unwritten>>
      BY <2>2 DEF StartRecvFrom, PeerUnknown, StartRecvAny, StartsReceive
    <3>. QED  BY <3>1, QuietLinks DEF Torn
  <2>. QED  BY <1>2, <2>1, <2>2, CloseLinks, DropLinks DEF ProtocolStep
<1>3. ASSUME NEW p \in Party, SendStep(p)
      PROVE  LinkInv'
  BY <1>3, FailLinks, SelfLinks, HeadLinks, BodyLinks DEF SendStep
<1>4. ASSUME NEW p \in Party, PollStep(p)
      PROVE  LinkInv'
  <2>1. ASSUME NEW q \in Party, Decode(<<q, p>>)
        PROVE  LinkInv'
    <3>1. <<q, p>> \in Link
      BY DEF Link
    <3>. QED  BY <1>4, <2>1, <3>1, PollEffect, DecodeLinks
  <2>2. CASE UNCHANGED <<buffer, received>>
    BY <1>4, <2>2, PollEffect, QuietLinks DEF ReceiveFrame, Torn
  <2>. QED  BY <1>4, <2>1, <2>2, PollEffect
<1>5. ASSUME NEW p \in Party, MisreadStep(p)
      PROVE  LinkInv'
  BY <1>5, MisreadEffect, MisreadLinks
<1>. QED  BY <1>1, <1>2, <1>3, <1>4, <1>5, ArriveLinks DEF Next

-----------------------------------------------------------------------------
(***************************************************************************)
(* The end of a peer.                                                      *)
(***************************************************************************)
\* Everything that was sent has been received, and no more will be sent.
Exhausted(l) == Intact(l) /\ writer[l] # "open" /\ received[l] = sent[l]

\* What is sent behind a cut stays behind it.
LEMMA IntactBefore ==
  ASSUME Tasks, LinkInv, [Next]_vars, NEW l \in Link, Intact(l)'
  PROVE  Intact(l)
<1>. SUFFICES ASSUME cut[l] # 0
              PROVE  sent[l] = cut[l]
  BY DEF Intact
<1>1. sent[l] \in Nat /\ cut[l] \in Nat /\ cut[l] <= sent[l]
  BY LinkTypes DEF Tasks, LinkInv, CutInv
<1>2. cut'[l] = cut[l] /\ (sent'[l] = sent[l] \/ sent'[l] = sent[l] + 1)
  <2>1. CASE UNCHANGED <<cut, sent>>
    BY <2>1
  <2>2. ASSUME NEW p \in Party, SendStep(p)
        PROVE  cut'[l] = cut[l] /\ (sent'[l] = sent[l] \/ sent'[l] = sent[l] + 1)
    <3>1. UNCHANGED cut \/ SendFails(p)
      BY <2>2 DEF SendStep, SendToSelf, WriteHead, WriteBody
    <3>2. UNCHANGED sent \/ \E k \in Link : sent' = [sent EXCEPT ![k] = @ + 1]
      BY <2>2 DEF SendStep, SendToSelf, SendFails, WriteHead, WriteBody, Link
    <3>3. cut'[l] = cut[l]
      BY <3>1 DEF SendFails
    <3>. QED  BY <3>2, <3>3 DEF Tasks, TypeOK
  <2>3. ASSUME NEW p \in Party, ProtocolStep(p) \/ PollStep(p) \/ MisreadStep(p)
        PROVE  UNCHANGED <<cut, sent>>
    BY <2>3, PollEffect, MisreadEffect
       DEF ProtocolStep, StartSend, StartRecvFrom, PeerUnknown, StartRecvAny, StartsReceive,
           Close, Drop, ReceiveFrame
  <2>. QED  BY <2>1, <2>2, <2>3 DEF Next, Arrive, vars
<1>. QED  BY <1>1, <1>2 DEF Intact

\* A stream that ends without an error is exhausted: half a frame would be an error.
LEMMA EndedExhausted ==
  ASSUME Tasks, LinkInv, NEW l \in Link, Ended(l), l \notin failed, Intact(l)
  PROVE  Exhausted(l)
<1>1. /\ wire[l] = <<>> /\ buffer[l] = <<>>
      /\ writer[l] # "open" /\ writer[l] # "lost"
  BY DEF Ended, AtEnd, EndIsError
<1>2. PICK n \in Nat, m \in Nat : received[l] = n /\ sent[l] = m
  BY LinkTypes DEF Tasks
<1>3. Taken(l) = 2 * n + 0 + 0
  BY <1>1, <1>2 DEF Taken
<1>4. Taken(l) <= Full(l) /\ 2 * m <= Taken(l) + 1
  BY <1>1, <1>2 DEF LinkInv, AllTaken
<1>5. Full(l) = 2 * m \/ Full(l) = 2 * m - 1
  BY <1>2 DEF Full
<1>6. n = m
  BY <1>3, <1>4, <1>5
<1>. QED  BY <1>1, <1>2, <1>6 DEF Exhausted

LEMMA ExhaustedKept ==
  ASSUME Tasks, LinkInv, [Next]_vars, NEW l \in Link, Exhausted(l)
  PROVE  Exhausted(l)'
<1>1. /\ l[1] \in Party /\ l[2] \in Party /\ l = <<l[1], l[2]>>
      /\ unwritten[l[1]] = {} /\ status[l[1]] \in {"closed", "gone"}
  BY LinkEnds, IdleType DEF Exhausted, LinkInv, WriterInv, Tasks, TaskInv
<1>2. ~FrameReady(l) /\ ~Misread(l)
  <2>1. PICK n \in Nat, b \in Nat, w \in Nat :
          received[l] = n /\ sent[l] = n /\ Len(buffer[l]) = b /\ Len(wire[l]) = w
    BY LinkTypes DEF Exhausted, Tasks
  <2>2. 2 * n + b + w <= Full(l) /\ l \notin astray
    BY <2>1 DEF LinkInv, AllTaken, CutInv, Taken, Exhausted
  <2>3. Full(l) = 2 * n \/ Full(l) = 2 * n - 1
    BY <2>1 DEF Full
  <2>4. ~(Len(buffer[l]) >= 2)
    BY <2>1, <2>2, <2>3
  <2>. QED  BY <2>2, <2>4 DEF FrameReady, Whole, Misread, Tangled
<1>3. CASE UNCHANGED vars
  BY <1>3 DEF vars, Exhausted, Intact
<1>4. ASSUME NEW p \in Party, ProtocolStep(p)
      PROVE  Exhausted(l)'
  <2>1. UNCHANGED <<received, sent, cut>>
    BY <1>4 DEF ProtocolStep, StartSend, StartRecvFrom, PeerUnknown, StartRecvAny, StartsReceive,
                Close, Drop
  <2>2. writer'[l] # "open"
    <3>1. CASE UNCHANGED writer
      BY <3>1 DEF Exhausted
    <3>2. CASE Close(p)
      BY <3>2 DEF Close, Exhausted
    <3>3. CASE Drop(p)
      BY <3>3 DEF Drop, Exhausted
    <3>. QED  BY <1>4, <3>1, <3>2, <3>3
              DEF ProtocolStep, StartSend, StartRecvFrom, PeerUnknown, StartRecvAny, StartsReceive
  <2>. QED  BY <2>1, <2>2 DEF Exhausted, Intact
<1>5. ASSUME NEW p \in Party, SendStep(p)
      PROVE  Exhausted(l)'
  <2>1. UNCHANGED <<received, writer>>
    BY <1>5 DEF SendStep, SendToSelf, SendFails, WriteHead, WriteBody
  <2>2. sent'[l] = sent[l] /\ cut'[l] = cut[l]
    <3>1. CASE SendToSelf(p)
      <4>1. l # <<p, p>>
        BY <1>1, <3>1 DEF SendToSelf, Written
      <4>. QED  BY <3>1, <4>1 DEF SendToSelf, Tasks, TypeOK
    <3>2. ASSUME NEW t \in Party, WriteHead(p, t)
          PROVE  sent'[l] = sent[l] /\ cut'[l] = cut[l]
      <4>1. l # <<p, t>>
        BY <1>1, <3>2 DEF WriteHead, Written
      <4>. QED  BY <3>2, <4>1 DEF WriteHead, Tasks, TypeOK
    <3>3. CASE SendFails(p)
      BY <1>1, <3>3 DEF SendFails, Torn
    <3>. QED  BY <1>5, <3>1, <3>2, <3>3 DEF SendStep, WriteBody
  <2>. QED  BY <2>1, <2>2 DEF Exhausted, Intact
<1>6. ASSUME NEW p \in Party, PollStep(p) \/ MisreadStep(p)
      PROVE  Exhausted(l)'
  <2>1. UNCHANGED <<writer, sent, cut>>
    BY <1>6, PollEffect, MisreadEffect DEF ReceiveFrame
  <2>2. received'[l] = received[l]
    <3>1. ASSUME NEW q \in Party, Decode(<<q, p>>) \/ Misread(<<q, p>>)
          PROVE  received'[l] = received[l]
      <4>1. l # <<q, p>>
        BY <1>2, <3>1 DEF Decode
      <4>. QED  BY <3>1, <4>1 DEF Decode, Misread, Tasks, TypeOK
    <3>. QED  BY <1>6, <3>1, PollEffect, MisreadEffect
  <2>. QED  BY <2>1, <2>2 DEF Exhausted, Intact
<1>7. ASSUME NEW k \in Link, Arrive(k)
      PROVE  Exhausted(l)'
  BY <1>7 DEF Arrive, Exhausted, Intact
<1>. QED  BY <1>3, <1>4, <1>5, <1>6, <1>7 DEF Next

\* A peer's end is reported, and the peer forgotten, when its stream has ended.
LEMMA EndEffect ==
  ASSUME Tasks, [Next]_vars, NEW p \in Party, NEW q \in Party
  PROVE  /\ failed \subseteq failed'
         /\ reported'[p] = Result("ConnectionClosed", q) =>
              reported[p] = Result("ConnectionClosed", q) \/ Ended(<<q, p>>)
         /\ status'[p] = "running" /\ q \notin receivers'[p] =>
              status[p] = "running" /\ (q \notin receivers[p] \/ Ended(<<q, p>>))
<1>. DEFINE Told == reported[p] = Result("ConnectionClosed", q)
            Goal == /\ failed \subseteq failed'
                    /\ Told' => Told \/ Ended(<<q, p>>)
                    /\ status'[p] = "running" /\ q \notin receivers'[p] =>
                         status[p] = "running" /\ (q \notin receivers[p] \/ Ended(<<q, p>>))
<1>0. /\ NoParty # q
      /\ \A what, from : Result(what, from) = Result("ConnectionClosed", q) =>
                          what = "ConnectionClosed" /\ from = q
  BY StreamsAssumption DEF Result
<1>1. CASE UNCHANGED <<failed, reported, status, receivers>>
  BY <1>1
<1>2. ASSUME NEW r \in Party, ProtocolStep(r)
      PROVE  Goal
  <2>1. failed' = failed
    BY <1>2 DEF ProtocolStep, StartSend, StartRecvFrom, PeerUnknown, StartRecvAny, StartsReceive,
                Close, Drop
  <2>2. Told' => Told
    <3>1. PICK what \in {"Nothing", "PartyNotFound"} : \E from :
            reported' = reported \/ reported' = [reported EXCEPT ![r] = Result(what, from)]
      BY <1>2 DEF ProtocolStep, StartSend, StartRecvFrom, PeerUnknown, StartRecvAny, StartsReceive,
                  Close, Drop
    <3>. QED  BY <1>0, <3>1 DEF Tasks, TypeOK
  <2>3. status'[p] = "running" => UNCHANGED <<status[p], receivers[p]>>
    BY <1>2 DEF ProtocolStep, StartSend, StartRecvFrom, PeerUnknown, StartRecvAny, StartsReceive,
                Close, Drop, Tasks, TypeOK
  <2>. QED  BY <2>1, <2>2, <2>3
<1>3. ASSUME NEW r \in Party, SendStep(r)
      PROVE  Goal
  <2>1. UNCHANGED <<failed, reported, receivers>>
    BY <1>3 DEF SendStep, SendToSelf, SendFails, WriteHead, WriteBody
  <2>2. status'[p] = "running" => status[p] = "running"
    BY <1>3 DEF SendStep, SendToSelf, SendFails, WriteHead, WriteBody, Tasks, TypeOK
  <2>. QED  BY <2>1, <2>2
<1>4. ASSUME NEW r \in Party, PollStep(r)
      PROVE  Goal
  <2>1. UNCHANGED status
    BY <1>4, PollEffect DEF ReceiveFrame
  <2>2. failed \subseteq failed'
    BY <1>4 DEF PollStep, PollFrom, PollAny, PruneEnded, TimedOut
  <2>3. Told' => Told \/ Ended(<<q, p>>)
    <3>1. \A result : Returns(r, result) =>
            (r # p => reported'[p] = reported[p]) /\ (r = p => reported'[p] = result)
      BY DEF Returns, Tasks, TypeOK
    <3>2. CASE PollFrom(r)
      <4>1. PICK from :
              \/ Returns(r, Result("Packet", from))
              \/ Returns(r, Result("IoError", from))
              \/ Ended(<<from, r>>) /\ Returns(r, Result("ConnectionClosed", from))
        BY <3>2 DEF PollFrom
      <4>. QED  BY <1>0, <3>1, <4>1
    <3>3. CASE PollAny(r)
      <4>1. PICK from :
              \/ Returns(r, Result("Packet", from))
              \/ Returns(r, Result("IoError", from))
        BY <3>3 DEF PollAny
      <4>. QED  BY <1>0, <3>1, <4>1
    <3>4. CASE PruneEnded(r)
      BY <1>0, <3>1, <3>4 DEF PruneEnded
    <3>5. CASE TimedOut(r)
      BY <1>0, <3>1, <3>5 DEF TimedOut
    <3>. QED  BY <1>4, <3>2, <3>3, <3>4, <3>5 DEF PollStep
  <2>4. q \notin receivers'[p] => q \notin receivers[p] \/ Ended(<<q, p>>)
    <3>1. CASE UNCHANGED receivers
      BY <3>1
    <3>2. CASE PollAny(r)
      <4>1. PICK passed \in SUBSET EndedPeers(r) :
              receivers' = [receivers EXCEPT ![r] = @ \ passed]
        BY <3>2 DEF PollAny
      <4>. QED  BY <4>1 DEF EndedPeers, Tasks, TypeOK
    <3>3. CASE PruneEnded(r)
      BY <3>3 DEF PruneEnded, EndedPeers, Tasks, TypeOK
    <3>. QED  BY <1>4, <3>1, <3>2, <3>3 DEF PollStep, PollFrom, TimedOut
  <2>. QED  BY <2>1, <2>2, <2>3, <2>4
<1>5. ASSUME NEW r \in Party, MisreadStep(r)
      PROVE  Goal
  <2>1. /\ UNCHANGED status /\ failed \subseteq failed'
        /\ q \notin receivers'[p] => q \notin receivers[p] \/ Ended(<<q, p>>)
    BY <1>5, MisreadEffect DEF ReceiveFrame
  <2>2. PICK what \in {"Packet", "IoError"} : \E from : Returns(r, Result(what, from))
    BY <1>5, MisreadEffect
  <2>3. PICK from : Returns(r, Result(what, from))
    BY <2>2
  <2>4. Told' => Told
    BY <1>0, <2>3 DEF Returns, Tasks, TypeOK
  <2>. QED  BY <2>1, <2>4
<1>6. ASSUME NEW l \in Link, Arrive(l)
      PROVE  Goal
  BY <1>1, <1>6 DEF Arrive
<1>. QED  BY <1>1, <1>2, <1>3, <1>4, <1>5, <1>6 DEF Next, vars

LEMMA EndsStep ==
  ASSUME Tasks, LinkInv, ClosedInv, ForgottenAfterAll, [Next]_vars
  PROVE  ClosedInv' /\ ForgottenAfterAll'
<1>. SUFFICES ASSUME NEW p \in Party, NEW q \in Party,
                     <<q, p>> \notin failed', Intact(<<q, p>>)',
                     \/ reported'[p] = Result("ConnectionClosed", q)
                     \/ status'[p] = "running" /\ q \notin receivers'[p]
              PROVE  Exhausted(<<q, p>>)'
  BY DEF ClosedInv, ForgottenAfterAll, Exhausted
<1>1. <<q, p>> \in Link
  BY DEF Link
<1>2. Intact(<<q, p>>) /\ <<q, p>> \notin failed
  BY <1>1, IntactBefore, EndEffect
<1>3. \/ reported[p] = Result("ConnectionClosed", q)
      \/ status[p] = "running" /\ q \notin receivers[p]
      \/ Ended(<<q, p>>)
  BY EndEffect
<1>4. Exhausted(<<q, p>>)
  BY <1>1, <1>2, <1>3, EndedExhausted DEF ClosedInv, ForgottenAfterAll, Exhausted
<1>. QED  BY <1>1, <1>4, ExhaustedKept

-----------------------------------------------------------------------------
(***************************************************************************)
(* The safety theorems.                                                    *)
(***************************************************************************)
LEMMA StreamInit == Init => StreamInv
<1>1. ASSUME Init
      PROVE  ClosedInv /\ ForgottenAfterAll
  BY <1>1 DEF Init, ClosedInv, ForgottenAfterAll, Result
<1>. QED  BY <1>1, TasksInit, LinksInit DEF StreamInv

LEMMA StreamStep == StreamInv /\ [Next]_vars => StreamInv'
BY TasksStep, LinksStep, EndsStep DEF StreamInv

LEMMA StreamInvariant == Spec => []StreamInv
BY StreamInit, StreamStep, PTL DEF Spec

\* Type correctness: the streams, the operations under way and the reports keep their
\* types through sends, receives, timeouts, failures and the end of parties.
THEOREM StreamTypes == Spec => []TypeOK
<1>1. StreamInv => TypeOK
  BY DEF StreamInv, Tasks
<1>. QED  BY <1>1, StreamInvariant, PTL

\* ConnectionClosed is reported only when everything that the peer ever began to send
\* has been received, its stream had failed, or it went on behind a frame that a failed
\* send had cut off (recv_from, tcp.rs:333-343).
THEOREM ClosedMeansAll == Spec => []ClosedAfterAll
<1>1. StreamInv => ClosedAfterAll
  BY DEF StreamInv, ClosedInv, ClosedAfterAll
<1>. QED  BY <1>1, StreamInvariant, PTL

\* The StreamMap forgets only a peer that has ended and been read to the end, with the
\* same two exceptions (recv_any, tcp.rs:256-261).
THEOREM ForgottenMeansAll == Spec => []ForgottenAfterAll
<1>1. StreamInv => ForgottenAfterAll
  BY DEF StreamInv
<1>. QED  BY <1>1, StreamInvariant, PTL

\* A receive returns what was never sent only behind a frame that a failed send cut off
\* and that its sender wrote on behind (send_many, tcp.rs:303-313, and the codec of
\* split_socket, tcp.rs:128-138).
THEOREM GarbageBehindCut == Spec => []GarbageOnlyBehindCut
<1>1. StreamInv => GarbageOnlyBehindCut
  BY DEF StreamInv, Tasks, TypeOK, LinkInv, CutInv, GarbageOnlyBehindCut
<1>. QED  BY <1>1, StreamInvariant, PTL

-----------------------------------------------------------------------------
(***************************************************************************)
(* The links are FIFO links up to the first cut: a frame has arrived when  *)
(* both its halves have, and none behind a cut is counted.                 *)
(***************************************************************************)
LEMMA WholeFrames ==
  ASSUME NEW n \in Nat
  PROVE  /\ n \div 2 \in Nat
         /\ 2 * (n \div 2) <= n /\ n <= 2 * (n \div 2) + 1
         /\ (n + 2) \div 2 = (n \div 2) + 1
         /\ \/ (n + 1) \div 2 = n \div 2
            \/ (n + 1) \div 2 = (n \div 2) + 1 /\ n = 2 * (n \div 2) + 1
OBVIOUS

\* What one step leaves alone on a link.
SameLink(l) ==
  /\ cut'[l] = cut[l] /\ (l \in astray' <=> l \in astray)
  /\ received'[l] = received[l] /\ buffer'[l] = buffer[l]

LEMMA OneLink ==
  ASSUME NEW l \in Link,
         \A k \in Link : k # l => SameLink(k) /\ sent'[k] = sent[k]
  PROVE  /\ Begun' = [Begun EXCEPT ![l] = Begun'[l]]
         /\ Arrived' = [Arrived EXCEPT ![l] = Arrived'[l]]
         /\ Returned' = [Returned EXCEPT ![l] = Returned'[l]]
<1>1. \A k \in Link : k # l => /\ Begun'[k] = Begun[k] /\ Arrived'[k] = Arrived[k]
                             /\ Returned'[k] = Returned[k]
  BY DEF SameLink, Begun, Arrived, Returned, Counted
<1>2. Begun' = [Begun EXCEPT ![l] = Begun'[l]]
  BY <1>1 DEF Begun
<1>3. Arrived' = [Arrived EXCEPT ![l] = Arrived'[l]]
  BY <1>1 DEF Arrived
<1>4. Returned' = [Returned EXCEPT ![l] = Returned'[l]]
  BY <1>1 DEF Returned
<1>. QED  BY <1>2, <1>3, <1>4

LEMMA RefineInit == Init => Links!Init
<1>1. Len(<<>>) = 0 /\ 0 + (0 \div 2) = 0
  OBVIOUS
<1>. QED  BY <1>1 DEF Init, Links!Init, Begun, Arrived, Returned, Counted

LEMMA RefineHead ==
  ASSUME Tasks, NEW p \in Party, NEW t \in Party, WriteHead(p, t)
  PROVE  Links!Next \/ UNCHANGED Links!vars
<1>. PICK l \in Link : l = <<p, t>>
  BY DEF Link
<1>1. /\ sent'[l] = sent[l] + 1
      /\ \A k \in Link : k # l => sent'[k] = sent[k]
      /\ UNCHANGED <<received, buffer, astray, cut>>
  BY DEF WriteHead, Tasks, TypeOK
<1>2. Arrived' = Arrived /\ Returned' = Returned
  BY <1>1 DEF Arrived, Returned, Counted
<1>3. Begun' = [Begun EXCEPT ![l] = Begun'[l]]
  BY <1>1, OneLink DEF SameLink
<1>4. CASE cut[l] = 0
  <2>1. Begun'[l] = Begun[l] + 1
    BY <1>1, <1>4 DEF Begun
  <2>. QED  BY <1>2, <1>3, <2>1 DEF Links!Next, Links!Send
<1>5. CASE cut[l] # 0
  <2>1. Begun' = Begun
    BY <1>1, <1>5 DEF Begun
  <2>. QED  BY <1>2, <2>1 DEF Links!vars
<1>. QED  BY <1>4, <1>5

LEMMA RefineSelf ==
  ASSUME Tasks, LinkInv, NEW p \in Party, SendToSelf(p)
  PROVE  Links!Next
<1>0. <<p, p>> \in Link
  BY DEF Link
<1>. PICK l \in Link : l = <<p, p>> /\ l[1] = p /\ l[2] = p
  BY <1>0
<1>1. /\ sent'[l] = sent[l] + 1
      /\ UNCHANGED <<received, astray, cut>>
      /\ \A k \in Link : k # l => sent'[k] = sent[k] /\ buffer'[k] = buffer[k]
  BY DEF SendToSelf, Tasks, TypeOK
<1>2. cut[l] = 0 /\ l \notin astray /\ Intact(l) /\ wire[l] = <<>>
  BY DEF LinkInv, CutInv, WriterInv, Intact
<1>3. PICK r \in Nat, n \in Nat, s \in Nat :
        /\ received[l] = r /\ Len(buffer[l]) = n /\ sent[l] = s
        /\ Len(buffer'[l]) = n + 2
  BY LinkTypes, SelfEffect DEF Tasks
<1>4. 2 * r + n = 2 * s
  <2>1. <<l[2], "body">> \in unwritten[l[1]] /\ ~Torn(l)
    BY DEF SendToSelf, Written, Torn
  <2>2. Taken(l) = Full(l)
    BY <1>2, <2>1, SenderExact
  <2>3. Full(l) = 2 * s
    BY <1>2, <1>3, <2>1 DEF Full
  <2>4. Taken(l) = 2 * r + n + 0
    BY <1>2, <1>3 DEF Taken
  <2>. QED  BY <1>3, <2>2, <2>3, <2>4
<1>5. Begun[l] = s /\ Begun'[l] = s + 1
  BY <1>1, <1>2, <1>3 DEF Begun
<1>6. Arrived[l] = s /\ Arrived'[l] = s + 1
  <2>1. r + (n \div 2) = s /\ r + ((n + 2) \div 2) = s + 1
    BY <1>4, WholeFrames
  <2>. QED  BY <1>1, <1>2, <1>3, <2>1 DEF Arrived, Counted
<1>7. Returned' = Returned
  BY <1>1 DEF Returned, Counted
<1>8. /\ Begun' = [Begun EXCEPT ![l] = Begun'[l]]
      /\ Arrived' = [Arrived EXCEPT ![l] = Arrived'[l]]
  BY <1>1, OneLink DEF SameLink
<1>. QED  BY <1>5, <1>6, <1>7, <1>8 DEF Links!Next, Links!SendAtOnce

\* The frame that is cut off is the last one begun, and has not arrived.
LEMMA RefineFails ==
  ASSUME Tasks, LinkInv, NEW p \in Party, SendFails(p)
  PROVE  UNCHANGED Links!vars
<1>1. UNCHANGED <<wire, buffer, received, sent, astray>>
  BY DEF SendFails
<1>2. ASSUME NEW l \in Link
      PROVE  Begun'[l] = Begun[l] /\ Arrived'[l] = Arrived[l] /\ Returned'[l] = Returned[l]
  <2>1. cut'[l] = IF l[1] = p /\ Torn(l) /\ cut[l] = 0 THEN sent[l] ELSE cut[l]
    BY DEF SendFails
  <2>2. CASE cut'[l] = cut[l]
    BY <1>1, <2>2 DEF Begun, Arrived, Returned, Counted
  <2>3. CASE l[1] = p /\ Torn(l) /\ cut[l] = 0 /\ cut'[l] = sent[l]
    <3>1. PICK r \in Nat, n \in Nat, m \in Nat, s \in Nat :
            received[l] = r /\ Len(buffer[l]) = n /\ Len(wire[l]) = m /\ sent[l] = s
      BY LinkTypes DEF Tasks
    <3>2. l \notin astray /\ Intact(l)
      BY <2>3 DEF LinkInv, CutInv, Intact
    <3>3. Taken(l) = Full(l) /\ Full(l) = 2 * s - 1
      BY <2>3, <3>1, <3>2, SenderExact DEF Torn, Full
    <3>4. 2 * r + n + m = 2 * s - 1
      BY <3>1, <3>3 DEF Taken
    <3>5. r < s /\ r + (n \div 2) < s
      BY <3>4, WholeFrames
    <3>. QED  BY <1>1, <2>3, <3>1, <3>2, <3>5 DEF Begun, Arrived, Returned, Counted
  <2>. QED  BY <2>1, <2>2, <2>3
<1>. QED  BY <1>2 DEF Links!vars, Begun, Arrived, Returned

LEMMA RefineArrive ==
  ASSUME Tasks, LinkInv, NEW l \in Link, Arrive(l)
  PROVE  Links!Next \/ UNCHANGED Links!vars
<1>1. /\ UNCHANGED <<sent, received, astray, cut>>
      /\ \A k \in Link : k # l => buffer'[k] = buffer[k]
  BY ArriveEffect DEF Arrive
<1>2. Begun' = Begun /\ Returned' = Returned
  BY <1>1 DEF Begun, Returned, Counted
<1>3. Arrived' = [Arrived EXCEPT ![l] = Arrived'[l]]
  BY <1>1, OneLink DEF SameLink
<1>4. CASE l \in astray
  <2>1. Arrived' = Arrived
    BY <1>1, <1>4 DEF Arrived, Counted
  <2>. QED  BY <1>2, <2>1 DEF Links!vars
<1>5. CASE l \notin astray
  <2>1. PICK r \in Nat, n \in Nat, m \in Nat, s \in Nat, c \in Nat :
          /\ received[l] = r /\ Len(buffer[l]) = n /\ Len(wire[l]) = m /\ sent[l] = s /\ cut[l] = c
          /\ m > 0 /\ Len(buffer'[l]) = n + 1
    BY LinkTypes, ArriveEffect DEF Tasks
  <2>2. PICK a \in Nat : a = r + (n \div 2)
    BY WholeFrames
  <2>3. \/ r + ((n + 1) \div 2) = a
        \/ r + ((n + 1) \div 2) = a + 1 /\ 2 * r + n = 2 * a + 1
    BY <2>2, WholeFrames
  <2>4. CASE r + ((n + 1) \div 2) = a
    <3>1. Arrived'[l] = Arrived[l]
      BY <1>1, <1>5, <2>1, <2>2, <2>4 DEF Arrived, Counted
    <3>2. Arrived' = Arrived
      BY <1>3, <3>1 DEF Arrived
    <3>. QED  BY <1>2, <3>2 DEF Links!vars
  <2>5. CASE r + ((n + 1) \div 2) = a + 1 /\ 2 * r + n = 2 * a + 1
    <3>1. /\ Arrived[l] = IF c = 0 \/ a < c THEN a ELSE c - 1
          /\ Arrived'[l] = IF c = 0 \/ a + 1 < c THEN a + 1 ELSE c - 1
          /\ Begun[l] = IF c = 0 THEN s ELSE c
      BY <1>1, <1>5, <2>1, <2>2, <2>5 DEF Begun, Arrived, Counted
    <3>2. c = 0 => a < s
      <4>1. ASSUME c = 0
            PROVE  Taken(l) <= Full(l) /\ (Full(l) = 2 * s \/ Full(l) = 2 * s - 1)
        BY <2>1, <4>1 DEF LinkInv, AllTaken, Intact, Full
      <4>2. Taken(l) = 2 * r + n + m
        BY <2>1 DEF Taken
      <4>. QED  BY <2>1, <2>5, <4>1, <4>2
    <3>3. CASE c = 0 \/ a + 1 < c
      <4>1. Arrived'[l] = Arrived[l] + 1 /\ Arrived[l] < Begun[l]
        BY <3>1, <3>2, <3>3
      <4>. QED  BY <1>2, <1>3, <4>1 DEF Links!Next, Links!Arrive
    <3>4. CASE ~(c = 0 \/ a + 1 < c)
      <4>1. Arrived'[l] = Arrived[l]
        BY <3>1, <3>4
      <4>2. Arrived' = Arrived
        BY <1>3, <4>1 DEF Arrived
      <4>. QED  BY <1>2, <4>2 DEF Links!vars
    <3>. QED  BY <3>3, <3>4
  <2>. QED  BY <2>3, <2>4, <2>5
<1>. QED  BY <1>4, <1>5

\* Before the cut, the frame in front is the next one.
LEMMA RefineDecode ==
  ASSUME Tasks, LinkInv, NEW l \in Link, Decode(l), ReceiveFrame, UNCHANGED astray
  PROVE  Links!Next
<1>1. /\ received' = [received EXCEPT ![l] = @ + 1]
      /\ UNCHANGED <<sent, cut, astray>>
      /\ l \notin astray /\ (cut[l] = 0 \/ received[l] + 1 < cut[l])
      /\ \A k \in Link : k # l => buffer'[k] = buffer[k]
  BY DecodeEffect DEF LinkInv, ReceiveFrame
<1>2. PICK r \in Nat, n \in Nat, c \in Nat :
        received[l] = r /\ Len(buffer[l]) = n + 2 /\ Len(buffer'[l]) = n /\ cut[l] = c
  <2>1. Len(buffer[l]) >= 2 /\ Len(buffer'[l]) = Len(buffer[l]) - 2
    BY DecodeEffect DEF LinkInv
  <2>2. received[l] \in Nat /\ Len(buffer[l]) \in Nat /\ cut[l] \in Nat
    BY LinkTypes DEF Tasks
  <2>3. Len(buffer[l]) - 2 \in Nat /\ Len(buffer[l]) = (Len(buffer[l]) - 2) + 2
    BY <2>1, <2>2
  <2>. QED  BY <2>1, <2>2, <2>3
<1>3. received'[l] = r + 1 /\ \A k \in Link : k # l => received'[k] = received[k]
  BY <1>1, <1>2 DEF Tasks, TypeOK
<1>4. PICK a \in Nat : r + ((n + 2) \div 2) = a /\ (r + 1) + (n \div 2) = a /\ r < a
  BY WholeFrames
<1>5. /\ Returned[l] = r /\ Returned'[l] = r + 1
      /\ Arrived[l] = (IF c = 0 \/ a < c THEN a ELSE c - 1) /\ Arrived'[l] = Arrived[l]
  <2>1. c = 0 \/ r + 1 < c
    BY <1>1, <1>2
  <2>2. c = 0 \/ r < c
    BY <1>2, <2>1
  <2>3. Returned[l] = r
    BY <1>1, <1>2, <2>2 DEF Returned, Counted
  <2>4. Returned'[l] = r + 1
    BY <1>1, <1>2, <1>3, <2>1 DEF Returned, Counted
  <2>5. Arrived[l] = IF c = 0 \/ a < c THEN a ELSE c - 1
    BY <1>1, <1>2, <1>4 DEF Arrived, Counted
  <2>6. Arrived'[l] = IF c = 0 \/ a < c THEN a ELSE c - 1
    BY <1>1, <1>2, <1>3, <1>4 DEF Arrived, Counted
  <2>. QED  BY <2>3, <2>4, <2>5, <2>6
<1>6. Returned[l] < Arrived[l]
  BY <1>1, <1>2, <1>4, <1>5
<1>7. Begun' = Begun
  BY <1>1 DEF Begun
<1>8. /\ Arrived' = [Arrived EXCEPT ![l] = Arrived'[l]]
      /\ Returned' = [Returned EXCEPT ![l] = Returned'[l]]
  BY <1>1, <1>3, OneLink DEF SameLink
<1>9. Arrived' = Arrived
  BY <1>5, <1>8 DEF Arrived
<1>. QED  BY <1>5, <1>6, <1>7, <1>8, <1>9 DEF Links!Next, Links!Receive

\* A reader that goes astray has read everything before the cut.
LEMMA RefineMisread ==
  ASSUME Tasks, LinkInv, NEW l \in Link, Misread(l), ReceiveFrame
  PROVE  UNCHANGED Links!vars
<1>1. /\ UNCHANGED <<sent, cut>> /\ astray' = astray \cup {l}
      /\ \A k \in Link : k # l => received'[k] = received[k] /\ buffer'[k] = buffer[k]
  BY DEF Misread, ReceiveFrame, Tasks, TypeOK
<1>2. ~Intact(l) /\ (l \notin astray => received[l] + 1 = cut[l])
  BY MisreadBehindCut DEF LinkInv
<1>3. PICK r \in Nat, n \in Nat, c \in Nat :
        received[l] = r /\ Len(buffer[l]) = n /\ cut[l] = c
  BY LinkTypes DEF Tasks
<1>4. c # 0
  BY <1>2, <1>3 DEF Intact
<1>5. Arrived'[l] = c - 1 /\ Returned'[l] = c - 1
  BY <1>1, <1>3, <1>4 DEF Arrived, Returned, Counted
<1>6. Arrived[l] = c - 1 /\ Returned[l] = c - 1
  <2>1. CASE l \in astray
    BY <1>3, <1>4, <2>1 DEF Arrived, Returned, Counted
  <2>2. CASE l \notin astray
    <3>1. n >= 2
      BY <1>3, <2>2 DEF Misread, Tangled
    <3>2. PICK a \in Nat : r + (n \div 2) = a /\ a >= r + 1
      BY <3>1, WholeFrames
    <3>3. r = c - 1 /\ ~(a < c) /\ r < c
      BY <1>2, <1>3, <2>2, <3>2
    <3>. QED  BY <1>3, <1>4, <2>2, <3>2, <3>3 DEF Arrived, Returned, Counted
  <2>. QED  BY <2>1, <2>2
<1>7. Begun' = Begun
  BY <1>1 DEF Begun
<1>8. /\ Arrived' = [Arrived EXCEPT ![l] = Arrived'[l]]
      /\ Returned' = [Returned EXCEPT ![l] = Returned'[l]]
  BY <1>1, OneLink DEF SameLink
<1>9. Arrived' = Arrived
  BY <1>5, <1>6, <1>8 DEF Arrived
<1>10. Returned' = Returned
  BY <1>5, <1>6, <1>8 DEF Returned
<1>. QED  BY <1>7, <1>9, <1>10 DEF Links!vars

LEMMA RefineStep ==
  StreamInv /\ [Next]_vars => [Links!Next]_(Links!vars)
<1>. SUFFICES ASSUME Tasks, LinkInv, [Next]_vars
              PROVE  Links!Next \/ UNCHANGED Links!vars
  BY DEF StreamInv
<1>. DEFINE Quiet == UNCHANGED <<sent, cut, astray, buffer, received>>
<1>1. CASE Quiet
  BY <1>1 DEF Links!vars, Begun, Arrived, Returned, Counted
<1>2. ASSUME NEW p \in Party, ProtocolStep(p)
      PROVE  Quiet
  BY <1>2 DEF ProtocolStep, StartSend, StartRecvFrom, PeerUnknown, StartRecvAny, StartsReceive,
              Close, Drop
<1>3. ASSUME NEW p \in Party, SendStep(p)
      PROVE  Links!Next \/ UNCHANGED Links!vars \/ Quiet
  BY <1>3, RefineSelf, RefineHead, RefineFails DEF SendStep, WriteBody
<1>4. ASSUME NEW p \in Party, PollStep(p)
      PROVE  Links!Next \/ Quiet
  <2>1. ASSUME NEW q \in Party, Decode(<<q, p>>)
        PROVE  Links!Next
    <3>1. <<q, p>> \in Link
      BY DEF Link
    <3>. QED  BY <1>4, <2>1, <3>1, PollEffect, RefineDecode
  <2>. QED  BY <1>4, <2>1, PollEffect DEF ReceiveFrame
<1>5. ASSUME NEW p \in Party, MisreadStep(p)
      PROVE  UNCHANGED Links!vars
  BY <1>5, MisreadEffect, RefineMisread
<1>6. CASE UNCHANGED vars
  BY <1>1, <1>6 DEF vars
<1>. QED  BY <1>1, <1>2, <1>3, <1>4, <1>5, <1>6, RefineArrive DEF Next

\* The streams implement the FIFO links that the Network trait promises, up to the first
\* frame on a link that a failed send cut off: whatever is timed out, cancelled, closed
\* or dropped on the way, no packet before it is skipped, read twice or put together
\* from two.  Of what a sender writes behind the cut frame nothing is promised.
THEOREM StreamsRefined == Spec => LinksSpec
BY StreamInvariant, RefineInit, RefineStep, PTL DEF Spec, LinksSpec, Links!Spec

=============================================================================
