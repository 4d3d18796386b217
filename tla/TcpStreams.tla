---------------------------- MODULE TcpStreams ----------------------------
(***************************************************************************)
(* The operations of a connected TcpNetwork (src/net/tcp.rs), one task per *)
(* party: framed packets over one socket per pair of parties, and the      *)
(* loop-back channel of each party to itself.                              *)
(*                                                                         *)
(* A frame is written in two halves, its length and its payload, and its   *)
(* receiver decodes it when both have arrived.  A send that fails drops    *)
(* the other sends of the same send_many wherever they are, and the party  *)
(* may go on: what it sends next stands behind the torn frame, and its     *)
(* receiver takes it for the rest of that frame.  The streams of a party   *)
(* live in a StreamMap, which forgets a stream when a receive from any     *)
(* party finds that it has ended.  A closed network is not used again.     *)
(***************************************************************************)
EXTENDS Naturals, Sequences, FiniteSets

CONSTANTS
  Party,          \* the parties of the mesh
  NoParty,        \* no peer to report
  Targets,        \* bound: the sets of targets that sends may have
  Closers,        \* bound: the parties that may close their networks
  MaxSends,       \* bound: MaxSends[p] sends of party p
  MaxReceives     \* bound: MaxReceives[p] receives of party p

ASSUME StreamsAssumption ==
  /\ NoParty \notin Party
  /\ Targets \subseteq (SUBSET Party) \ {{}}
  /\ Closers \subseteq Party
  /\ MaxSends \in [Party -> Nat]
  /\ MaxReceives \in [Party -> Nat]

VARIABLES
  wire,           \* wire[l]: halves of frames written and not arrived
  buffer,         \* buffer[l]: halves arrived and not decoded
  writer,         \* writer[l]: how the sender left the connection
  failed,         \* links whose reader's codec has returned an error
  astray,         \* links whose reader takes lengths where there are none
  receivers,      \* receivers[p]: the peers in p's StreamMap
  op,             \* op[p]: the operation p's task awaits
  unwritten,      \* unwritten[p]: what is left of a send, as <<target, half>>
  reported,       \* reported[p]: what p's last receive returned
  status,         \* status[p]: how p stands
  sends,          \* sends[p]: sends of p so far (bounded)
  receives,       \* receives[p]: receives of p so far (bounded)
  sent,           \* history: sent[l] frames were begun on l
  received,       \* history: the last packet received on l
  cut             \* history: the first frame cut off on l by a failed send, if any

vars == <<wire, buffer, writer, failed, astray, receivers, op, unwritten, reported, status, sends,
          receives, sent, received, cut>>

-----------------------------------------------------------------------------
\* A link is <<sender, receiver>>.
Link == Party \X Party

Half == [number : Nat, part : {"head", "body"}]

Operation ==
  [kind : {"Idle", "Send", "RecvFrom", "RecvAny"}, from : SUBSET Party, timed : BOOLEAN]

Idle == [kind |-> "Idle", from |-> {}, timed |-> FALSE]

Report ==
  [what : {"Nothing", "Packet", "Timeout", "ConnectionClosed", "IoError", "PartyNotFound"},
   from : Party \cup {NoParty}]

\* Fault: a result carries a list of peers.
ResultOfPeers(what, from) == [what |-> what, from |-> {from}]

Result(what, from) == [what |-> what, from |-> from]

Init ==
  /\ wire = [l \in Link |-> <<>>]
  /\ buffer = [l \in Link |-> <<>>]
  /\ writer = [l \in Link |-> "open"]
  /\ failed = {}
  /\ astray = {}
  /\ receivers = [p \in Party |-> Party]
  /\ op = [p \in Party |-> Idle]
  /\ unwritten = [p \in Party |-> {}]
  /\ reported = [p \in Party |-> Result("Nothing", NoParty)]
  /\ status = [p \in Party |-> "running"]
  /\ sends = [p \in Party |-> 0]
  /\ receives = [p \in Party |-> 0]
  /\ sent = [l \in Link |-> 0]
  /\ received = [l \in Link |-> 0]
  /\ cut = [l \in Link |-> 0]

\* The task is at liberty to start a receive.
StartsReceive(p, operation) ==
  /\ status[p] = "running" /\ op[p] = Idle
  /\ receives[p] < MaxReceives[p]
  /\ receives' = [receives EXCEPT ![p] = @ + 1]
  /\ op' = [op EXCEPT ![p] = operation]
  /\ UNCHANGED <<wire, buffer, writer, failed, astray, receivers, unwritten, status, sends, sent,
                 received, cut>>

-----------------------------------------------------------------------------
(***************************************************************************)
(* Sending: send_to is a send to one target, send_many to several at once. *)
(***************************************************************************)
StartSend(p, targets) ==
  /\ status[p] = "running" /\ op[p] = Idle
  /\ sends[p] < MaxSends[p]
  /\ sends' = [sends EXCEPT ![p] = @ + 1]
  /\ op' = [op EXCEPT ![p] = [kind |-> "Send", from |-> {}, timed |-> FALSE]]
  /\ unwritten' = [unwritten EXCEPT ![p] = targets \X {"head", "body"}]
  /\ UNCHANGED <<wire, buffer, writer, failed, astray, receivers, reported, status, receives, sent,
                 received, cut>>

\* The send is over when nothing is left to write.
Written(p, halves) ==
  /\ halves \subseteq unwritten[p]
  /\ unwritten' = [unwritten EXCEPT ![p] = @ \ halves]
  /\ op' = [op EXCEPT ![p] = IF unwritten[p] = halves THEN Idle ELSE @]

\* The loop-back channel takes a packet at once.
SendToSelf(p) ==
  LET l == <<p, p>> IN
  /\ Written(p, {<<p, "head">>, <<p, "body">>})
  /\ sent' = [sent EXCEPT ![l] = @ + 1]
  /\ buffer' = [buffer EXCEPT ![l] =
       @ \o <<[number |-> sent[l] + 1, part |-> "head"], [number |-> sent[l] + 1, part |-> "body"]>>]
  /\ UNCHANGED <<wire, writer, failed, astray, receivers, reported, status, sends, receives,
                 received, cut>>

WriteHead(p, to) ==
  LET l == <<p, to>> IN
  /\ p # to
  /\ Written(p, {<<to, "head">>})
  /\ sent' = [sent EXCEPT ![l] = @ + 1]
  /\ wire' = [wire EXCEPT ![l] = Append(@, [number |-> sent[l] + 1, part |-> "head"])]
  /\ UNCHANGED <<buffer, writer, failed, astray, receivers, reported, status, sends, receives,
                 received, cut>>

WriteBody(p, to) ==
  LET l == <<p, to>> IN
  /\ p # to
  /\ <<to, "head">> \notin unwritten[p]
  /\ Written(p, {<<to, "body">>})
  /\ wire' = [wire EXCEPT ![l] = Append(@, [number |-> sent[l], part |-> "body"])]
  /\ UNCHANGED <<buffer, writer, failed, astray, receivers, reported, status, sends, receives,
                 sent, received, cut>>

\* The frame on the link has a head and, so far, no body.
Torn(l) == <<l[2], "body">> \in unwritten[l[1]] /\ <<l[2], "head">> \notin unwritten[l[1]]

\* A peer is gone: try_join_all returns its error and drops the other sends.  A half
\* of which a part was written counts as the whole half, or as none of it.
SendFails(p) ==
  /\ \E t \in Party \ {p} : status[t] = "gone" /\ <<t, "body">> \in unwritten[p]
  /\ unwritten' = [unwritten EXCEPT ![p] = {}]
  /\ op' = [op EXCEPT ![p] = Idle]
  /\ cut' = [l \in Link |-> IF l[1] = p /\ Torn(l) /\ cut[l] = 0 THEN sent[l] ELSE cut[l]]
  /\ UNCHANGED <<wire, buffer, writer, failed, astray, receivers, reported, status, sends, receives,
                 sent, received>>

\* Nothing was sent behind a frame that was cut off.
Intact(l) == cut[l] = 0 \/ sent[l] = cut[l]

\* The network: bytes arrive in order.  What a party that receives no more is sent
\* might as well stay on the wire.
Arrive(l) ==
  /\ wire[l] # <<>> /\ status[l[2]] = "running"
  /\ buffer' = [buffer EXCEPT ![l] = Append(@, Head(wire[l]))]
  /\ wire' = [wire EXCEPT ![l] = Tail(@)]
  /\ UNCHANGED <<writer, failed, astray, receivers, op, unwritten, reported, status, sends, receives,
                 sent, received, cut>>

-----------------------------------------------------------------------------
(***************************************************************************)
(* What a reader finds in its stream.                                      *)
(***************************************************************************)
\* The stream starts with both halves of one frame.
Whole(l) == Len(buffer[l]) >= 2 /\ buffer[l][1].number = buffer[l][2].number

FrameReady(l) == l \notin failed \cup astray /\ Whole(l)

\* Where the reader finds a length, others bytes follow than the payload it is for.
Tangled(l) ==
  IF l \in astray THEN buffer[l] # <<>> ELSE Len(buffer[l]) >= 2 /\ ~Whole(l)

AtEnd(l) == wire[l] = <<>> /\ writer[l] # "open" /\ (l \in astray \/ ~Whole(l))

\* Fault: end of input inside a frame passes for a clean end.
EndIgnoresRest(l) == AtEnd(l) /\ writer[l] = "lost"

\* End of input inside a frame, or without the peer's close-notify, is an error.
EndIsError(l) == AtEnd(l) /\ (writer[l] = "lost" \/ buffer[l] # <<>>)

Erring(l) == l \notin failed /\ EndIsError(l)

\* Fault: a stream that the peer has closed just yields no more frames.
EndsByError(l) == l \in failed

\* Fault: a stream is over once the peer has closed, whatever is still in it.
EndsUnread(l) == l \in failed \/ writer[l] = "closed"

\* The stream yields None: the peer closed it, or its reader has failed.
Ended(l) == l \in failed \/ (AtEnd(l) /\ ~EndIsError(l))

\* Fault: a length that is off keeps the reader from using up the whole frame.
BehindLength(l) == SubSeq(buffer[l], 2, Len(buffer[l]))

\* What is left behind the frame in front.
Rest(l) == SubSeq(buffer[l], 3, Len(buffer[l]))

Decode(l) ==
  /\ FrameReady(l)
  /\ received' = [received EXCEPT ![l] = buffer[l][1].number]
  /\ buffer' = [buffer EXCEPT ![l] = Rest(l)]

\* The reader takes what follows a torn head for the rest of that frame, or goes on
\* wherever such a frame left it: it uses up some bytes, which are no packet.
Misread(l) ==
  /\ l \notin failed /\ Tangled(l)
  /\ \E n \in 0..Len(buffer[l]) :
       buffer' = [buffer EXCEPT ![l] = SubSeq(@, n + 1, Len(@))]
  /\ astray' = astray \cup {l}
  /\ received' = [received EXCEPT ![l] = 0]

Returns(p, result) ==
  /\ reported' = [reported EXCEPT ![p] = result]
  /\ op' = [op EXCEPT ![p] = Idle]

ReceiveFrame == UNCHANGED <<wire, writer, unwritten, status, sends, receives, sent, cut>>

-----------------------------------------------------------------------------
(***************************************************************************)
(* recv_from and recv_from_with_timeout.                                   *)
(***************************************************************************)
StartRecvFrom(p, q, timed) ==
  /\ q \in receivers[p]
  /\ StartsReceive(p, [kind |-> "RecvFrom", from |-> {q}, timed |-> timed])
  /\ reported' = [reported EXCEPT ![p] = Result("Nothing", NoParty)]

\* The peer is not, or no longer, in the StreamMap.
PeerUnknown(p, q) ==
  /\ q \notin receivers[p]
  /\ StartsReceive(p, Idle)
  /\ reported' = [reported EXCEPT ![p] = Result("PartyNotFound", q)]

Waits(p, kind) == status[p] = "running" /\ op[p].kind = kind

PollFrom(p) ==
  /\ Waits(p, "RecvFrom")
  /\ \E q \in op[p].from :
       \/ /\ Decode(<<q, p>>)
          /\ Returns(p, Result("Packet", q))
          /\ UNCHANGED failed
       \/ /\ Erring(<<q, p>>)
          /\ failed' = failed \cup {<<q, p>>}
          /\ Returns(p, Result("IoError", q))
          /\ UNCHANGED <<buffer, received>>
       \/ /\ Ended(<<q, p>>)
          /\ Returns(p, Result("ConnectionClosed", q))
          /\ UNCHANGED <<buffer, received, failed>>
  /\ UNCHANGED <<astray, receivers>>
  /\ ReceiveFrame

-----------------------------------------------------------------------------
(***************************************************************************)
(* recv_any and recv_any_with_timeout.  A poll of the StreamMap starts at  *)
(* a random stream, stops at the first that has something, and removes the *)
(* ended streams it passes.                                                *)
(***************************************************************************)
StartRecvAny(p, timed) ==
  /\ StartsReceive(p, [kind |-> "RecvAny", from |-> Party, timed |-> timed])
  /\ reported' = [reported EXCEPT ![p] = Result("Nothing", NoParty)]

EndedPeers(p) == {q \in receivers[p] : Ended(<<q, p>>)}

\* Some stream has a packet or an error to return.
Answers(p) == {q \in receivers[p] : FrameReady(<<q, p>>) \/ Erring(<<q, p>>)}

PollAny(p) ==
  /\ Waits(p, "RecvAny")
  /\ \E q \in Answers(p), passed \in SUBSET EndedPeers(p) :
       /\ receivers' = [receivers EXCEPT ![p] = @ \ passed]
       /\ \/ /\ Decode(<<q, p>>)
             /\ Returns(p, Result("Packet", q))
             /\ UNCHANGED failed
          \/ /\ Erring(<<q, p>>)
             /\ failed' = failed \cup {<<q, p>>}
             /\ Returns(p, Result("IoError", q))
             /\ UNCHANGED <<buffer, received>>
  /\ UNCHANGED astray
  /\ ReceiveFrame

\* A fruitless poll removes every ended stream; next() gives None if none is left.
PruneEnded(p) ==
  /\ Waits(p, "RecvAny")
  /\ Answers(p) = {} /\ EndedPeers(p) # {}
  /\ receivers' = [receivers EXCEPT ![p] = @ \ EndedPeers(p)]
  /\ IF receivers[p] = EndedPeers(p)
       THEN Returns(p, Result("ConnectionClosed", NoParty))
       ELSE UNCHANGED <<reported, op>>
  /\ UNCHANGED <<buffer, failed, astray, received>>
  /\ ReceiveFrame

-----------------------------------------------------------------------------
\* A receive gets what its reader makes of a tangled stream: a packet of whatever
\* postcard decodes, postcard's error, or the codec's for a length beyond its limit,
\* after which the stream is over.  It may as well wait for more bytes.
MisreadStep(p) ==
  /\ Waits(p, "RecvFrom") \/ Waits(p, "RecvAny")
  /\ \E q \in op[p].from \cap receivers[p] :
       /\ Misread(<<q, p>>)
       /\ \/ Returns(p, Result("Packet", q)) /\ UNCHANGED failed
          \/ Returns(p, Result("IoError", q)) /\ failed' \in {failed, failed \cup {<<q, p>>}}
  /\ \E passed \in SUBSET EndedPeers(p) :
       receivers' = [receivers EXCEPT ![p] = IF op[p].kind = "RecvAny" THEN @ \ passed ELSE @]
  /\ ReceiveFrame

-----------------------------------------------------------------------------
\* Fault: what was read of a frame goes with the receive that timed out.
ForgetPartial(p) ==
  [l \in Link |-> IF l[2] = p /\ l[1] \in op[p].from THEN <<>> ELSE buffer[l]]

\* The FramedRead keeps a partial frame when the future that polled it is dropped.
KeepPartial(p) == buffer

\* tokio::time::timeout polls the receive first, and then the timer.
TimedOut(p) ==
  /\ status[p] = "running" /\ op[p].timed
  /\ \A q \in op[p].from \cap receivers[p] : ~FrameReady(<<q, p>>) /\ ~Erring(<<q, p>>)
  /\ \A q \in op[p].from \cap receivers[p] : ~Ended(<<q, p>>)
  /\ buffer' = KeepPartial(p)
  /\ Returns(p, Result("Timeout", IF op[p].kind = "RecvFrom" THEN CHOOSE q \in op[p].from : TRUE ELSE NoParty))
  /\ UNCHANGED <<failed, astray, receivers, received>>
  /\ ReceiveFrame

-----------------------------------------------------------------------------
(***************************************************************************)
(* The end of a party.                                                     *)
(***************************************************************************)
\* close: shut the writers down in any order, up to one whose peer is gone; only if
\* there is none are the streams cleared.  A write half stays open until the drop.
Close(p) ==
  /\ p \in Closers /\ status[p] = "running" /\ op[p] = Idle
  /\ \E shut \in SUBSET (Party \ {p}) :
       /\ writer' = [l \in Link |-> IF l[1] = p /\ l[2] \in shut THEN "closed" ELSE writer[l]]
       /\ \/ /\ shut = Party \ {p}
             /\ receivers' = [receivers EXCEPT ![p] = {}]
          \/ /\ \E t \in Party \ {p} : t \notin shut /\ status[t] = "gone"
             /\ UNCHANGED receivers
  /\ status' = [status EXCEPT ![p] = "closed"]
  /\ reported' = [reported EXCEPT ![p] = Result("Nothing", NoParty)]
  /\ UNCHANGED <<wire, buffer, failed, astray, op, unwritten, sends, receives, sent, received, cut>>

\* The network is dropped, or the process dies.  A socket with unread input is reset:
\* what is on the wire to that peer is lost.
Drop(p) ==
  /\ status[p] # "gone"
  /\ \E reset \in SUBSET {q \in Party \ {p} : wire[<<q, p>>] # <<>> \/ buffer[<<q, p>>] # <<>>} :
       /\ wire' = [l \in Link |-> IF l[1] = p /\ l[2] \in reset THEN <<>> ELSE wire[l]]
       /\ writer' = [l \in Link |->
            IF l[1] = p /\ p # l[2] /\ (l[2] \in reset \/ writer[l] = "open") THEN "lost" ELSE writer[l]]
  /\ status' = [status EXCEPT ![p] = "gone"]
  /\ receivers' = [receivers EXCEPT ![p] = {}]
  /\ op' = [op EXCEPT ![p] = Idle]
  /\ unwritten' = [unwritten EXCEPT ![p] = {}]
  /\ reported' = [reported EXCEPT ![p] = Result("Nothing", NoParty)]
  /\ UNCHANGED <<buffer, failed, astray, sends, receives, sent, received, cut>>

-----------------------------------------------------------------------------
SendStep(p) ==
  \/ SendToSelf(p) \/ SendFails(p)
  \/ \E t \in Party : WriteHead(p, t) \/ WriteBody(p, t)

PollStep(p) == PollFrom(p) \/ PollAny(p) \/ PruneEnded(p) \/ TimedOut(p)

\* What the protocol of p starts.
ProtocolStep(p) ==
  \/ \E targets \in Targets : StartSend(p, targets)
  \/ \E q \in Party, timed \in BOOLEAN : StartRecvFrom(p, q, timed)
  \/ \E q \in Party : PeerUnknown(p, q)
  \/ \E timed \in BOOLEAN : StartRecvAny(p, timed)
  \/ Close(p)
  \/ Drop(p)

Next ==
  \/ \E p \in Party : ProtocolStep(p) \/ SendStep(p) \/ PollStep(p) \/ MisreadStep(p)
  \/ \E l \in Link : Arrive(l)

Spec == Init /\ [][Next]_vars

\* The runtime polls what can make progress, timers fire and bytes arrive; nothing
\* makes a protocol start an operation or end, or a tangled stream yield anything.
FairSpec ==
  /\ Spec
  /\ \A p \in Party : WF_vars(SendStep(p)) /\ WF_vars(PollStep(p))
  /\ \A l \in Link : WF_vars(Arrive(l))

-----------------------------------------------------------------------------
(***************************************************************************)
(* Properties.                                                             *)
(***************************************************************************)
TypeOK ==
  /\ wire \in [Link -> Seq(Half)]
  /\ buffer \in [Link -> Seq(Half)]
  /\ writer \in [Link -> {"open", "closed", "lost"}]
  /\ failed \subseteq Link
  /\ astray \subseteq Link
  /\ receivers \in [Party -> SUBSET Party]
  /\ op \in [Party -> Operation]
  /\ unwritten \in [Party -> SUBSET (Party \X {"head", "body"})]
  /\ reported \in [Party -> Report]
  /\ status \in [Party -> {"running", "closed", "gone"}]
  /\ sends \in [Party -> Nat]
  /\ receives \in [Party -> Nat]
  /\ sent \in [Link -> Nat]
  /\ received \in [Link -> Nat]
  /\ cut \in [Link -> Nat]

\* ConnectionClosed is the end of everything (recv_from, tcp.rs:333-343): it is reported
\* only when all that the peer ever began to send has been received, the peer's stream
\* had reported an error before, or the peer went on behind a frame that a failed send
\* had cut off.  A cut frame alone never passes for a clean end.
ClosedAfterAll ==
  \A p, q \in Party :
    /\ reported[p] = Result("ConnectionClosed", q)
    /\ <<q, p>> \notin failed /\ Intact(<<q, p>>)
    => received[<<q, p>>] = sent[<<q, p>>]

\* The StreamMap forgets a peer for good (recv_any, tcp.rs:256-261, and recv_from then
\* reports PartyNotFound): by then the peer has closed and all that it sent has been
\* received, with the exceptions of ClosedAfterAll.  The peer may still drop its
\* network afterwards, and the connection be reset for what it had not read.
ForgottenAfterAll ==
  \A p, q \in Party :
    /\ status[p] = "running" /\ q \notin receivers[p]
    /\ <<q, p>> \notin failed /\ Intact(<<q, p>>)
    => writer[<<q, p>>] # "open" /\ received[<<q, p>>] = sent[<<q, p>>]

\* A receive from a named peer does not outlive the peer (recv_from, and the test
\* recv_from_closed_peer_reports_connection_closed): once the peer has closed or is
\* gone, it returns a packet or an error.
DepartureNoticed ==
  \A p, q \in Party :
    (/\ Waits(p, "RecvFrom") /\ op[p].from = {q}
     /\ writer[<<q, p>>] # "open")
      ~> ~(Waits(p, "RecvFrom") /\ op[p].from = {q})

\* What the comment at tcp.rs:652-653 says of a peer that shuts down: it "must surface
\* as `ConnectionClosed` on the other side's next receive, rather than hanging".
\* Here for recv_any, when all the remote peers have shut down.
AllClosedSurfaces ==
  \A p \in Party :
    (Waits(p, "RecvAny") /\ \A q \in Party \ {p} : writer[<<q, p>>] = "closed")
      ~> ~Waits(p, "RecvAny")

\* A reader loses track of its stream (split_socket, tcp.rs:128-138), and returns what
\* was never sent, only behind a frame that a failed send had cut off and that its
\* sender then wrote on behind: a frame cut off at the end of what was sent, a receive
\* that timed out in the middle of one, or a reset never make it do so.
GarbageOnlyBehindCut == \A l \in astray : ~Intact(l)

\* The links implement the FIFO links of the Network trait, timeouts, cancelled sends
\* and closing peers included.  A link counts up to the first frame that a failed send
\* cut off (send_many, tcp.rs:303-313): before it no packet is skipped, read twice or
\* put together from two.  Behind the cut the code promises nothing.
Counted(l, frames) == IF cut[l] = 0 \/ frames < cut[l] THEN frames ELSE cut[l] - 1

Begun == [l \in Link |-> IF cut[l] = 0 THEN sent[l] ELSE cut[l]]

Arrived ==
  [l \in Link |->
     Counted(l, IF l \in astray THEN cut[l] ELSE received[l] + (Len(buffer[l]) \div 2))]

Returned == [l \in Link |-> Counted(l, IF l \in astray THEN cut[l] ELSE received[l])]

Links == INSTANCE FifoLinks WITH sent <- Begun, arrived <- Arrived, received <- Returned

LinksSpec == Links!Spec

=============================================================================
