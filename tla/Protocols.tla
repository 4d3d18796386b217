----------------------------- MODULE Protocols -----------------------------
(***************************************************************************)
(* The message patterns of the built-in protocols: dealing and opening a   *)
(* shared secret (src/protocol/share) and the DN07 protocols over Shamir   *)
(* shares (src/protocol/passive_shamir), composed as a session: every      *)
(* party calls the same protocols in the same order, each in its own role. *)
(*                                                                         *)
(* The network is what FifoLinks promises: a packet sent on a link is      *)
(* received once, in order, after any delay.  Parties run concurrently.    *)
(* A packet carries values and nothing else: no protocol, round or item    *)
(* identity.  The model gives each packet the call and the item it was     *)
(* sent for, as history: no receive looks at it.                           *)
(*                                                                         *)
(* A protocol is the list of network operations its run performs in a      *)
(* given role, its script; what it computes from the values it receives is *)
(* local.                                                                  *)
(***************************************************************************)
EXTENDS Integers, Sequences, SequencesExt

CONSTANTS
  Party,          \* the party ids
  PartyOrder,     \* party_ids() of the network, and the dealers' receivers
  Sorted,         \* the same, sorted: parties.sort() in the DN07 constructors
  Sessions        \* the sessions to explore: sequences of calls

Protocol ==
  {"Deal", "Open", "OpenToParty", "OpenToKing", "RandShr", "RandDoubleShr"}

\* A call of a protocol; who is the dealer, the receiver or the king.
Call == [protocol : Protocol, who : Party]

ASSUME SessionAssumption ==
  /\ Party \subseteq Nat
  /\ PartyOrder \in Seq(Party)
  /\ ToSet(PartyOrder) = Party /\ IsInjective(PartyOrder)
  /\ Sorted \in Seq(Party) /\ ToSet(Sorted) = Party
  /\ \A i, j \in 1..Len(Sorted) : i < j => Sorted[i] < Sorted[j]
  /\ Sessions \subseteq Seq(Call)

VARIABLES
  session,        \* the calls all parties make
  call,           \* call[p]: the call p is in, one more than there are at the end
  step,           \* step[p]: the next operation of p in that call
  sent,           \* sent[l]: the packets sent on l, in order
  received,       \* received[l]: how many of them have been received
  taken,          \* taken[p]: what p has received in the call it is in, in order
  status          \* status[p]: running, or failed in a reconstruction

vars == <<session, call, step, sent, received, taken, status>>

-----------------------------------------------------------------------------
(***************************************************************************)
(* Scripts.                                                                *)
(***************************************************************************)
Link == Party \X Party

Send(to, item) == [do |-> "send", peer |-> to, item |-> item]

RecvFrom(sender, item) == [do |-> "recv_from", peer |-> sender, item |-> item]

RecvAny(p, item) == [do |-> "recv_any", peer |-> p, item |-> item]

SendToEach(parties, item) == [i \in 1..Len(parties) |-> Send(parties[i], item)]

RecvFromEach(parties, item) == [i \in 1..Len(parties) |-> RecvFrom(parties[i], item)]

\* The parties but p: every id occurs once.
Without(parties, p) ==
  RemoveAt(parties, CHOOSE i \in 1..Len(parties) : parties[i] = p)

Others(p) == Without(PartyOrder, p)

\* A share from every other party, in arrival order.
CollectAny(p) == [i \in 1..Len(Others(p)) |-> RecvAny(p, "share")]

\* Fault: the dealer leaves itself out of the receivers.
DealSkippingSelf(p, dealer, item) ==
  (IF p = dealer THEN SendToEach(Others(p), item) ELSE <<>>)
    \o <<RecvFrom(dealer, item)>>

\* PassiveDealShr: the dealer scatters, itself included; everybody awaits its share.
Deal(p, dealer, item) ==
  (IF p = dealer THEN SendToEach(PartyOrder, item) ELSE <<>>)
    \o <<RecvFrom(dealer, item)>>

\* Fault: a share is also sent to oneself.
OpenToAll(p) == SendToEach(PartyOrder, "share") \o CollectAny(p)

\* PassiveOpenShr
Open(p) == SendToEach(Others(p), "share") \o CollectAny(p)

\* PassiveOpenToParty
OpenToParty(p, receiver) ==
  IF p = receiver THEN CollectAny(p) ELSE <<Send(receiver, "share")>>

\* Fault: the king sends the secret to every party, itself included.
OpenToKingAnsweringAll(p, king) ==
  IF p = king
    THEN RecvFromEach(Others(p), "share") \o SendToEach(PartyOrder, "secret")
    ELSE <<Send(king, "share"), RecvFrom(king, "secret")>>

\* Fault: the king answers before it has collected.
OpenToKingHasty(p, king) ==
  IF p = king
    THEN SendToEach(Others(p), "secret") \o RecvFromEach(Others(p), "share")
    ELSE <<Send(king, "share"), RecvFrom(king, "secret")>>

\* PassiveOpenToKing and its batched form, hence also PassiveTriple and
\* PassiveShamirMul, whose only communication is a batched opening.
OpenToKing(p, king) ==
  IF p = king
    THEN RecvFromEach(Others(p), "share") \o SendToEach(Others(p), "secret")
    ELSE <<Send(king, "share"), RecvFrom(king, "secret")>>

\* One round of DN07 randomness: p deals to everyone, takes its own share, then a
\* share from each other party in the sorted order.
DealAndCollect(p, item) ==
  SendToEach(Sorted, item)
    \o <<RecvFrom(p, item)>> \o RecvFromEach(Without(Sorted, p), item)

\* Fault: the degree-2t sharing is collected before the degree-t one.
RandDoubleShrSwapped(p) ==
  SendToEach(Sorted, "share_t")
    \o DealAndCollect(p, "share_2t") \o RecvFromEach(Sorted, "share_t")

\* PassiveRandDoubleShr: the degree-t sharing, then the degree-2t one.
RandDoubleShr(p) == DealAndCollect(p, "share_t") \o DealAndCollect(p, "share_2t")

\* What p does in a call.
Script(p, c) ==
  CASE c.protocol = "Deal"          -> Deal(p, c.who, "share")
    [] c.protocol = "Open"          -> Open(p)
    [] c.protocol = "OpenToParty"   -> OpenToParty(p, c.who)
    [] c.protocol = "OpenToKing"    -> OpenToKing(p, c.who)
    [] c.protocol = "RandShr"       -> DealAndCollect(p, "share_t")
    [] c.protocol = "RandDoubleShr" -> RandDoubleShr(p)

-----------------------------------------------------------------------------
(***************************************************************************)
(* Execution.                                                              *)
(***************************************************************************)
InCall(p) == status[p] = "running" /\ call[p] <= Len(session)

CurrentScript(p) == Script(p, session[call[p]])

Running(p) == InCall(p) /\ step[p] <= Len(CurrentScript(p))

Returning(p) == InCall(p) /\ step[p] > Len(CurrentScript(p))

Done(p) == status[p] = "running" /\ call[p] > Len(session)

Operation(p) == CurrentScript(p)[step[p]]

\* The packet that p sends, or waits for, carries the call it is for.
OwnPacket(p) == [call |-> call[p], item |-> Operation(p).item]

\* A packet sent on l and not yet received.
HasPacket(l) == received[l] < Len(sent[l])

NextPacket(l) == sent[l][received[l] + 1]

SendPacket(p) ==
  /\ Running(p)
  /\ Operation(p).do = "send"
  /\ sent' = [sent EXCEPT ![<<p, Operation(p).peer>>] = Append(@, OwnPacket(p))]
  /\ step' = [step EXCEPT ![p] = @ + 1]
  /\ UNCHANGED <<session, call, received, taken, status>>

\* The parties whose shares an opening has, p itself first.
Senders(p, receipts) ==
  <<p>> \o [i \in 1..Len(receipts) |-> receipts[i].sender]

\* Fault: the senders are not checked, as with additive shares.
NeverFails(p, receipts) == FALSE

\* secret_from_shares of the Shamir schemes, called once there is a share per party,
\* fails on two shares of one sender.
Fails(p, receipts) ==
  LET senders == Senders(p, receipts)
  IN  Len(senders) = Len(PartyOrder) /\ ~IsInjective(senders)

Receipt(p, s) ==
  [sender |-> s, packet |-> NextPacket(<<s, p>>), awaited |-> OwnPacket(p)]

\* Fault: a receive pops two packets and drops the second.
ReceiveTwo(p, s) ==
  /\ HasPacket(<<s, p>>)
  /\ received' = [received EXCEPT ![<<s, p>>] = @ + 2]
  /\ taken' = [taken EXCEPT ![p] = Append(@, Receipt(p, s))]
  /\ UNCHANGED <<session, call, sent>>

\* p receives the next packet on the link from s.
Receive(p, s) ==
  /\ HasPacket(<<s, p>>)
  /\ received' = [received EXCEPT ![<<s, p>>] = @ + 1]
  /\ taken' = [taken EXCEPT ![p] = Append(@, Receipt(p, s))]
  /\ UNCHANGED <<session, call, sent>>

ReceiveFrom(p) ==
  /\ Running(p)
  /\ Operation(p).do = "recv_from"
  /\ Receive(p, Operation(p).peer)
  /\ step' = [step EXCEPT ![p] = @ + 1]
  /\ UNCHANGED status

\* The receive that completes an opening goes on to the reconstruction; an error in
\* it ends the protocol.
ReceiveAny(p) ==
  /\ Running(p)
  /\ Operation(p).do = "recv_any"
  /\ \E s \in Party : Receive(p, s)
  /\ IF Fails(p, taken'[p])
       THEN status' = [status EXCEPT ![p] = "failed"] /\ UNCHANGED step
       ELSE step' = [step EXCEPT ![p] = @ + 1] /\ UNCHANGED status

\* The protocol returns, what it collected is dropped, and the next one is called.
NextCall(p) ==
  /\ Returning(p)
  /\ call' = [call EXCEPT ![p] = @ + 1]
  /\ step' = [step EXCEPT ![p] = 1]
  /\ taken' = [taken EXCEPT ![p] = <<>>]
  /\ UNCHANGED <<session, sent, received, status>>

Ended == (\A p \in Party : ~InCall(p)) /\ UNCHANGED vars

Init ==
  /\ session \in Sessions
  /\ call = [p \in Party |-> 1]
  /\ step = [p \in Party |-> 1]
  /\ sent = [l \in Link |-> <<>>]
  /\ received = [l \in Link |-> 0]
  /\ taken = [p \in Party |-> <<>>]
  /\ status = [p \in Party |-> "running"]

PartyStep(p) == SendPacket(p) \/ ReceiveFrom(p) \/ ReceiveAny(p) \/ NextCall(p)

Next == (\E p \in Party : PartyStep(p)) \/ Ended

Spec == Init /\ [][Next]_vars

\* A party whose next operation can go through performs it: sends do not block, and
\* both backends wake a receive when its packet arrives.
FairSpec == Spec /\ \A p \in Party : WF_vars(PartyStep(p))

-----------------------------------------------------------------------------
(***************************************************************************)
(* Properties.                                                             *)
(***************************************************************************)
Packet == [call : Nat, item : {"share", "secret", "share_t", "share_2t"}]

TypeOK ==
  /\ session \in Seq(Call)
  /\ call \in [Party -> Nat \ {0}]
  /\ step \in [Party -> Nat \ {0}]
  /\ sent \in [Link -> Seq(Packet)]
  /\ received \in [Link -> Nat]
  /\ \A l \in Link : received[l] <= Len(sent[l])
  /\ taken \in [Party -> Seq([sender : Party, packet : Packet, awaited : Packet])]
  /\ status \in [Party -> {"running", "failed"}]

\* Packets carry no identity, so protocols rely on the order of each link alone: every
\* receive of every protocol returns the very item it waits for, of the very call it
\* belongs to.
RightPacket ==
  \A p \in Party : \A i \in 1..Len(taken[p]) : taken[p][i].packet = taken[p][i].awaited

\* open.rs:22-23 and 95-96: "each party consumes precisely one share from every other
\* party".  The receipts of one opening come from different senders, none of them p.
OneShareFromEach ==
  \A p \in Party : \A i, j \in 1..Len(taken[p]) :
    session[call[p]].protocol \in {"Open", "OpenToParty"}
    => taken[p][i].sender # p /\ (taken[p][i].sender = taken[p][j].sender => i = j)

\* open.rs:23: "leaving nothing queued in the network", for every protocol: when all
\* the parties have run the session, every packet has been received.
NothingQueued ==
  (\A p \in Party : Done(p)) => \A l \in Link : ~HasPacket(l)

\* Who learns a value learns it from everybody: nobody leaves a randomness generation
\* or an opening by all, and no receiver leaves its opening, before every party has
\* sent its contribution (a king contributes by reconstructing).
EveryoneContributes ==
  \A p \in Party, k \in 1..Len(session) :
    /\ call[p] > k
    /\ \/ session[k].protocol \in {"Open", "OpenToKing", "RandShr", "RandDoubleShr"}
       \/ session[k] = [protocol |-> "OpenToParty", who |-> p]
    => \A q \in Party \ {p} : \E r \in Party : \E i \in 1..Len(sent[<<q, r>>]) :
         /\ sent[<<q, r>>][i].call = k
         /\ sent[<<q, r>>][i].item # "secret" \/ q = session[k].who

\* Packets of consecutive calls can be mixed up by an opening, but with Shamir shares
\* the mix-up is always an error (secret_from_shares, NotAllDifferent): an opening that
\* succeeds has used the shares of that very opening.
NoWrongSecret ==
  \A p \in Party : Returning(p) =>
    \A i \in 1..Len(taken[p]) : taken[p][i].packet = taken[p][i].awaited

\* Composed protocols do not deadlock: every party runs its session to the end.
AllFinish == <>(\A p \in Party : Done(p))

=============================================================================
