--------------------------- MODULE ProtocolProofs ---------------------------
(***************************************************************************)
(* Theorems about Protocols, for every set of parties, every order of them *)
(* and every set of sessions.                                              *)
(*                                                                         *)
(* A packet says nothing about the receive it is meant for, so everything  *)
(* rests on what the scripts of two parties have in common.  In a protocol *)
(* that receives from named parties, a party is sent exactly what it       *)
(* awaits, and a link has two items only where the first is the degree-t   *)
(* half of a double sharing.  In an opening every party is sent one share  *)
(* by each other party.  Hence a party that leaves a call has received all *)
(* that was meant for it in that call, and nothing else: by name, or, in   *)
(* an opening, because as many shares as there are other parties came from *)
(* different parties.                                                      *)
(***************************************************************************)
EXTENDS Protocols, FiniteSetTheorems, TLAPS

Item == {"share", "secret", "share_t", "share_2t"}

Op == [do : {"send", "recv_from", "recv_any"}, peer : Party, item : Item]

Has(script, op) == \E i \in 1..Len(script) : script[i] = op

\* Calls of a protocol that receives from any party.
Opening(c) == c.protocol \in {"Open", "OpenToParty"}

\* The parties that receive the shares of an opening.
Collects(p, c) == c.protocol = "Open" \/ c = [protocol |-> "OpenToParty", who |-> p]

\* Two operations on one link: only a double sharing has two, in this order.
Ordered(script) ==
  \A i, j \in 1..Len(script) :
    /\ i < j
    /\ script[i].do = script[j].do /\ script[i].peer = script[j].peer
    /\ script[i].do # "recv_any"
    => script[i].item = "share_t" /\ script[j].item = "share_2t"

\* The order of the packets on a link.
Before(x, y) ==
  \/ x.call < y.call
  \/ x.call = y.call /\ x.item = "share_t" /\ y.item = "share_2t"

PacketOf(k, item) == [call |-> k, item |-> item]

-----------------------------------------------------------------------------
\* p has performed the operation op of call k.
Performed(p, k, op) ==
  \E i \in 1..Len(Script(p, session[k])) :
    /\ k < call[p] \/ (k = call[p] /\ i < step[p])
    /\ Script(p, session[k])[i] = op

OnLink(l, x) == \E n \in 1..Len(sent[l]) : sent[l][n] = x

Taken(l, x) == \E n \in 1..received[l] : sent[l][n] = x

\* A party is in a call of the session, or past its end with nothing in hand.
PlaceInv ==
  \A p \in Party :
    /\ call[p] <= Len(session) + 1
    /\ call[p] > Len(session) => taken[p] = <<>>
    /\ call[p] <= Len(session) => step[p] <= Len(CurrentScript(p)) + 1

SentInOrder ==
  \A l \in Link : \A m, n \in 1..Len(sent[l]) : m < n => Before(sent[l][m], sent[l][n])

\* What is on a link is what the sender's operations have sent.
SentAsPerformed ==
  \A s, p \in Party, x \in Packet :
    OnLink(<<s, p>>, x)
    <=> x.call \in 1..Len(session) /\ Performed(s, x.call, Send(p, x.item))

\* A party that has left a call has taken all that is sent to it in that call.
PastTaken ==
  \A s, p \in Party, k \in 1..Len(session), item \in Item :
    k < call[p] /\ Has(Script(s, session[k]), Send(p, item))
    => Taken(<<s, p>>, PacketOf(k, item))

\* In a call that receives by name, a party has taken what it has awaited.
AsAwaited(p) ==
  /\ \A i \in 1..Len(taken[p]) : taken[p][i].packet = taken[p][i].awaited
  /\ \A s \in Party, x \in Packet :
       x.call >= call[p] =>
         (Taken(<<s, p>>, x)
          <=> x.call = call[p] /\ Performed(p, call[p], RecvFrom(s, x.item)))

NamedInv ==
  \A p \in Party :
    call[p] <= Len(session) /\ ~Opening(session[call[p]]) => AsAwaited(p)

\* In an opening, the receipts are what was taken from each link since the call began,
Receipts(p) ==
  /\ \A i \in 1..Len(taken[p]) :
       /\ taken[p][i].awaited = PacketOf(call[p], "share")
       /\ taken[p][i].packet.call >= call[p]
       /\ Taken(<<taken[p][i].sender, p>>, taken[p][i].packet)
  /\ \A i, j \in 1..Len(taken[p]) :
       i < j /\ taken[p][i].sender = taken[p][j].sender
       => taken[p][i].packet # taken[p][j].packet
  /\ \A s \in Party, x \in Packet :
       Taken(<<s, p>>, x) /\ x.call >= call[p]
       => \E i \in 1..Len(taken[p]) : taken[p][i].sender = s /\ taken[p][i].packet = x

\* one for each receive performed,
Counted(p) ==
  LET before == Len(CurrentScript(p)) - Len(Others(p))
  IN  /\ ~Collects(p, session[call[p]]) => taken[p] = <<>>
      /\ Collects(p, session[call[p]]) /\ status[p] = "running" =>
           /\ step[p] <= before => taken[p] = <<>>
           /\ step[p] > before => Len(taken[p]) = step[p] - 1 - before

\* and a full set of them, unless it failed, came from different parties.
FullSet(p) ==
  status[p] = "running" /\ Len(taken[p]) + 1 = Len(PartyOrder)
  => IsInjective(Senders(p, taken[p]))

OpeningInv ==
  \A p \in Party :
    call[p] <= Len(session) /\ Opening(session[call[p]])
    => Receipts(p) /\ Counted(p) /\ FullSet(p)

ProtocolInv ==
  /\ TypeOK
  /\ PlaceInv
  /\ SentInOrder
  /\ SentAsPerformed
  /\ PastTaken
  /\ NamedInv
  /\ OpeningInv

-----------------------------------------------------------------------------
(***************************************************************************)
(* Scripts.                                                                *)
(***************************************************************************)
\* Removing a party from a list without repetitions leaves the others.
LEMMA WithoutProperties ==
  ASSUME NEW ps \in Seq(Party), IsInjective(ps), ToSet(ps) = Party, NEW p \in Party
  PROVE  /\ Without(ps, p) \in Seq(Party)
         /\ Len(Without(ps, p)) = Len(ps) - 1
         /\ IsInjective(Without(ps, p))
         /\ ToSet(Without(ps, p)) = Party \ {p}
<1> DEFINE at == CHOOSE i \in 1..Len(ps) : ps[i] = p
           rest == Without(ps, p)
<1>1. DOMAIN ps = 1..Len(ps)
  OBVIOUS
<1>2. \E i \in 1..Len(ps) : ps[i] = p
  BY <1>1 DEF ToSet
<1>3. at \in 1..Len(ps) /\ ps[at] = p
  BY <1>2
<1> HIDE DEF at
<1>4. rest = SubSeq(ps, 1, at - 1) \o SubSeq(ps, at + 1, Len(ps))
  BY DEF Without, RemoveAt, at
<1> HIDE DEF rest
<1> DEFINE front == SubSeq(ps, 1, at - 1)
           back == SubSeq(ps, at + 1, Len(ps))
<1>a. front \in Seq(Party) /\ Len(front) = at - 1 /\ \A j \in 1..at - 1 : front[j] = ps[j]
  BY <1>3
<1>b. /\ back \in Seq(Party) /\ Len(back) = Len(ps) - at
      /\ \A j \in 1..Len(ps) - at : back[j] = ps[at + j]
  BY <1>3
<1> HIDE DEF front, back
<1>c. rest = front \o back
  BY <1>4 DEF front, back
<1>5. rest \in Seq(Party) /\ Len(rest) = Len(ps) - 1
  BY <1>3, <1>a, <1>b, <1>c
<1>6. \A j \in 1..Len(ps) - 1 : rest[j] = IF j < at THEN ps[j] ELSE ps[j + 1]
  <2> TAKE j \in 1..Len(ps) - 1
  <2>1. CASE j < at
    <3>1. j \in 1..Len(front)
      BY <2>1, <1>a, <1>3
    <3> QED
      BY <3>1, <2>1, <1>a, <1>b, <1>c
  <2>2. CASE ~(j < at)
    <3>1. j - Len(front) \in 1..Len(back) /\ Len(front) + (j - Len(front)) = j
      BY <2>2, <1>a, <1>b, <1>3
    <3>2. rest[j] = back[j - Len(front)]
      BY <3>1, <1>a, <1>b, <1>c
    <3>3. at + (j - Len(front)) = j + 1
      BY <1>a, <1>3
    <3> QED
      BY <2>2, <3>1, <3>2, <3>3, <1>a, <1>b
  <2> QED
    BY <2>1, <2>2
<1>7. DOMAIN rest = 1..Len(ps) - 1
  BY <1>5
<1>8. \A a, b \in 1..Len(ps) : ps[a] = ps[b] => a = b
  BY <1>1 DEF IsInjective
<1>9. IsInjective(rest)
  <2> SUFFICES ASSUME NEW a \in 1..Len(ps) - 1, NEW b \in 1..Len(ps) - 1,
                      rest[a] = rest[b]
               PROVE  a = b
    BY <1>7 DEF IsInjective
  <2> QED
    BY <1>3, <1>6, <1>8
<1>10. \A j \in 1..Len(ps) - 1 : rest[j] \in Party \ {p}
  <2> TAKE j \in 1..Len(ps) - 1
  <2>1. rest[j] \in Party
    BY <1>5
  <2>2. rest[j] # ps[at]
    BY <1>3, <1>6, <1>8
  <2> QED
    BY <2>1, <2>2, <1>3
<1>11. ASSUME NEW q \in Party, q # p
       PROVE  \E j \in 1..Len(ps) - 1 : rest[j] = q
  <2>1. PICK i \in 1..Len(ps) : ps[i] = q
    BY <1>1 DEF ToSet
  <2>2. i # at
    BY <2>1, <1>3, <1>11
  <2>3. CASE i < at
    <3>1. i \in 1..Len(ps) - 1
      BY <2>3, <1>3
    <3> QED
      BY <3>1, <1>6, <2>1, <2>3
  <2>4. CASE i > at
    <3>1. i - 1 \in 1..Len(ps) - 1 /\ ~(i - 1 < at) /\ (i - 1) + 1 = i
      BY <2>4, <1>3
    <3> QED
      BY <3>1, <1>6, <2>1
  <2> QED
    BY <2>2, <2>3, <2>4, <1>3
<1>12. ToSet(rest) = Party \ {p}
  BY <1>7, <1>10, <1>11 DEF ToSet
<1> QED
  BY <1>5, <1>9, <1>12 DEF rest

\* The lists that the scripts go through.
LEMMA ListsOfParties ==
  /\ PartyOrder \in Seq(Party) /\ IsInjective(PartyOrder) /\ ToSet(PartyOrder) = Party
  /\ Sorted \in Seq(Party) /\ IsInjective(Sorted) /\ ToSet(Sorted) = Party
<1>1. Party \subseteq Nat /\ Sorted \in Seq(Party)
  BY SessionAssumption
<1>2. IsInjective(Sorted)
  <2> SUFFICES ASSUME NEW a \in 1..Len(Sorted), NEW b \in 1..Len(Sorted),
                      Sorted[a] = Sorted[b]
               PROVE  a = b
    BY <1>1 DEF IsInjective
  <2>1. Sorted[a] \in Party /\ Sorted[b] \in Party
    BY <1>1
  <2>a. Sorted[a] \in Nat /\ Sorted[b] \in Nat
    BY <1>1, <2>1
  <2>2. ~(a < b) /\ ~(b < a)
    BY <2>a, SessionAssumption
  <2> QED
    BY <2>2
<1> QED
  BY <1>2, SessionAssumption

LEMMA HasConcat ==
  ASSUME NEW a \in Seq(Op), NEW b \in Seq(Op), NEW op
  PROVE  Has(a \o b, op) <=> Has(a, op) \/ Has(b, op)
<1>1. /\ Len(a \o b) = Len(a) + Len(b)
      /\ \A i \in 1..Len(a) : (a \o b)[i] = a[i]
      /\ \A i \in 1..Len(b) : (a \o b)[Len(a) + i] = b[i]
  OBVIOUS
<1>2. ASSUME Has(a \o b, op) PROVE Has(a, op) \/ Has(b, op)
  <2>1. PICK i \in 1..Len(a) + Len(b) : (a \o b)[i] = op
    BY <1>1, <1>2 DEF Has
  <2>2. CASE i <= Len(a)
    BY <1>1, <2>1, <2>2 DEF Has
  <2>3. CASE i > Len(a)
    <3>1. i - Len(a) \in 1..Len(b) /\ Len(a) + (i - Len(a)) = i
      BY <2>3
    <3> QED
      BY <1>1, <2>1, <3>1 DEF Has
  <2> QED
    BY <2>2, <2>3
<1>3. ASSUME Has(a, op) PROVE Has(a \o b, op)
  <2>1. PICK i \in 1..Len(a) : a[i] = op
    BY <1>3 DEF Has
  <2>2. i \in 1..Len(a \o b)
    BY <1>1
  <2> QED
    BY <1>1, <2>1, <2>2 DEF Has
<1>4. ASSUME Has(b, op) PROVE Has(a \o b, op)
  <2>1. PICK i \in 1..Len(b) : b[i] = op
    BY <1>4 DEF Has
  <2>2. Len(a) + i \in 1..Len(a \o b)
    BY <1>1
  <2> QED
    BY <1>1, <2>1, <2>2 DEF Has
<1> QED
  BY <1>2, <1>3, <1>4

\* Two ordered parts make an ordered script when what they have on a common link is.
LEMMA OrderedConcat ==
  ASSUME NEW a \in Seq(Op), NEW b \in Seq(Op), Ordered(a), Ordered(b),
         ASSUME NEW x \in Op, NEW y \in Op, Has(a, x), Has(b, y),
                x.do = y.do, x.peer = y.peer, x.do # "recv_any"
         PROVE  x.item = "share_t" /\ y.item = "share_2t"
  PROVE  Ordered(a \o b)
<1>1. /\ Len(a \o b) = Len(a) + Len(b)
      /\ \A i \in 1..Len(a) : (a \o b)[i] = a[i]
      /\ \A i \in 1..Len(b) : (a \o b)[Len(a) + i] = b[i]
  OBVIOUS
<1> SUFFICES ASSUME NEW i \in 1..Len(a) + Len(b), NEW j \in 1..Len(a) + Len(b),
                    i < j,
                    (a \o b)[i].do = (a \o b)[j].do,
                    (a \o b)[i].peer = (a \o b)[j].peer,
                    (a \o b)[i].do # "recv_any"
             PROVE  (a \o b)[i].item = "share_t" /\ (a \o b)[j].item = "share_2t"
  BY <1>1 DEF Ordered
<1>2. CASE j <= Len(a)
  <2>1. i \in 1..Len(a) /\ j \in 1..Len(a)
    BY <1>2
  <2> QED
    BY <1>1, <2>1 DEF Ordered
<1>3. CASE i > Len(a)
  <2>1. i - Len(a) \in 1..Len(b) /\ Len(a) + (i - Len(a)) = i
    BY <1>3
  <2>2. j - Len(a) \in 1..Len(b) /\ Len(a) + (j - Len(a)) = j /\ i - Len(a) < j - Len(a)
    BY <1>3
  <2>3. (a \o b)[i] = b[i - Len(a)] /\ (a \o b)[j] = b[j - Len(a)]
    BY <1>1, <2>1, <2>2
  <2> QED
    BY <2>1, <2>2, <2>3 DEF Ordered
<1>4. CASE i <= Len(a) /\ j > Len(a)
  <2>1. i \in 1..Len(a) /\ j - Len(a) \in 1..Len(b) /\ Len(a) + (j - Len(a)) = j
    BY <1>4
  <2>2. (a \o b)[i] = a[i] /\ (a \o b)[j] = b[j - Len(a)]
    BY <1>1, <2>1
  <2>3. a[i] \in Op /\ b[j - Len(a)] \in Op
    BY <2>1
  <2>4. Has(a, a[i]) /\ Has(b, b[j - Len(a)])
    BY <2>1 DEF Has
  <2> QED
    BY <2>2, <2>3, <2>4
<1> QED
  BY <1>2, <1>3, <1>4

LEMMA NoOps == <<>> \in Seq(Op) /\ Ordered(<<>>) /\ \A op : ~Has(<<>>, op)
<1>1. <<>> \in Seq(Op) /\ Len(<<>>) = 0
  OBVIOUS
<1> QED
  BY <1>1 DEF Ordered, Has

LEMMA OneOp ==
  ASSUME NEW op \in Op
  PROVE  /\ <<op>> \in Seq(Op) /\ Len(<<op>>) = 1
         /\ Ordered(<<op>>)
         /\ \A x : Has(<<op>>, x) <=> x = op
<1>1. <<op>> \in Seq(Op) /\ Len(<<op>>) = 1 /\ <<op>>[1] = op
  OBVIOUS
<1>2. Ordered(<<op>>)
  BY <1>1 DEF Ordered
<1>3. \A x : Has(<<op>>, x) <=> x = op
  BY <1>1 DEF Has
<1> QED
  BY <1>1, <1>2, <1>3

LEMMA SendsToEach ==
  ASSUME NEW ps \in Seq(Party), IsInjective(ps), NEW item \in Item
  PROVE  /\ SendToEach(ps, item) \in Seq(Op) /\ Len(SendToEach(ps, item)) = Len(ps)
         /\ Ordered(SendToEach(ps, item))
         /\ \A x : Has(SendToEach(ps, item), x) <=> \E q \in ToSet(ps) : x = Send(q, item)
<1> DEFINE script == SendToEach(ps, item)
<1>1. DOMAIN ps = 1..Len(ps) /\ \A i \in 1..Len(ps) : ps[i] \in Party
  OBVIOUS
<1>2. \A i \in 1..Len(ps) : script[i] = Send(ps[i], item)
  BY DEF SendToEach
<1>3. \A q \in Party : Send(q, item) \in Op
  BY DEF Send, Op
<1>4. script \in Seq(Op) /\ Len(script) = Len(ps)
  BY <1>1, <1>3 DEF SendToEach
<1>5. \A a, b \in 1..Len(ps) : ps[a] = ps[b] => a = b
  BY <1>1 DEF IsInjective
<1> HIDE DEF script
<1>6. \A i \in 1..Len(ps) : script[i].peer = ps[i]
  <2> TAKE i \in 1..Len(ps)
  <2>1. script[i] = Send(ps[i], item)
    BY <1>2
  <2>2. Send(ps[i], item).peer = ps[i]
    BY DEF Send
  <2> QED
    BY <2>1, <2>2
<1>7. Ordered(script)
  BY <1>4, <1>5, <1>6 DEF Ordered
<1>8. \A x : Has(script, x) <=> \E q \in ToSet(ps) : x = Send(q, item)
  BY <1>1, <1>2, <1>4 DEF Has, ToSet
<1> QED
  BY <1>4, <1>7, <1>8 DEF script

LEMMA ReceivesFromEach ==
  ASSUME NEW ps \in Seq(Party), IsInjective(ps), NEW item \in Item
  PROVE  /\ RecvFromEach(ps, item) \in Seq(Op) /\ Len(RecvFromEach(ps, item)) = Len(ps)
         /\ Ordered(RecvFromEach(ps, item))
         /\ \A x : Has(RecvFromEach(ps, item), x)
                   <=> \E q \in ToSet(ps) : x = RecvFrom(q, item)
<1> DEFINE script == RecvFromEach(ps, item)
<1>1. DOMAIN ps = 1..Len(ps) /\ \A i \in 1..Len(ps) : ps[i] \in Party
  OBVIOUS
<1>2. \A i \in 1..Len(ps) : script[i] = RecvFrom(ps[i], item)
  BY DEF RecvFromEach
<1>3. \A q \in Party : RecvFrom(q, item) \in Op
  BY DEF RecvFrom, Op
<1>4. script \in Seq(Op) /\ Len(script) = Len(ps)
  BY <1>1, <1>3 DEF RecvFromEach
<1>5. \A a, b \in 1..Len(ps) : ps[a] = ps[b] => a = b
  BY <1>1 DEF IsInjective
<1> HIDE DEF script
<1>6. \A i \in 1..Len(ps) : script[i].peer = ps[i]
  <2> TAKE i \in 1..Len(ps)
  <2>1. script[i] = RecvFrom(ps[i], item)
    BY <1>2
  <2>2. RecvFrom(ps[i], item).peer = ps[i]
    BY DEF RecvFrom
  <2> QED
    BY <2>1, <2>2
<1>7. Ordered(script)
  BY <1>4, <1>5, <1>6 DEF Ordered
<1>8. \A x : Has(script, x) <=> \E q \in ToSet(ps) : x = RecvFrom(q, item)
  BY <1>1, <1>2, <1>4 DEF Has, ToSet
<1> QED
  BY <1>4, <1>7, <1>8 DEF script

LEMMA OthersList ==
  ASSUME NEW p \in Party
  PROVE  /\ Others(p) \in Seq(Party) /\ IsInjective(Others(p))
         /\ ToSet(Others(p)) = Party \ {p}
         /\ Len(Others(p)) = Len(PartyOrder) - 1 /\ Len(Others(p)) \in Nat
<1>1. /\ Others(p) \in Seq(Party) /\ IsInjective(Others(p))
      /\ ToSet(Others(p)) = Party \ {p}
      /\ Len(Others(p)) = Len(PartyOrder) - 1
  BY WithoutProperties, ListsOfParties DEF Others
<1> QED
  BY <1>1

LEMMA CollectsAny ==
  ASSUME NEW p \in Party
  PROVE  /\ CollectAny(p) \in Seq(Op) /\ Len(CollectAny(p)) = Len(Others(p))
         /\ \A i \in 1..Len(Others(p)) : CollectAny(p)[i] = RecvAny(p, "share")
         /\ Ordered(CollectAny(p))
         /\ \A x : Has(CollectAny(p), x) => x = RecvAny(p, "share")
<1> DEFINE script == CollectAny(p)
<1>1. Len(Others(p)) \in Nat
  BY OthersList
<1>2. RecvAny(p, "share") \in Op
  BY DEF RecvAny, Op, Item
<1>3. /\ script \in Seq(Op) /\ Len(script) = Len(Others(p))
      /\ \A i \in 1..Len(Others(p)) : script[i] = RecvAny(p, "share")
  BY <1>1, <1>2 DEF CollectAny
<1> HIDE DEF script
<1>4. \A i \in 1..Len(Others(p)) : script[i].do = "recv_any"
  BY <1>3 DEF RecvAny
<1>5. Ordered(script)
  BY <1>3, <1>4 DEF Ordered
<1>6. \A x : Has(script, x) => x = RecvAny(p, "share")
  BY <1>3 DEF Has
<1> QED
  BY <1>3, <1>5, <1>6 DEF script

\* PassiveDealShr: the dealer sends to everyone, everyone awaits the dealer.
LEMMA DealScript ==
  ASSUME NEW p \in Party, NEW dealer \in Party, NEW item \in Item
  PROVE  /\ Deal(p, dealer, item) \in Seq(Op) /\ Ordered(Deal(p, dealer, item))
         /\ \A x : Has(Deal(p, dealer, item), x)
                   <=> \/ p = dealer /\ \E q \in Party : x = Send(q, item)
                       \/ x = RecvFrom(dealer, item)
<1> DEFINE deals == IF p = dealer THEN SendToEach(PartyOrder, item) ELSE <<>>
           awaits == <<RecvFrom(dealer, item)>>
<1>1. /\ deals \in Seq(Op) /\ Ordered(deals)
      /\ \A x : Has(deals, x) <=> p = dealer /\ \E q \in Party : x = Send(q, item)
  BY NoOps, SendsToEach, ListsOfParties
<1>2. RecvFrom(dealer, item) \in Op
  BY DEF RecvFrom, Op
<1>3. /\ awaits \in Seq(Op) /\ Ordered(awaits)
      /\ \A x : Has(awaits, x) <=> x = RecvFrom(dealer, item)
  BY <1>2, OneOp
<1>4. \A x, y : Has(deals, x) /\ Has(awaits, y) => x.do # y.do
  BY <1>1, <1>3 DEF Send, RecvFrom
<1>5. Deal(p, dealer, item) = deals \o awaits
  BY DEF Deal
<1> HIDE DEF deals, awaits
<1>6. deals \o awaits \in Seq(Op)
  BY <1>1, <1>3
<1>7. Ordered(deals \o awaits)
  BY <1>1, <1>3, <1>4, OrderedConcat
<1> QED
  BY <1>1, <1>3, <1>5, <1>6, <1>7, HasConcat

\* PassiveOpenShr: a share to each other party, then as many receives from any.
LEMMA OpenScript ==
  ASSUME NEW p \in Party
  PROVE  /\ Open(p) \in Seq(Op) /\ Ordered(Open(p))
         /\ Len(Open(p)) = Len(Others(p)) + Len(Others(p))
         /\ \A i \in 1..Len(Others(p)) : Open(p)[i].do = "send"
         /\ \A i \in 1..Len(Others(p)) :
              Open(p)[Len(Others(p)) + i] = RecvAny(p, "share")
         /\ \A x : Has(Open(p), x) =>
              \/ \E q \in Party \ {p} : x = Send(q, "share")
              \/ x = RecvAny(p, "share")
         /\ \A q \in Party \ {p} : Has(Open(p), Send(q, "share"))
<1> DEFINE sends == SendToEach(Others(p), "share")
           collects == CollectAny(p)
<1>0. "share" \in Item
  BY DEF Item
<1>1. /\ sends \in Seq(Op) /\ Ordered(sends) /\ Len(sends) = Len(Others(p))
      /\ \A x : Has(sends, x) <=> \E q \in Party \ {p} : x = Send(q, "share")
  BY <1>0, SendsToEach, OthersList
<1>2. /\ collects \in Seq(Op) /\ Ordered(collects) /\ Len(collects) = Len(Others(p))
      /\ \A i \in 1..Len(Others(p)) : collects[i] = RecvAny(p, "share")
      /\ \A x : Has(collects, x) => x = RecvAny(p, "share")
  BY CollectsAny
<1>3. \A x, y : Has(sends, x) /\ Has(collects, y) => x.do # y.do
  BY <1>1, <1>2 DEF Send, RecvAny
<1>4. Open(p) = sends \o collects
  BY DEF Open
<1>5. \A i \in 1..Len(Others(p)) : sends[i].do = "send"
  BY DEF SendToEach, Send
<1>6. Len(Others(p)) \in Nat
  BY OthersList
<1> HIDE DEF sends, collects
<1>7. /\ Open(p) \in Seq(Op) /\ Len(Open(p)) = Len(Others(p)) + Len(Others(p))
      /\ \A i \in 1..Len(Others(p)) : Open(p)[i] = sends[i]
      /\ \A i \in 1..Len(Others(p)) : Open(p)[Len(Others(p)) + i] = collects[i]
  <2>1. PICK n \in Nat : Len(Others(p)) = n
    BY <1>6
  <2>2. sends \in Seq(Op) /\ Len(sends) = n /\ collects \in Seq(Op) /\ Len(collects) = n
    BY <1>1, <1>2, <2>1
  <2>3. /\ sends \o collects \in Seq(Op) /\ Len(sends \o collects) = n + n
        /\ \A i \in 1..n : (sends \o collects)[i] = sends[i]
        /\ \A i \in 1..n : (sends \o collects)[n + i] = collects[i]
    BY <2>2
  <2> QED
    BY <1>4, <2>1, <2>3
<1>8. Ordered(Open(p))
  BY <1>1, <1>2, <1>3, <1>4, OrderedConcat
<1>9. \A x : Has(Open(p), x) <=> Has(sends, x) \/ Has(collects, x)
  BY <1>1, <1>2, <1>4, HasConcat
<1> QED
  BY <1>1, <1>2, <1>5, <1>7, <1>8, <1>9

\* PassiveOpenToParty: the others send one share, the receiver collects.
LEMMA OpenToPartyScript ==
  ASSUME NEW p \in Party, NEW receiver \in Party
  PROVE  /\ OpenToParty(p, receiver) \in Seq(Op) /\ Ordered(OpenToParty(p, receiver))
         /\ p = receiver => OpenToParty(p, receiver) = CollectAny(p)
         /\ p # receiver =>
              \A x : Has(OpenToParty(p, receiver), x) <=> x = Send(receiver, "share")
<1>1. CASE p = receiver
  BY <1>1, CollectsAny DEF OpenToParty
<1>2. CASE p # receiver
  <2>1. Send(receiver, "share") \in Op
    BY DEF Send, Op, Item
  <2> QED
    BY <1>2, <2>1, OneOp DEF OpenToParty
<1> QED
  BY <1>1, <1>2

\* PassiveOpenToKing: the king collects by name and then answers; the others send
\* their share and wait.
LEMMA OpenToKingScript ==
  ASSUME NEW p \in Party, NEW king \in Party
  PROVE  /\ OpenToKing(p, king) \in Seq(Op) /\ Ordered(OpenToKing(p, king))
         /\ p = king =>
              /\ \A x : Has(OpenToKing(p, king), x) <=>
                   \/ \E q \in Party \ {p} : x = RecvFrom(q, "share")
                   \/ \E q \in Party \ {p} : x = Send(q, "secret")
              /\ \A i, j \in 1..Len(OpenToKing(p, king)) :
                   /\ OpenToKing(p, king)[i].do = "send"
                   /\ OpenToKing(p, king)[j].do = "recv_from"
                   => j < i
         /\ p # king =>
              \A x : Has(OpenToKing(p, king), x)
                     <=> x = Send(king, "share") \/ x = RecvFrom(king, "secret")
<1>0. "share" \in Item /\ "secret" \in Item
  BY DEF Item
<1>1. CASE p = king
  <2> DEFINE collects == RecvFromEach(Others(p), "share")
             answers == SendToEach(Others(p), "secret")
  <2>1. /\ collects \in Seq(Op) /\ Ordered(collects) /\ Len(collects) = Len(Others(p))
        /\ \A x : Has(collects, x) <=> \E q \in Party \ {p} : x = RecvFrom(q, "share")
    BY <1>0, ReceivesFromEach, OthersList
  <2>2. /\ answers \in Seq(Op) /\ Ordered(answers) /\ Len(answers) = Len(Others(p))
        /\ \A x : Has(answers, x) <=> \E q \in Party \ {p} : x = Send(q, "secret")
    BY <1>0, SendsToEach, OthersList
  <2>3. \A x, y : Has(collects, x) /\ Has(answers, y) => x.do # y.do
    BY <2>1, <2>2 DEF Send, RecvFrom
  <2>4. OpenToKing(p, king) = collects \o answers
    BY <1>1 DEF OpenToKing
  <2>5. \A i \in 1..Len(Others(p)) : collects[i].do = "recv_from" /\ answers[i].do = "send"
    BY DEF SendToEach, RecvFromEach, Send, RecvFrom
  <2> HIDE DEF collects, answers
  <2>6. collects \o answers \in Seq(Op)
    BY <2>1, <2>2
  <2>7. Ordered(collects \o answers)
    BY <2>1, <2>2, <2>3, OrderedConcat
  <2>8. \A x : Has(collects \o answers, x) <=> Has(collects, x) \/ Has(answers, x)
    BY <2>1, <2>2, HasConcat
  <2>9. PICK n \in Nat : Len(Others(p)) = n
    BY OthersList
  <2>10. /\ Len(collects \o answers) = n + n
         /\ \A i \in 1..n : (collects \o answers)[i] = collects[i]
         /\ \A i \in 1..n : (collects \o answers)[n + i] = answers[i]
    BY <2>1, <2>2, <2>9
  <2>11. ASSUME NEW i \in 1..n + n, NEW j \in 1..n + n,
                (collects \o answers)[i].do = "send",
                (collects \o answers)[j].do = "recv_from"
         PROVE  j < i
    <3>1. ~(i <= n)
      BY <2>5, <2>9, <2>10, <2>11
    <3>2. ~(j > n)
      <4> SUFFICES ASSUME j > n PROVE FALSE
        OBVIOUS
      <4>1. j - n \in 1..n /\ n + (j - n) = j
        OBVIOUS
      <4>2. (collects \o answers)[j] = answers[j - n] /\ answers[j - n].do = "send"
        BY <4>1, <2>5, <2>9, <2>10
      <4> QED
        BY <4>2, <2>11
    <3> QED
      BY <3>1, <3>2
  <2>12. \A x : Has(collects \o answers, x) <=>
           \/ \E q \in Party \ {p} : x = RecvFrom(q, "share")
           \/ \E q \in Party \ {p} : x = Send(q, "secret")
    BY <2>1, <2>2, <2>8
  <2> QED
    BY <1>1, <2>4, <2>6, <2>7, <2>10, <2>11, <2>12
<1>2. CASE p # king
  <2> DEFINE a == <<Send(king, "share")>>
             b == <<RecvFrom(king, "secret")>>
  <2>1. Send(king, "share") \in Op /\ RecvFrom(king, "secret") \in Op
    BY DEF Send, RecvFrom, Op, Item
  <2>2. /\ a \in Seq(Op) /\ Ordered(a) /\ \A x : Has(a, x) <=> x = Send(king, "share")
        /\ b \in Seq(Op) /\ Ordered(b) /\ \A x : Has(b, x) <=> x = RecvFrom(king, "secret")
    BY <2>1, OneOp
  <2>3. \A x, y : Has(a, x) /\ Has(b, y) => x.do # y.do
    BY <2>2 DEF Send, RecvFrom
  <2>4. OpenToKing(p, king) = a \o b
    BY <1>2 DEF OpenToKing
  <2> HIDE DEF a, b
  <2>5. a \o b \in Seq(Op)
    BY <2>2
  <2>6. Ordered(a \o b)
    BY <2>2, <2>3, OrderedConcat
  <2> QED
    BY <1>2, <2>2, <2>4, <2>5, <2>6, HasConcat
<1> QED
  BY <1>1, <1>2

\* One round of DN07 randomness: everyone sends to everyone and awaits everyone.
LEMMA DealAndCollectScript ==
  ASSUME NEW p \in Party, NEW item \in Item
  PROVE  /\ DealAndCollect(p, item) \in Seq(Op) /\ Ordered(DealAndCollect(p, item))
         /\ \A x : Has(DealAndCollect(p, item), x) <=>
              \/ \E q \in Party : x = Send(q, item)
              \/ \E q \in Party : x = RecvFrom(q, item)
<1> DEFINE deals == SendToEach(Sorted, item)
           own == <<RecvFrom(p, item)>>
           rest == RecvFromEach(Without(Sorted, p), item)
<1>1. /\ deals \in Seq(Op) /\ Ordered(deals)
      /\ \A x : Has(deals, x) <=> \E q \in Party : x = Send(q, item)
  BY SendsToEach, ListsOfParties
<1>2. RecvFrom(p, item) \in Op
  BY DEF RecvFrom, Op
<1>3. own \in Seq(Op) /\ Ordered(own) /\ \A x : Has(own, x) <=> x = RecvFrom(p, item)
  BY <1>2, OneOp
<1>4. /\ Without(Sorted, p) \in Seq(Party) /\ IsInjective(Without(Sorted, p))
      /\ ToSet(Without(Sorted, p)) = Party \ {p}
  BY WithoutProperties, ListsOfParties
<1>5. /\ rest \in Seq(Op) /\ Ordered(rest)
      /\ \A x : Has(rest, x) <=> \E q \in Party \ {p} : x = RecvFrom(q, item)
  BY <1>4, ReceivesFromEach
<1>6. DealAndCollect(p, item) = deals \o own \o rest
  BY DEF DealAndCollect
<1>7. \A x, y : Has(deals, x) /\ Has(own, y) => x.do # y.do
  BY <1>1, <1>3 DEF Send, RecvFrom
<1> HIDE DEF deals, own, rest
<1>8. deals \o own \in Seq(Op)
  BY <1>1, <1>3
<1>9. Ordered(deals \o own)
  BY <1>1, <1>3, <1>7, OrderedConcat
<1>10. \A x : Has(deals \o own, x) <=> Has(deals, x) \/ Has(own, x)
  BY <1>1, <1>3, HasConcat
<1>11. \A x, y : Has(deals \o own, x) /\ Has(rest, y) => x.do # y.do \/ x.peer # y.peer
  <2>1. \A x, y : Has(deals, x) /\ Has(rest, y) => x.do # y.do
    BY <1>1, <1>5 DEF Send, RecvFrom
  <2>2. \A x, y : Has(own, x) /\ Has(rest, y) => x.peer # y.peer
    BY <1>3, <1>5 DEF RecvFrom
  <2> QED
    BY <1>10, <2>1, <2>2
<1>12. (deals \o own) \o rest \in Seq(Op)
  BY <1>5, <1>8
<1>13. Ordered((deals \o own) \o rest)
  BY <1>5, <1>8, <1>9, <1>11, OrderedConcat
<1>14. \A x : Has((deals \o own) \o rest, x) <=> Has(deals \o own, x) \/ Has(rest, x)
  BY <1>5, <1>8, HasConcat
<1> QED
  BY <1>1, <1>3, <1>5, <1>6, <1>10, <1>12, <1>13, <1>14

\* PassiveRandDoubleShr: on every link, the degree-t half first.
LEMMA RandDoubleShrScript ==
  ASSUME NEW p \in Party
  PROVE  /\ RandDoubleShr(p) \in Seq(Op) /\ Ordered(RandDoubleShr(p))
         /\ \A x : Has(RandDoubleShr(p), x) <=>
              \E item \in {"share_t", "share_2t"} :
                \/ \E q \in Party : x = Send(q, item)
                \/ \E q \in Party : x = RecvFrom(q, item)
<1> DEFINE a == DealAndCollect(p, "share_t")
           b == DealAndCollect(p, "share_2t")
<1>1. /\ a \in Seq(Op) /\ Ordered(a)
      /\ \A x : Has(a, x) <=> \/ \E q \in Party : x = Send(q, "share_t")
                              \/ \E q \in Party : x = RecvFrom(q, "share_t")
  BY DealAndCollectScript DEF Item
<1>2. /\ b \in Seq(Op) /\ Ordered(b)
      /\ \A x : Has(b, x) <=> \/ \E q \in Party : x = Send(q, "share_2t")
                              \/ \E q \in Party : x = RecvFrom(q, "share_2t")
  BY DealAndCollectScript DEF Item
<1>3. RandDoubleShr(p) = a \o b
  BY DEF RandDoubleShr
<1> HIDE DEF a, b
<1>4. a \o b \in Seq(Op)
  BY <1>1, <1>2
<1>5. \A x : Has(a, x) => x.item = "share_t"
  BY <1>1 DEF Send, RecvFrom
<1>6. \A x : Has(b, x) => x.item = "share_2t"
  BY <1>2 DEF Send, RecvFrom
<1>7. Ordered(a \o b)
  BY <1>1, <1>2, <1>5, <1>6, OrderedConcat
<1>8. \A x : Has(a \o b, x) <=> Has(a, x) \/ Has(b, x)
  BY <1>1, <1>2, HasConcat
<1> QED
  BY <1>1, <1>2, <1>3, <1>4, <1>7, <1>8

LEMMA ScriptOps ==
  ASSUME NEW p \in Party, NEW c \in Call
  PROVE  Script(p, c) \in Seq(Op) /\ Ordered(Script(p, c))
<1>0. c.who \in Party /\ c.protocol \in Protocol
  BY DEF Call
<1>1. CASE c.protocol = "Deal"
  BY <1>0, <1>1, DealScript DEF Script, Item
<1>2. CASE c.protocol = "Open"
  BY <1>2, OpenScript DEF Script
<1>3. CASE c.protocol = "OpenToParty"
  BY <1>0, <1>3, OpenToPartyScript DEF Script
<1>4. CASE c.protocol = "OpenToKing"
  BY <1>0, <1>4, OpenToKingScript DEF Script
<1>5. CASE c.protocol = "RandShr"
  BY <1>5, DealAndCollectScript DEF Script, Item
<1>6. CASE c.protocol = "RandDoubleShr"
  BY <1>6, RandDoubleShrScript DEF Script
<1> QED
  BY <1>0, <1>1, <1>2, <1>3, <1>4, <1>5, <1>6 DEF Protocol

\* In a protocol that receives by name, p awaits from s exactly what s sends to p.
LEMMA NamedScripts ==
  ASSUME NEW s \in Party, NEW p \in Party, NEW c \in Call, ~Opening(c)
  PROVE  /\ \A x : Has(Script(p, c), x) => x.do # "recv_any"
         /\ \A item \in Item :
              Has(Script(s, c), Send(p, item)) <=> Has(Script(p, c), RecvFrom(s, item))
<1>0. c.who \in Party /\ c.protocol \in Protocol
  BY DEF Call
<1>d. /\ \A q : Send(q, "x").do = "send"
      /\ \A q1, q2, i1, i2 : Send(q1, i1) = Send(q2, i2) <=> q1 = q2 /\ i1 = i2
      /\ \A q1, q2, i1, i2 : RecvFrom(q1, i1) = RecvFrom(q2, i2) <=> q1 = q2 /\ i1 = i2
      /\ \A q1, q2, i1, i2 : Send(q1, i1) # RecvFrom(q2, i2)
      /\ \A q, i : Send(q, i).do # "recv_any" /\ RecvFrom(q, i).do # "recv_any"
  BY DEF Send, RecvFrom
<1>1. CASE c.protocol = "Deal"
  <2>1. \A q \in Party : Script(q, c) = Deal(q, c.who, "share")
    BY <1>1 DEF Script
  <2>2. \A q \in Party : \A x : Has(Script(q, c), x)
           <=> \/ q = c.who /\ \E r \in Party : x = Send(r, "share")
               \/ x = RecvFrom(c.who, "share")
    <3> TAKE q \in Party
    <3>1. PICK dealer \in Party : dealer = c.who
      BY <1>0
    <3>2. "share" \in Item
      BY DEF Item
    <3>3. \A x : Has(Deal(q, dealer, "share"), x)
           <=> \/ q = dealer /\ \E r \in Party : x = Send(r, "share")
               \/ x = RecvFrom(dealer, "share")
      BY <3>2, DealScript
    <3> QED
      BY <2>1, <3>1, <3>3
  <2> QED
    BY <1>0, <1>d, <2>2
<1>2. CASE c.protocol = "OpenToKing"
  <2>1. \A q \in Party : Script(q, c) = OpenToKing(q, c.who)
    BY <1>2 DEF Script
  <2>2. \A x : Has(Script(c.who, c), x) <=>
                 \/ \E q \in Party \ {c.who} : x = RecvFrom(q, "share")
                 \/ \E q \in Party \ {c.who} : x = Send(q, "secret")
    <3>1. PICK king \in Party : king = c.who
      BY <1>0
    <3>2. \A x : Has(OpenToKing(king, king), x) <=>
                 \/ \E q \in Party \ {king} : x = RecvFrom(q, "share")
                 \/ \E q \in Party \ {king} : x = Send(q, "secret")
      BY OpenToKingScript
    <3> QED
      BY <2>1, <3>1, <3>2
  <2>3. \A q \in Party \ {c.who} : \A x : Has(Script(q, c), x)
                 <=> x = Send(c.who, "share") \/ x = RecvFrom(c.who, "secret")
    BY <1>0, <2>1, OpenToKingScript
  <2> QED
    BY <1>0, <1>d, <2>2, <2>3
<1>3. CASE c.protocol = "RandShr"
  <2>1. \A q \in Party : Script(q, c) = DealAndCollect(q, "share_t")
    BY <1>3 DEF Script
  <2>2. \A q \in Party : \A x : Has(Script(q, c), x) <=>
              \/ \E r \in Party : x = Send(r, "share_t")
              \/ \E r \in Party : x = RecvFrom(r, "share_t")
    BY <2>1, DealAndCollectScript DEF Item
  <2> QED
    BY <1>d, <2>2
<1>4. CASE c.protocol = "RandDoubleShr"
  <2>1. \A q \in Party : Script(q, c) = RandDoubleShr(q)
    BY <1>4 DEF Script
  <2>2. \A q \in Party : \A x : Has(Script(q, c), x) <=>
              \E item \in {"share_t", "share_2t"} :
                \/ \E r \in Party : x = Send(r, item)
                \/ \E r \in Party : x = RecvFrom(r, item)
    BY <2>1, RandDoubleShrScript
  <2> QED
    BY <1>d, <2>2
<1> QED
  BY <1>0, <1>1, <1>2, <1>3, <1>4 DEF Protocol, Opening

\* In an opening, a party that collects is sent one share by each other party, the
\* others are sent nothing.
LEMMA OpeningScripts ==
  ASSUME NEW s \in Party, NEW p \in Party, NEW c \in Call, Opening(c)
  PROVE  /\ \A x : Has(Script(p, c), x) =>
              x.do # "recv_from" /\ (x.do = "recv_any" => Collects(p, c))
         /\ \A item \in Item : Has(Script(s, c), Send(p, item)) =>
              Collects(p, c) /\ s # p /\ item = "share"
         /\ Collects(p, c) /\ s # p => Has(Script(s, c), Send(p, "share"))
<1>0. c.who \in Party /\ c.protocol \in Protocol
  BY DEF Call
<1>d. /\ \A q1, q2, i1, i2 : Send(q1, i1) = Send(q2, i2) <=> q1 = q2 /\ i1 = i2
      /\ \A q1, q2, i1, i2 : Send(q1, i1) # RecvAny(q2, i2)
      /\ \A q, i : Send(q, i).do = "send" /\ RecvAny(q, i).do = "recv_any"
  BY DEF Send, RecvAny
<1>1. CASE c.protocol = "Open"
  <2>1. \A q \in Party : Script(q, c) = Open(q)
    BY <1>1 DEF Script
  <2>2. \A q \in Party : \A x : Has(Script(q, c), x) =>
              \/ \E r \in Party \ {q} : x = Send(r, "share")
              \/ x = RecvAny(q, "share")
    BY <2>1, OpenScript
  <2>3. \A q \in Party : \A r \in Party \ {q} : Has(Script(q, c), Send(r, "share"))
    BY <2>1, OpenScript
  <2>4. Collects(p, c)
    BY <1>1 DEF Collects
  <2>5. \A item \in Item : Has(Script(s, c), Send(p, item)) => s # p /\ item = "share"
    BY <1>d, <2>2
  <2> QED
    BY <1>d, <2>2, <2>3, <2>4, <2>5
<1>2. CASE c.protocol = "OpenToParty"
  <2>1. \A q \in Party : Script(q, c) = OpenToParty(q, c.who)
    BY <1>2 DEF Script
  <2>2. \A x : Has(Script(c.who, c), x) => x = RecvAny(c.who, "share")
    BY <1>0, <2>1, OpenToPartyScript, CollectsAny
  <2>3. \A q \in Party \ {c.who} : \A x :
          Has(Script(q, c), x) <=> x = Send(c.who, "share")
    BY <1>0, <2>1, OpenToPartyScript
  <2>4. Collects(p, c) <=> p = c.who
    BY <1>2 DEF Collects, Call
  <2>5. \A item \in Item : Has(Script(s, c), Send(p, item)) =>
          p = c.who /\ s # p /\ item = "share"
    BY <1>0, <1>d, <2>2, <2>3
  <2> QED
    BY <1>0, <1>d, <2>2, <2>3, <2>4, <2>5
<1> QED
  BY <1>1, <1>2 DEF Opening

\* A party that collects first sends, then receives as often as there are others.
LEMMA CollectorScript ==
  ASSUME NEW p \in Party, NEW c \in Call, Opening(c), Collects(p, c)
  PROVE  \E before \in Nat :
           /\ Len(Script(p, c)) = before + Len(Others(p))
           /\ \A i \in 1..before : Script(p, c)[i].do = "send"
           /\ \A i \in 1..Len(Others(p)) : Script(p, c)[before + i] = RecvAny(p, "share")
<1>0. Len(Others(p)) \in Nat
  BY OthersList
<1>1. CASE c.protocol = "Open"
  <2>1. Script(p, c) = Open(p)
    BY <1>1 DEF Script
  <2>2. WITNESS Len(Others(p)) \in Nat
  <2> QED
    BY <2>1, OpenScript
<1>2. CASE c = [protocol |-> "OpenToParty", who |-> p]
  <2>1. Script(p, c) = OpenToParty(p, p)
    BY <1>2 DEF Script
  <2>2. Script(p, c) = CollectAny(p)
    BY <2>1, OpenToPartyScript
  <2>3. WITNESS 0 \in Nat
  <2>4. \A i \in 1..Len(Others(p)) : 0 + i = i
    BY <1>0
  <2> QED
    BY <1>0, <2>2, <2>4, CollectsAny
<1> QED
  BY <1>1, <1>2 DEF Collects

-----------------------------------------------------------------------------
(***************************************************************************)
(* What the steps do to the operations performed and to the links.         *)
(***************************************************************************)
LEMMA CallType ==
  ASSUME TypeOK, NEW p \in Party, call[p] <= Len(session)
  PROVE  /\ call[p] \in 1..Len(session) /\ session[call[p]] \in Call
         /\ CurrentScript(p) \in Seq(Op) /\ Ordered(CurrentScript(p))
<1>1. call[p] \in Nat \ {0} /\ session \in Seq(Call)
  BY DEF TypeOK
<1>2. call[p] \in 1..Len(session) /\ session[call[p]] \in Call
  BY <1>1
<1> QED
  BY <1>2, ScriptOps DEF CurrentScript

LEMMA OperationType ==
  ASSUME TypeOK, NEW p \in Party, Running(p)
  PROVE  /\ call[p] \in 1..Len(session) /\ session[call[p]] \in Call
         /\ step[p] \in 1..Len(CurrentScript(p)) /\ Operation(p) \in Op
         /\ Has(CurrentScript(p), Operation(p))
         /\ OwnPacket(p) \in Packet /\ OwnPacket(p) = PacketOf(call[p], Operation(p).item)
<1>1. /\ call[p] \in 1..Len(session) /\ session[call[p]] \in Call
      /\ CurrentScript(p) \in Seq(Op)
  BY CallType DEF Running, InCall
<1>2. step[p] \in 1..Len(CurrentScript(p))
  BY <1>1 DEF TypeOK, Running
<1>3. Operation(p) \in Op
  BY <1>1, <1>2 DEF Operation
<1>4. Has(CurrentScript(p), Operation(p))
  BY <1>2 DEF Operation, Has
<1>5. OwnPacket(p) \in Packet
  BY <1>1, <1>3 DEF OwnPacket, Packet, Op, Item
<1> QED
  BY <1>1, <1>2, <1>3, <1>4, <1>5 DEF OwnPacket, PacketOf

LEMMA PerformedFacts ==
  ASSUME TypeOK, NEW p \in Party, NEW k \in 1..Len(session), NEW op
  PROVE  /\ Performed(p, k, op) => Has(Script(p, session[k]), op) /\ k <= call[p]
         /\ k < call[p] => (Performed(p, k, op) <=> Has(Script(p, session[k]), op))
<1>1. call[p] \in Nat /\ k \in Nat
  BY DEF TypeOK
<1> QED
  BY <1>1 DEF Performed, Has

LEMMA ReturningPerformed ==
  ASSUME TypeOK, NEW p \in Party, Returning(p), NEW op
  PROVE  Performed(p, call[p], op) <=> Has(CurrentScript(p), op)
<1>1. CurrentScript(p) \in Seq(Op) /\ step[p] \in Nat
  BY CallType DEF TypeOK, Returning, InCall
<1>2. \A i \in 1..Len(CurrentScript(p)) : i < step[p]
  BY <1>1 DEF Returning
<1>3. call[p] \in Nat
  BY DEF TypeOK
<1> QED
  BY <1>2, <1>3 DEF Performed, Has, CurrentScript

\* A step performs the current operation.
LEMMA StepPerforms ==
  ASSUME TypeOK, NEW p \in Party, Running(p),
         session' = session, call' = call, step' = [step EXCEPT ![p] = @ + 1],
         NEW q \in Party, NEW k \in 1..Len(session), NEW op
  PROVE  Performed(q, k, op)'
         <=> Performed(q, k, op) \/ (q = p /\ k = call[p] /\ op = Operation(p))
<1>1. step \in [Party -> Nat \ {0}] /\ call[q] \in Nat /\ call[p] \in Nat
  BY DEF TypeOK
<1>2. step[p] \in 1..Len(CurrentScript(p))
  BY OperationType
<1>3. CASE q # p
  <2>1. step'[q] = step[q]
    BY <1>1, <1>3
  <2> QED
    BY <1>3, <2>1 DEF Performed
<1>4. CASE q = p
  <2>1. step'[p] = step[p] + 1 /\ step[p] \in Nat
    BY <1>1
  <2>2. CASE k = call[p]
    <3>1. Script(p, session[k]) = CurrentScript(p)
      BY <2>2 DEF CurrentScript
    <3>2. \A i \in 1..Len(CurrentScript(p)) : i < step'[p] <=> i < step[p] \/ i = step[p]
      BY <2>1
    <3> QED
      BY <1>1, <1>2, <1>4, <2>2, <3>1, <3>2 DEF Performed, Operation
  <2>3. CASE k # call[p]
    BY <1>4, <2>3 DEF Performed
  <2> QED
    BY <2>2, <2>3
<1> QED
  BY <1>3, <1>4

\* Going on to the next call performs nothing.
LEMMA NextCallPerforms ==
  ASSUME TypeOK, NEW p \in Party, Returning(p), session' = session,
         call' = [call EXCEPT ![p] = @ + 1], step' = [step EXCEPT ![p] = 1],
         NEW q \in Party, NEW k \in 1..Len(session), NEW op
  PROVE  Performed(q, k, op)' <=> Performed(q, k, op)
<1>1. step \in [Party -> Nat \ {0}] /\ call \in [Party -> Nat \ {0}]
  BY DEF TypeOK
<1>2. CASE q # p
  <2>1. step'[q] = step[q] /\ call'[q] = call[q]
    BY <1>1, <1>2
  <2> QED
    BY <1>2, <2>1 DEF Performed
<1>3. CASE q = p
  <2>1. step'[p] = 1 /\ call'[p] = call[p] + 1 /\ call[p] \in Nat
    BY <1>1
  <2>2. CurrentScript(p) \in Seq(Op) /\ step[p] \in Nat
    BY <1>1, CallType DEF Returning, InCall
  <2>3. CASE k = call[p]
    <3>1. \A i \in 1..Len(Script(p, session[k])) : i < step[p]
      BY <2>2, <2>3 DEF CurrentScript, Returning
    <3>2. k < call'[p]
      BY <2>1, <2>3
    <3> QED
      BY <1>3, <2>3, <3>1, <3>2 DEF Performed
  <2>4. CASE k # call[p]
    <3>1. k < call'[p] <=> k < call[p]
      BY <2>1, <2>4
    <3>2. \A i \in 1..Len(Script(p, session[k])) : ~(i < step'[p])
      BY <2>1
    <3> QED
      BY <1>3, <2>4, <3>1, <3>2 DEF Performed
  <2> QED
    BY <2>3, <2>4
<1> QED
  BY <1>2, <1>3

\* Where the current operation stands among those on the same link.
LEMMA OperationOrder ==
  ASSUME TypeOK, NEW p \in Party, Running(p),
         NEW op \in Op, op.do = Operation(p).do, op.peer = Operation(p).peer,
         op.do # "recv_any"
  PROVE  /\ Performed(p, call[p], op)
            => op.item = "share_t" /\ Operation(p).item = "share_2t"
         /\ Has(CurrentScript(p), op) /\ ~Performed(p, call[p], op)
            => \/ op = Operation(p)
               \/ Operation(p).item = "share_t" /\ op.item = "share_2t"
<1>1. /\ Ordered(CurrentScript(p)) /\ step[p] \in 1..Len(CurrentScript(p))
      /\ CurrentScript(p)[step[p]] = Operation(p)
  BY OperationType, CallType DEF Running, InCall, Operation
<1>2. ASSUME Performed(p, call[p], op)
      PROVE  op.item = "share_t" /\ Operation(p).item = "share_2t"
  <2>0. call[p] \in Nat
    BY DEF TypeOK
  <2>1. PICK i \in 1..Len(CurrentScript(p)) : i < step[p] /\ CurrentScript(p)[i] = op
    BY <1>2, <2>0 DEF Performed, CurrentScript
  <2> QED
    BY <1>1, <2>1 DEF Ordered
<1>3. ASSUME Has(CurrentScript(p), op), ~Performed(p, call[p], op)
      PROVE  \/ op = Operation(p)
             \/ Operation(p).item = "share_t" /\ op.item = "share_2t"
  <2>1. PICK i \in 1..Len(CurrentScript(p)) : CurrentScript(p)[i] = op
    BY <1>3 DEF Has
  <2>2. ~(i < step[p])
    BY <1>3, <2>1 DEF Performed, CurrentScript
  <2>3. CASE i = step[p]
    BY <1>1, <2>1, <2>3
  <2>4. CASE step[p] < i
    BY <1>1, <2>1, <2>4 DEF Ordered
  <2> QED
    BY <1>1, <2>2, <2>3, <2>4
<1> QED
  BY <1>2, <1>3

\* The packets waiting on a link come after those taken, the next one first.
LEMMA NextPacketFacts ==
  ASSUME TypeOK, SentInOrder, NEW l \in Link, HasPacket(l)
  PROVE  /\ NextPacket(l) \in Packet /\ OnLink(l, NextPacket(l)) /\ ~Taken(l, NextPacket(l))
         /\ \A x : OnLink(l, x) /\ ~Taken(l, x) =>
              x = NextPacket(l) \/ Before(NextPacket(l), x)
<1>1. sent[l] \in Seq(Packet) /\ received[l] \in Nat /\ received[l] < Len(sent[l])
  BY DEF TypeOK, HasPacket
<1>2. received[l] + 1 \in 1..Len(sent[l])
  BY <1>1
<1>3. \A m, n \in 1..Len(sent[l]) : m < n => Before(sent[l][m], sent[l][n])
  BY DEF SentInOrder
<1>4. NextPacket(l) \in Packet /\ OnLink(l, NextPacket(l))
  BY <1>1, <1>2 DEF NextPacket, OnLink
<1>5. \A x \in Packet : ~Before(x, x)
  BY DEF Before, Packet
<1>6. ~Taken(l, NextPacket(l))
  <2> SUFFICES ASSUME NEW n \in 1..received[l], sent[l][n] = NextPacket(l) PROVE FALSE
    BY DEF Taken
  <2>1. n \in 1..Len(sent[l]) /\ n < received[l] + 1
    BY <1>1
  <2> QED
    BY <2>1, <1>2, <1>3, <1>4, <1>5 DEF NextPacket
<1>7. ASSUME NEW x, OnLink(l, x), ~Taken(l, x)
      PROVE  x = NextPacket(l) \/ Before(NextPacket(l), x)
  <2>1. PICK n \in 1..Len(sent[l]) : sent[l][n] = x
    BY <1>7 DEF OnLink
  <2>2. ~(n <= received[l])
    BY <1>1, <1>7, <2>1 DEF Taken
  <2>3. n = received[l] + 1 \/ received[l] + 1 < n
    BY <1>1, <2>2
  <2> QED
    BY <1>2, <1>3, <2>1, <2>3 DEF NextPacket
<1> QED
  BY <1>4, <1>6, <1>7

LEMMA TakenOnLink ==
  ASSUME TypeOK, NEW l \in Link, NEW x, Taken(l, x)
  PROVE  OnLink(l, x) /\ x \in Packet
<1>1. received[l] \in Nat /\ received[l] <= Len(sent[l]) /\ sent[l] \in Seq(Packet)
  BY DEF TypeOK
<1>2. PICK n \in 1..received[l] : sent[l][n] = x
  BY DEF Taken
<1>3. n \in 1..Len(sent[l])
  BY <1>1
<1> QED
  BY <1>1, <1>2, <1>3 DEF OnLink

\* A send puts its packet on its link and takes nothing.
LEMMA SendEffect ==
  ASSUME TypeOK, NEW l \in Link, NEW x \in Packet,
         sent' = [sent EXCEPT ![l] = Append(@, x)], received' = received,
         NEW m \in Link, NEW y
  PROVE  /\ OnLink(m, y)' <=> OnLink(m, y) \/ (m = l /\ y = x)
         /\ Taken(m, y)' <=> Taken(m, y)
<1>1. /\ sent \in [Link -> Seq(Packet)] /\ received[m] \in Nat
      /\ received[m] <= Len(sent[m])
  BY DEF TypeOK
<1>2. CASE m # l
  BY <1>1, <1>2 DEF OnLink, Taken
<1>3. CASE m = l
  <2>1. sent'[m] = Append(sent[m], x) /\ sent[m] \in Seq(Packet)
    BY <1>1, <1>3
  <2>2. PICK n \in Nat : Len(sent[m]) = n
    BY <2>1
  <2>3. /\ Len(sent'[m]) = n + 1 /\ sent'[m][n + 1] = x
        /\ \A i \in 1..n : sent'[m][i] = sent[m][i]
    BY <2>1, <2>2
  <2>4. \A i : i \in 1..n + 1 <=> i \in 1..n \/ i = n + 1
    OBVIOUS
  <2>5. OnLink(m, y)' <=> OnLink(m, y) \/ y = x
    BY <2>2, <2>3, <2>4 DEF OnLink
  <2>6. \A i \in 1..received[m] : i \in 1..n
    BY <1>1, <2>2
  <2>7. Taken(m, y)' <=> Taken(m, y)
    BY <2>3, <2>6 DEF Taken
  <2> QED
    BY <1>3, <2>5, <2>7
<1> QED
  BY <1>2, <1>3

\* A receive takes the next packet of its link.
LEMMA ReceiveEffect ==
  ASSUME TypeOK, NEW l \in Link, HasPacket(l),
         received' = [received EXCEPT ![l] = @ + 1], sent' = sent,
         NEW m \in Link, NEW y
  PROVE  /\ OnLink(m, y)' <=> OnLink(m, y)
         /\ Taken(m, y)' <=> Taken(m, y) \/ (m = l /\ y = NextPacket(l))
<1>1. received \in [Link -> Nat]
  BY DEF TypeOK
<1>2. OnLink(m, y)' <=> OnLink(m, y)
  BY DEF OnLink
<1>3. CASE m # l
  <2>1. received'[m] = received[m]
    BY <1>1, <1>3
  <2> QED
    BY <1>2, <1>3, <2>1 DEF Taken
<1>4. CASE m = l
  <2>1. received'[m] = received[m] + 1 /\ received[m] \in Nat
    BY <1>1, <1>4
  <2>2. \A n : n \in 1..received'[m] <=> n \in 1..received[m] \/ n = received[m] + 1
    BY <2>1
  <2> QED
    BY <1>2, <1>4, <2>2 DEF Taken, NextPacket
<1> QED
  BY <1>3, <1>4

LEMMA TakenBefore ==
  ASSUME TypeOK, SentInOrder, NEW l \in Link, NEW x, NEW y,
         Taken(l, x), OnLink(l, y), ~Taken(l, y)
  PROVE  Before(x, y)
<1>1. received[l] \in Nat /\ received[l] <= Len(sent[l]) /\ sent[l] \in Seq(Packet)
  BY DEF TypeOK
<1>2. PICK m \in 1..received[l] : sent[l][m] = x
  BY DEF Taken
<1>3. PICK n \in 1..Len(sent[l]) : sent[l][n] = y
  BY DEF OnLink
<1>4. m \in 1..Len(sent[l]) /\ m < n
  BY <1>1, <1>3 DEF Taken
<1> QED
  BY <1>2, <1>3, <1>4 DEF SentInOrder

\* A sender that has sent the second half of a double sharing has sent the first.
LEMMA FirstHalfFirst ==
  ASSUME TypeOK, NEW s \in Party, NEW q \in Party, NEW k \in 1..Len(session),
         Performed(s, k, Send(q, "share_2t")),
         Has(Script(s, session[k]), Send(q, "share_t"))
  PROVE  Performed(s, k, Send(q, "share_t"))
<1>1. session[k] \in Call
  BY DEF TypeOK
<1> DEFINE script == Script(s, session[k])
<1>2. script \in Seq(Op) /\ Ordered(script)
  BY <1>1, ScriptOps
<1>3. PICK i \in 1..Len(script) :
        /\ k < call[s] \/ (k = call[s] /\ i < step[s])
        /\ script[i] = Send(q, "share_2t")
  BY DEF Performed
<1>4. PICK j \in 1..Len(script) : script[j] = Send(q, "share_t")
  BY DEF Has
<1> HIDE DEF script
<1>5. ~(i < j) /\ i # j
  <2>1. /\ script[i].do = "send" /\ script[i].peer = q /\ script[i].item = "share_2t"
        /\ script[j].do = "send" /\ script[j].peer = q /\ script[j].item = "share_t"
    BY <1>3, <1>4 DEF Send
  <2>2. script[i].item # "share_t"
    BY <2>1
  <2>3. i # j
    BY <2>1
  <2>4. script[i].do # "recv_any"
    BY <2>1
  <2> QED
    BY <1>2, <2>1, <2>2, <2>3, <2>4 DEF Ordered
<1>6. j < i
  BY <1>5
<1>7. step[s] \in Nat
  BY DEF TypeOK
<1>8. k < call[s] \/ (k = call[s] /\ j < step[s])
  BY <1>3, <1>6, <1>7
<1> QED
  BY <1>4, <1>8 DEF Performed, script

\* What waits on a link is of the receiver's present call or a later one.
LEMMA WaitingPacket ==
  ASSUME TypeOK, SentAsPerformed, PastTaken, NEW s \in Party, NEW p \in Party,
         NEW x \in Packet, OnLink(<<s, p>>, x)
  PROVE  /\ x.call \in 1..Len(session) /\ x.call <= call[s]
         /\ Performed(s, x.call, Send(p, x.item))
         /\ Has(Script(s, session[x.call]), Send(p, x.item))
         /\ x.item \in Item /\ x = PacketOf(x.call, x.item)
         /\ ~Taken(<<s, p>>, x) => x.call >= call[p]
<1>1. x.call \in 1..Len(session) /\ Performed(s, x.call, Send(p, x.item))
  BY DEF SentAsPerformed
<1>2. x.call <= call[s] /\ Has(Script(s, session[x.call]), Send(p, x.item))
  BY <1>1, PerformedFacts
<1>3. x.item \in Item /\ x = PacketOf(x.call, x.item)
  BY DEF Packet, Item, PacketOf
<1>4. x.call < call[p] => Taken(<<s, p>>, x)
  BY <1>1, <1>2, <1>3 DEF PastTaken
<1>5. call[p] \in Nat
  BY DEF TypeOK
<1> QED
  BY <1>1, <1>2, <1>3, <1>4, <1>5

\* A receive by name returns what it awaits.
LEMMA NamedReceive ==
  ASSUME ProtocolInv, NEW p \in Party, Running(p), Operation(p).do = "recv_from",
         HasPacket(<<Operation(p).peer, p>>)
  PROVE  /\ ~Opening(session[call[p]]) /\ AsAwaited(p)
         /\ NextPacket(<<Operation(p).peer, p>>) = OwnPacket(p)
<1> DEFINE c == session[call[p]]
           k == call[p]
<1>1. /\ k \in 1..Len(session) /\ c \in Call /\ Operation(p) \in Op
      /\ Has(CurrentScript(p), Operation(p)) /\ OwnPacket(p) \in Packet
      /\ OwnPacket(p) = PacketOf(k, Operation(p).item)
  BY OperationType DEF ProtocolInv
<1>2. PICK s \in Party, item \in Item : Operation(p).peer = s /\ Operation(p).item = item
  BY <1>1 DEF Op
<1>3. Operation(p) = RecvFrom(s, item)
  BY <1>1, <1>2 DEF Op, RecvFrom
<1>4. ~Opening(c)
  BY <1>1, <1>3, OpeningScripts DEF CurrentScript, RecvFrom
<1>5. AsAwaited(p)
  BY <1>1, <1>4 DEF ProtocolInv, NamedInv
<1> DEFINE l == <<s, p>>
           x == PacketOf(k, item)
<1>6. PICK y \in Packet : y = NextPacket(l) /\ OnLink(l, y) /\ ~Taken(l, y)
  BY <1>2, NextPacketFacts DEF ProtocolInv, Link
<1>7. \A z : OnLink(l, z) /\ ~Taken(l, z) => z = y \/ Before(y, z)
  BY <1>2, <1>6, NextPacketFacts DEF ProtocolInv, Link
<1>8. /\ y.call \in 1..Len(session) /\ y.call <= call[s] /\ y.call >= k
      /\ Performed(s, y.call, Send(p, y.item))
      /\ Has(Script(s, session[y.call]), Send(p, y.item))
      /\ y.item \in Item /\ y = PacketOf(y.call, y.item)
  BY <1>6, WaitingPacket DEF ProtocolInv
<1>9. \A i \in Item :
        Has(Script(s, c), Send(p, i)) <=> Has(CurrentScript(p), RecvFrom(s, i))
  BY <1>1, <1>4, NamedScripts DEF CurrentScript
<1>10. x \in Packet /\ x.call = k /\ x.item = item /\ x = OwnPacket(p)
  BY <1>1, <1>2 DEF PacketOf
<1>11. ~Taken(l, x)
  <2>1. ~Performed(p, k, Operation(p))
    <3>1. "recv_from" # "recv_any" /\ "share_t" # "share_2t"
      OBVIOUS
    <3> QED
      BY <1>1, <3>1, OperationOrder DEF ProtocolInv
  <2>2. k \in Nat
    BY <1>1
  <2> QED
    BY <1>3, <1>5, <1>10, <2>1, <2>2 DEF AsAwaited
<1>12. ASSUME Performed(s, k, Send(p, item)) PROVE y = x \/ Before(y, x)
  BY <1>1, <1>7, <1>10, <1>11, <1>12 DEF ProtocolInv, SentAsPerformed
<1>13. Has(Script(s, c), Send(p, item))
  BY <1>1, <1>3, <1>9
<1> SUFFICES y = x
  BY <1>2, <1>4, <1>5, <1>6, <1>10
<1>14. CASE y.call > k
  <2>0. call[s] \in Nat
    BY DEF ProtocolInv, TypeOK
  <2>1. k < call[s]
    BY <1>1, <1>8, <1>14, <2>0
  <2>2. Performed(s, k, Send(p, item))
    BY <1>1, <1>13, <2>1, PerformedFacts DEF ProtocolInv
  <2>3. ~Before(y, x) /\ y # x
    BY <1>1, <1>8, <1>10, <1>14 DEF Before
  <2> QED
    BY <1>12, <2>2, <2>3
<1>15. CASE y.call = k
  <2>1. Has(CurrentScript(p), RecvFrom(s, y.item))
    BY <1>8, <1>9, <1>15
  <2>2. ~Performed(p, k, RecvFrom(s, y.item))
    BY <1>5, <1>6, <1>8, <1>15 DEF AsAwaited
  <2>3. /\ RecvFrom(s, y.item) \in Op /\ RecvFrom(s, y.item).do = Operation(p).do
        /\ RecvFrom(s, y.item).peer = Operation(p).peer
        /\ RecvFrom(s, y.item).do # "recv_any" /\ RecvFrom(s, y.item).item = y.item
    BY <1>3, <1>8 DEF RecvFrom, Op
  <2>4. y.item = item \/ (item = "share_t" /\ y.item = "share_2t")
    BY <1>2, <2>1, <2>2, <2>3, OperationOrder DEF ProtocolInv
  <2>5. CASE y.item = item
    BY <1>6, <1>8, <1>10, <1>15, <1>2, <2>5
  <2>6. CASE item = "share_t" /\ y.item = "share_2t"
    <3>1. Performed(s, k, Send(p, item))
      BY <1>1, <1>8, <1>13, <1>15, <2>6, FirstHalfFirst DEF ProtocolInv
    <3>2. y # x /\ ~Before(y, x)
      BY <1>1, <1>10, <1>15, <2>6 DEF Before
    <3> QED
      BY <1>12, <3>1, <3>2
  <2> QED
    BY <2>4, <2>5, <2>6
<1>16. y.call \in Nat /\ k \in Nat
  BY <1>1, <1>8
<1> QED
  BY <1>8, <1>14, <1>15, <1>16

LEMMA TakenType ==
  ASSUME TypeOK, NEW p \in Party
  PROVE  /\ Len(taken[p]) \in Nat
         /\ taken[p] \in Seq([sender : Party, packet : Packet, awaited : Packet])
         /\ \A i \in 1..Len(taken[p]) :
              /\ taken[p][i].sender \in Party /\ taken[p][i].packet \in Packet
              /\ taken[p][i].awaited \in Packet
<1> DEFINE R == [sender : Party, packet : Packet, awaited : Packet]
<1>1. \A r \in R : r.sender \in Party /\ r.packet \in Packet /\ r.awaited \in Packet
  OBVIOUS
<1>2. taken \in [Party -> Seq(R)]
  BY DEF TypeOK
<1> HIDE DEF R
<1>3. taken[p] \in Seq(R)
  BY <1>2
<1>4. Len(taken[p]) \in Nat /\ \A i \in 1..Len(taken[p]) : taken[p][i] \in R
  BY <1>3
<1>5. \A i \in 1..Len(taken[p]) :
        /\ taken[p][i].sender \in Party /\ taken[p][i].packet \in Packet
        /\ taken[p][i].awaited \in Packet
  BY <1>1, <1>4
<1> QED
  BY <1>3, <1>4, <1>5 DEF R

LEMMA OneMore ==
  ASSUME NEW S, NEW a \in S, NEW b \in Seq(S)
  PROVE  /\ <<a>> \o b \in Seq(S) /\ Len(<<a>> \o b) = 1 + Len(b)
         /\ (<<a>> \o b)[1] = a
         /\ \A i \in 1..Len(b) : (<<a>> \o b)[1 + i] = b[i]
<1>1. <<a>> \in Seq(S) /\ Len(<<a>>) = 1 /\ <<a>>[1] = a
  OBVIOUS
<1>2. PICK front \in Seq(S) : front = <<a>>
  BY <1>1
<1>3. /\ front \o b \in Seq(S) /\ Len(front \o b) = Len(front) + Len(b)
      /\ \A i \in 1..Len(front) : (front \o b)[i] = front[i]
      /\ \A i \in 1..Len(b) : (front \o b)[Len(front) + i] = b[i]
  OBVIOUS
<1> QED
  BY <1>1, <1>2, <1>3

\* As many different senders as there are other parties: one receipt from each.
LEMMA FullSetOfSenders ==
  ASSUME TypeOK, NEW p \in Party, Len(taken[p]) + 1 = Len(PartyOrder),
         IsInjective(Senders(p, taken[p]))
  PROVE  /\ \A i \in 1..Len(taken[p]) : taken[p][i].sender # p
         /\ \A i, j \in 1..Len(taken[p]) :
              taken[p][i].sender = taken[p][j].sender => i = j
         /\ \A s \in Party \ {p} : \E i \in 1..Len(taken[p]) : taken[p][i].sender = s
<1> DEFINE own == <<p>>
           others == [i \in 1..Len(taken[p]) |-> taken[p][i].sender]
           senders == Senders(p, taken[p])
<1>1. Len(taken[p]) \in Nat
  BY TakenType
<1>2. \A i \in 1..Len(taken[p]) : taken[p][i].sender \in Party
  BY TakenType
<1>3. others \in Seq(Party) /\ Len(others) = Len(taken[p])
  BY <1>1, <1>2
<1>4. own \in Seq(Party) /\ Len(own) = 1 /\ own[1] = p
  OBVIOUS
<1>5. senders = own \o others
  BY DEF Senders
<1>6. PICK n \in Nat : Len(taken[p]) = n
  BY <1>1
<1>7. \A i \in 1..n : others[i] = taken[p][i].sender
  BY <1>6
<1> HIDE DEF own, others, senders
<1>8. /\ senders \in Seq(Party) /\ Len(senders) = n + 1 /\ senders[1] = p
      /\ \A i \in 1..n : senders[i + 1] = others[i]
  <2>1. /\ own \o others \in Seq(Party) /\ Len(own \o others) = 1 + n
        /\ (own \o others)[1] = own[1]
        /\ \A i \in 1..n : (own \o others)[1 + i] = others[i]
    <3>1. Len(others) = n
      BY <1>3, <1>6
    <3> QED
      BY <1>3, <3>1, OneMore DEF own
  <2>2. \A i \in 1..n : 1 + i = i + 1
    OBVIOUS
  <2> QED
    BY <1>4, <1>5, <2>1, <2>2
<1>9. \A a, b \in 1..n + 1 : senders[a] = senders[b] => a = b
  <2>1. DOMAIN senders = 1..n + 1
    BY <1>8
  <2> QED
    BY <2>1 DEF IsInjective, senders
<1>10. \A i \in 1..n : i + 1 \in 1..n + 1 /\ i + 1 # 1
  OBVIOUS
<1>11. \A i \in 1..n : taken[p][i].sender # p
  <2> TAKE i \in 1..n
  <2>1. i + 1 \in 1..n + 1 /\ i + 1 # 1 /\ 1 \in 1..n + 1
    OBVIOUS
  <2>2. senders[i + 1] # senders[1]
    BY <1>9, <2>1
  <2> QED
    BY <1>7, <1>8, <2>2
<1>12. \A i, j \in 1..n : taken[p][i].sender = taken[p][j].sender => i = j
  <2> TAKE i, j \in 1..n
  <2>1. i + 1 \in 1..n + 1 /\ j + 1 \in 1..n + 1
    OBVIOUS
  <2>2. senders[i + 1] = senders[j + 1] => i + 1 = j + 1
    BY <1>9, <2>1
  <2> QED
    BY <1>7, <1>8, <2>2
<1>13. ASSUME NEW s \in Party \ {p} PROVE \E i \in 1..n : taken[p][i].sender = s
  <2>1. Len(PartyOrder) = n + 1
    BY <1>6
  <2>2. PartyOrder \in [1..n + 1 -> Party] /\ senders \in [1..n + 1 -> Party]
    BY <1>8, <2>1, ListsOfParties
  <2>3. \A q \in Party : \E i \in 1..n + 1 : PartyOrder[i] = q
    BY <2>2, ListsOfParties DEF ToSet
  <2>4. PartyOrder \in Injection(1..n + 1, Party) /\ PartyOrder \in Surjection(1..n + 1, Party)
    BY <2>2, <2>3, ListsOfParties DEF Injection, Surjection
  <2>5. senders \in Injection(1..n + 1, Party)
    BY <2>2 DEF Injection, senders
  <2>6. IsFiniteSet(1..n + 1)
    BY FS_Interval
  <2>7. IsFiniteSet(Party) /\ Cardinality(Party) = Cardinality(1..n + 1)
    BY <2>4, <2>6, FS_Surjection
  <2>8. senders \in Surjection(1..n + 1, Party)
    BY <2>5, <2>7, FS_Injection
  <2>9. PICK a \in 1..n + 1 : senders[a] = s
    BY <2>8 DEF Surjection
  <2>10. a # 1
    BY <1>8, <2>9
  <2>11. a - 1 \in 1..n /\ (a - 1) + 1 = a
    BY <2>10
  <2>12. taken[p][a - 1].sender = s
    BY <1>7, <1>8, <2>9, <2>11
  <2> QED
    BY <2>11, <2>12
<1> QED
  BY <1>6, <1>11, <1>12, <1>13

\* A collector that returns has a share from each other party.
LEMMA CollectorReturns ==
  ASSUME ProtocolInv, NEW p \in Party, Returning(p),
         Opening(session[call[p]]), Collects(p, session[call[p]])
  PROVE  /\ \A i \in 1..Len(taken[p]) : taken[p][i].sender # p
         /\ \A i, j \in 1..Len(taken[p]) :
              taken[p][i].sender = taken[p][j].sender => i = j
         /\ \A s \in Party \ {p} : \E i \in 1..Len(taken[p]) : taken[p][i].sender = s
<1>1. call[p] \in 1..Len(session) /\ session[call[p]] \in Call
  BY CallType DEF Returning, InCall, ProtocolInv
<1>2. Counted(p) /\ FullSet(p)
  BY <1>1 DEF ProtocolInv, OpeningInv
<1>3. PICK n \in Nat : Len(Others(p)) = n /\ Len(PartyOrder) = n + 1
  <2>1. Len(PartyOrder) \in Nat
    BY ListsOfParties
  <2> QED
    BY <2>1, OthersList
<1>4. PICK before \in Nat : Len(CurrentScript(p)) = before + n
  BY <1>1, <1>3, CollectorScript DEF CurrentScript
<1>5. step[p] \in Nat /\ step[p] > before + n /\ step[p] <= before + n + 1
  BY <1>1, <1>4 DEF ProtocolInv, PlaceInv, TypeOK, Returning
<1>6. Len(taken[p]) = step[p] - 1 - before
  <2>1. Len(CurrentScript(p)) - Len(Others(p)) = before /\ step[p] > before
    BY <1>3, <1>4, <1>5
  <2> QED
    BY <1>2, <2>1 DEF Counted, Returning, InCall
<1>7. Len(taken[p]) + 1 = Len(PartyOrder)
  BY <1>3, <1>5, <1>6
<1>8. IsInjective(Senders(p, taken[p]))
  BY <1>2, <1>7 DEF FullSet, Returning, InCall
<1> QED
  BY <1>7, <1>8, FullSetOfSenders DEF ProtocolInv

\* The only packet that a returning collector has from s is its share of this call.
LEMMA CollectedShare ==
  ASSUME ProtocolInv, NEW p \in Party, Returning(p),
         Opening(session[call[p]]), Collects(p, session[call[p]]),
         NEW i \in 1..Len(taken[p])
  PROVE  /\ taken[p][i].packet = PacketOf(call[p], "share")
         /\ Taken(<<taken[p][i].sender, p>>, PacketOf(call[p], "share"))
<1> DEFINE k == call[p]
           c == session[k]
           x == PacketOf(k, "share")
<1>1. k \in 1..Len(session) /\ c \in Call
  BY CallType DEF Returning, InCall, ProtocolInv
<1>2. Receipts(p)
  BY <1>1 DEF ProtocolInv, OpeningInv
<1>3. taken[p][i].sender \in Party /\ taken[p][i].packet \in Packet
  BY TakenType DEF ProtocolInv
<1>4. PICK s \in Party, z \in Packet : taken[p][i].sender = s /\ taken[p][i].packet = z
  BY <1>3
<1> DEFINE l == <<s, p>>
<1>5. Taken(l, z) /\ z.call >= k
  BY <1>2, <1>4 DEF Receipts
<1>6. /\ s # p
      /\ \A j \in 1..Len(taken[p]) : taken[p][j].sender = s => j = i
  BY <1>4, CollectorReturns
<1>7. l \in Link /\ OnLink(l, z)
  BY <1>5, TakenOnLink DEF ProtocolInv, Link
<1>8. /\ z.call \in 1..Len(session) /\ z.call <= call[s]
      /\ Performed(s, z.call, Send(p, z.item))
      /\ Has(Script(s, session[z.call]), Send(p, z.item))
      /\ z.item \in Item /\ z = PacketOf(z.call, z.item)
  BY <1>7, WaitingPacket DEF ProtocolInv
<1>9. x \in Packet /\ x.call = k /\ x.item = "share"
  BY <1>1 DEF PacketOf, Packet
<1>10. CASE z.call = k
  <2>1. z.item = "share"
    BY <1>1, <1>8, <1>10, OpeningScripts
  <2> QED
    BY <1>4, <1>5, <1>8, <1>10, <2>1
<1>11. CASE z.call > k
  <2>0. call[s] \in Nat
    BY DEF ProtocolInv, TypeOK
  <2>1. k < call[s]
    BY <1>1, <1>8, <1>11, <2>0
  <2>2. Has(Script(s, c), Send(p, "share"))
    BY <1>1, <1>6, OpeningScripts
  <2>3. Performed(s, k, Send(p, "share"))
    BY <1>1, <2>1, <2>2, PerformedFacts DEF ProtocolInv
  <2>4. OnLink(l, x)
    BY <1>1, <1>9, <2>3 DEF ProtocolInv, SentAsPerformed
  <2>5. z # x /\ ~Before(z, x)
    BY <1>1, <1>8, <1>9, <1>11 DEF Before
  <2>6. ~Taken(l, x)
    <3> SUFFICES ASSUME Taken(l, x) PROVE FALSE
      OBVIOUS
    <3>1. k >= k
      BY <1>1
    <3>2. PICK j \in 1..Len(taken[p]) : taken[p][j].sender = s /\ taken[p][j].packet = x
      BY <1>2, <1>9, <3>1 DEF Receipts
    <3> QED
      BY <1>4, <1>6, <2>5, <3>2
  <2> QED
    BY <1>5, <1>7, <2>4, <2>5, <2>6, TakenBefore DEF ProtocolInv
<1> QED
  BY <1>1, <1>5, <1>8, <1>10, <1>11

\* A party that returns has received what it awaited, all that is sent to it in the
\* call, and nothing of a later one.
LEMMA CallComplete ==
  ASSUME ProtocolInv, NEW p \in Party, Returning(p)
  PROVE  /\ \A i \in 1..Len(taken[p]) : taken[p][i].packet = taken[p][i].awaited
         /\ \A s \in Party, item \in Item :
              Has(Script(s, session[call[p]]), Send(p, item))
              => Taken(<<s, p>>, PacketOf(call[p], item))
         /\ \A s \in Party, x \in Packet : Taken(<<s, p>>, x) => x.call <= call[p]
<1> DEFINE k == call[p]
           c == session[k]
<1>1. k \in 1..Len(session) /\ c \in Call
  BY CallType DEF Returning, InCall, ProtocolInv
<1>2. \A x \in Packet : x.call \in Nat
  BY DEF Packet
<1>3. \A item \in Item :
        PacketOf(k, item) \in Packet /\ PacketOf(k, item).call = k
        /\ PacketOf(k, item).item = item
  BY <1>1 DEF PacketOf, Packet, Item
<1>4. CASE ~Opening(c)
  <2>1. AsAwaited(p)
    BY <1>1, <1>4 DEF ProtocolInv, NamedInv
  <2>2. ASSUME NEW s \in Party, NEW item \in Item, Has(Script(s, c), Send(p, item))
        PROVE  Taken(<<s, p>>, PacketOf(k, item))
    <3>1. Has(CurrentScript(p), RecvFrom(s, item))
      BY <1>1, <1>4, <2>2, NamedScripts DEF CurrentScript
    <3>2. Performed(p, k, RecvFrom(s, item))
      BY <3>1, ReturningPerformed DEF ProtocolInv
    <3>3. k >= k
      BY <1>1
    <3> QED
      BY <1>3, <2>1, <3>2, <3>3 DEF AsAwaited
  <2>3. ASSUME NEW s \in Party, NEW x \in Packet, Taken(<<s, p>>, x)
        PROVE  x.call <= k
    <3>1. x.call >= k => x.call = k
      BY <2>1, <2>3 DEF AsAwaited
    <3> QED
      BY <1>1, <1>2, <3>1
  <2> QED
    BY <2>1, <2>2, <2>3 DEF AsAwaited
<1>5. CASE Opening(c)
  <2>1. Receipts(p) /\ Counted(p)
    BY <1>1, <1>5 DEF ProtocolInv, OpeningInv
  <2>2. CASE ~Collects(p, c)
    <3>1. taken[p] = <<>>
      BY <2>1, <2>2 DEF Counted
    <3>2. \A s \in Party, x \in Packet : Taken(<<s, p>>, x) => ~(x.call >= k)
      BY <2>1, <3>1 DEF Receipts
    <3>3. \A s \in Party, item \in Item : ~Has(Script(s, c), Send(p, item))
      BY <1>1, <1>5, <2>2, OpeningScripts
    <3> QED
      BY <1>1, <1>2, <3>1, <3>2, <3>3
  <2>3. CASE Collects(p, c)
    <3>1. \A i \in 1..Len(taken[p]) :
            /\ taken[p][i].packet = PacketOf(k, "share")
            /\ Taken(<<taken[p][i].sender, p>>, PacketOf(k, "share"))
      BY <1>5, <2>3, CollectedShare
    <3>2. \A i \in 1..Len(taken[p]) : taken[p][i].packet = taken[p][i].awaited
      BY <2>1, <3>1 DEF Receipts
    <3>3. ASSUME NEW s \in Party, NEW item \in Item, Has(Script(s, c), Send(p, item))
          PROVE  Taken(<<s, p>>, PacketOf(k, item))
      <4>1. s # p /\ item = "share"
        BY <1>1, <1>5, <3>3, OpeningScripts
      <4>2. PICK i \in 1..Len(taken[p]) : taken[p][i].sender = s
        BY <1>5, <2>3, <4>1, CollectorReturns
      <4> QED
        BY <3>1, <4>1, <4>2
    <3>4. ASSUME NEW s \in Party, NEW x \in Packet, Taken(<<s, p>>, x)
          PROVE  x.call <= k
      <4>1. CASE x.call >= k
        <5>1. PICK i \in 1..Len(taken[p]) : taken[p][i].packet = x
          BY <2>1, <3>4, <4>1 DEF Receipts
        <5>2. x.call = k
          BY <1>3, <3>1, <5>1 DEF Item
        <5> QED
          BY <1>1, <5>2
      <4> QED
        BY <1>1, <1>2, <4>1
    <3> QED
      BY <3>2, <3>3, <3>4
  <2> QED
    BY <2>2, <2>3
<1> QED
  BY <1>4, <1>5

-----------------------------------------------------------------------------
(***************************************************************************)
(* The invariant.                                                          *)
(***************************************************************************)
LEMMA InitInv == Init => ProtocolInv
<1> SUFFICES ASSUME Init PROVE ProtocolInv
  OBVIOUS
<1>1. session \in Seq(Call)
  BY SessionAssumption DEF Init
<1>2. TypeOK
  BY <1>1 DEF Init, TypeOK
<1>3. \A p \in Party : call[p] = 1 /\ step[p] = 1 /\ taken[p] = <<>>
  BY DEF Init
<1>4. \A l \in Link : sent[l] = <<>> /\ received[l] = 0
  BY DEF Init
<1>5. \A l \in Link : \A x : ~OnLink(l, x) /\ ~Taken(l, x)
  BY <1>4 DEF OnLink, Taken
<1>6. \A s, p \in Party : <<s, p>> \in Link
  BY DEF Link
<1>7. Len(session) \in Nat
  BY <1>1
<1>8. PlaceInv
  <2> SUFFICES ASSUME NEW p \in Party
               PROVE  /\ call[p] <= Len(session) + 1
                      /\ call[p] <= Len(session) => step[p] <= Len(CurrentScript(p)) + 1
    BY <1>3 DEF PlaceInv
  <2>1. ASSUME call[p] <= Len(session) PROVE Len(CurrentScript(p)) \in Nat
    BY <1>2, <2>1, CallType
  <2> QED
    BY <1>3, <1>7, <2>1
<1>9. SentInOrder
  BY <1>4 DEF SentInOrder
<1>10. \A p \in Party, k \in 1..Len(session) : \A op : ~Performed(p, k, op)
  BY <1>3 DEF Performed
<1>11. SentAsPerformed
  BY <1>5, <1>6, <1>10 DEF SentAsPerformed
<1>12. PastTaken
  BY <1>3 DEF PastTaken
<1>13. NamedInv
  <2> SUFFICES ASSUME NEW p \in Party, call[p] <= Len(session) PROVE AsAwaited(p)
    BY DEF NamedInv
  <2>1. call[p] \in 1..Len(session)
    BY <1>3, <1>7
  <2> QED
    BY <1>3, <1>5, <1>6, <1>10, <2>1 DEF AsAwaited
<1>14. OpeningInv
  <2> SUFFICES ASSUME NEW p \in Party, call[p] <= Len(session),
                      Opening(session[call[p]])
               PROVE  Receipts(p) /\ Counted(p) /\ FullSet(p)
    BY DEF OpeningInv
  <2>1. Receipts(p)
    BY <1>3, <1>5, <1>6 DEF Receipts
  <2>2. Counted(p)
    <3> SUFFICES ASSUME Collects(p, session[call[p]])
                 PROVE  LET before == Len(CurrentScript(p)) - Len(Others(p))
                        IN  step[p] > before => Len(taken[p]) = step[p] - 1 - before
      BY <1>3 DEF Counted
    <3>1. session[call[p]] \in Call /\ Len(Others(p)) \in Nat
      BY <1>2, CallType, OthersList
    <3>2. PICK before \in Nat : Len(CurrentScript(p)) = before + Len(Others(p))
      BY <3>1, CollectorScript DEF CurrentScript
    <3>3. Len(CurrentScript(p)) - Len(Others(p)) = before
      BY <3>1, <3>2
    <3> QED
      BY <1>3, <3>3
  <2>3. FullSet(p)
    <3>1. Senders(p, taken[p]) \in Seq(Party) /\ Len(Senders(p, taken[p])) = 1
      BY <1>3 DEF Senders
    <3> QED
      BY <3>1 DEF FullSet, IsInjective
  <2> QED
    BY <2>1, <2>2, <2>3
<1> QED
  BY <1>2, <1>8, <1>9, <1>11, <1>12, <1>13, <1>14 DEF ProtocolInv

\* A step that leaves a party and what it has taken alone keeps what is said of it.
LEMMA PartyUntouched ==
  ASSUME NEW p \in Party, session' = session,
         call'[p] = call[p], step'[p] = step[p], taken'[p] = taken[p],
         status'[p] = status[p],
         \A s \in Party, x \in Packet : Taken(<<s, p>>, x)' <=> Taken(<<s, p>>, x),
         TypeOK
  PROVE  /\ AsAwaited(p) => AsAwaited(p)'
         /\ Receipts(p) => Receipts(p)'
         /\ Counted(p) => Counted(p)'
         /\ FullSet(p) => FullSet(p)'
<1>1. \A k, op : Performed(p, k, op)' <=> Performed(p, k, op)
  BY DEF Performed
<1>2. AsAwaited(p) => AsAwaited(p)'
  BY <1>1 DEF AsAwaited
<1>3. \A i \in 1..Len(taken[p]) :
        taken[p][i].sender \in Party /\ taken[p][i].packet \in Packet
  BY TakenType
<1>4. Receipts(p) => Receipts(p)'
  BY <1>3 DEF Receipts
<1>5. CurrentScript(p)' = CurrentScript(p)
  BY DEF CurrentScript
<1>6. Counted(p) => Counted(p)'
  BY <1>5 DEF Counted
<1>7. FullSet(p) => FullSet(p)'
  BY DEF FullSet
<1> QED
  BY <1>2, <1>4, <1>6, <1>7

\* Where a collector is in its script.
LEMMA CollectorOperation ==
  ASSUME TypeOK, NEW p \in Party, Running(p),
         Opening(session[call[p]]), Collects(p, session[call[p]])
  PROVE  \E before \in Nat :
           /\ Len(CurrentScript(p)) - Len(Others(p)) = before
           /\ step[p] <= before => Operation(p).do = "send"
           /\ step[p] > before => Operation(p) = RecvAny(p, "share")
<1>1. /\ session[call[p]] \in Call /\ step[p] \in 1..Len(CurrentScript(p))
      /\ CurrentScript(p) \in Seq(Op)
  BY OperationType, CallType DEF Running, InCall
<1>2. PICK n \in Nat : Len(Others(p)) = n
  BY OthersList
<1>3. PICK before \in Nat :
        /\ Len(CurrentScript(p)) = before + n
        /\ \A i \in 1..before : CurrentScript(p)[i].do = "send"
        /\ \A i \in 1..n : CurrentScript(p)[before + i] = RecvAny(p, "share")
  BY <1>1, <1>2, CollectorScript DEF CurrentScript
<1>4. Len(CurrentScript(p)) - Len(Others(p)) = before
  BY <1>2, <1>3
<1>5. ASSUME step[p] <= before PROVE Operation(p).do = "send"
  BY <1>1, <1>3, <1>5 DEF Operation
<1>6. ASSUME step[p] > before PROVE Operation(p) = RecvAny(p, "share")
  <2>1. step[p] - before \in 1..n /\ before + (step[p] - before) = step[p]
    BY <1>1, <1>3, <1>6
  <2> QED
    BY <1>3, <2>1 DEF Operation
<1> QED
  BY <1>4, <1>5, <1>6

LEMMA SendStep ==
  ASSUME ProtocolInv, NEW p \in Party, SendPacket(p)
  PROVE  ProtocolInv'
<1> DEFINE k == call[p]
           to == Operation(p).peer
           l == <<p, to>>
           x == OwnPacket(p)
<1>1. /\ Running(p) /\ Operation(p).do = "send"
      /\ sent' = [sent EXCEPT ![l] = Append(@, x)] /\ step' = [step EXCEPT ![p] = @ + 1]
      /\ session' = session /\ call' = call /\ received' = received
      /\ taken' = taken /\ status' = status
  BY DEF SendPacket
<1>2. TypeOK
  BY DEF ProtocolInv
<1>3. /\ k \in 1..Len(session) /\ session[k] \in Call
      /\ step[p] \in 1..Len(CurrentScript(p)) /\ Operation(p) \in Op
      /\ x \in Packet /\ x = PacketOf(k, Operation(p).item)
  BY <1>1, <1>2, OperationType
<1>4. to \in Party /\ l \in Link /\ x.call = k /\ x.item = Operation(p).item
  BY <1>3 DEF Op, Link, PacketOf
<1>5. Operation(p) = Send(to, x.item)
  BY <1>1, <1>3, <1>4 DEF Op, Send
<1> HIDE DEF to, x
<1>6. /\ sent \in [Link -> Seq(Packet)] /\ step \in [Party -> Nat \ {0}]
      /\ call \in [Party -> Nat \ {0}]
  BY <1>2 DEF TypeOK
<1>7. TypeOK'
  <2>1. sent' \in [Link -> Seq(Packet)]
    <3>1. Append(sent[l], x) \in Seq(Packet)
      BY <1>3, <1>4, <1>6
    <3> QED
      BY <1>1, <1>4, <1>6, <3>1
  <2>2. step' \in [Party -> Nat \ {0}]
    BY <1>1, <1>6
  <2>3. \A m \in Link : received[m] \in Nat /\ received[m] <= Len(sent[m])
    BY <1>2 DEF TypeOK
  <2>4. \A m \in Link : received'[m] <= Len(sent'[m])
    <3> TAKE m \in Link
    <3>1. sent'[m] = sent[m] \/ sent'[m] = Append(sent[m], x)
      BY <1>1, <1>6
    <3>2. PICK n \in Nat : Len(sent[m]) = n
      BY <1>6
    <3>3. Len(Append(sent[m], x)) = n + 1
      BY <1>6, <3>2
    <3>4. Len(sent'[m]) = n \/ Len(sent'[m]) = n + 1
      BY <3>1, <3>2, <3>3
    <3>5. received[m] \in Nat /\ received[m] <= n /\ received'[m] = received[m]
      BY <1>1, <2>3, <3>2
    <3> QED
      BY <3>4, <3>5
  <2> QED
    BY <1>1, <1>2, <2>1, <2>2, <2>4 DEF TypeOK
<1>8. \A q \in Party : step'[q] = IF q = p THEN step[q] + 1 ELSE step[q]
  BY <1>1, <1>6
<1>9. \A q \in Party : CurrentScript(q)' = CurrentScript(q)
  BY <1>1 DEF CurrentScript
<1>10. PlaceInv'
  <2> SUFFICES ASSUME NEW q \in Party, call[q] <= Len(session)
               PROVE  step'[q] <= Len(CurrentScript(q)) + 1
    BY <1>1, <1>9 DEF PlaceInv, ProtocolInv
  <2>1. step[q] <= Len(CurrentScript(q)) + 1
    BY DEF PlaceInv, ProtocolInv
  <2>2. step[q] \in Nat
    BY <1>6
  <2> QED
    BY <1>3, <1>8, <2>1, <2>2
<1>11. \A m \in Link : \A y :
         /\ OnLink(m, y)' <=> OnLink(m, y) \/ (m = l /\ y = x)
         /\ Taken(m, y)' <=> Taken(m, y)
  BY <1>1, <1>2, <1>3, <1>4, SendEffect
<1>12. \A q \in Party, j \in 1..Len(session) : \A op :
         Performed(q, j, op)' <=> Performed(q, j, op) \/ (q = p /\ j = k /\ op = Operation(p))
  BY <1>1, <1>2, StepPerforms
<1>13. SentInOrder'
  <2> SUFFICES ASSUME NEW m \in Link, NEW i \in 1..Len(sent'[m]),
                      NEW j \in 1..Len(sent'[m]), i < j
               PROVE  Before(sent'[m][i], sent'[m][j])
    BY DEF SentInOrder
  <2>1. SentInOrder
    BY DEF ProtocolInv
  <2>2. CASE m # l
    <3>1. sent'[m] = sent[m]
      BY <1>1, <1>6, <2>2
    <3> QED
      BY <2>1, <3>1 DEF SentInOrder
  <2>3. CASE m = l
    <3>1. sent'[m] = Append(sent[m], x) /\ sent[m] \in Seq(Packet)
      BY <1>1, <1>4, <1>6, <2>3
    <3>2. PICK n \in Nat : Len(sent[m]) = n
      BY <3>1
    <3>3. /\ Len(sent'[m]) = n + 1 /\ sent'[m][n + 1] = x
          /\ \A h \in 1..n : sent'[m][h] = sent[m][h]
      BY <3>1, <3>2
    <3>4. i \in 1..n /\ (j \in 1..n \/ j = n + 1)
      BY <3>3
    <3>5. CASE j \in 1..n
      BY <2>1, <3>2, <3>3, <3>4, <3>5 DEF SentInOrder
    <3>6. CASE j = n + 1
      <4>1. PICK y \in Packet : y = sent[m][i]
        BY <3>1, <3>2, <3>4
      <4>2. OnLink(l, y)
        BY <2>3, <3>2, <3>4, <4>1 DEF OnLink
      <4>3. /\ y.call \in 1..Len(session) /\ y.call <= k
            /\ Performed(p, y.call, Send(to, y.item)) /\ y.item \in Item
        BY <1>4, <4>2, WaitingPacket DEF ProtocolInv
      <4>4. ASSUME y.call = k PROVE y.item = "share_t" /\ x.item = "share_2t"
        <5>1. /\ Send(to, y.item) \in Op /\ Send(to, y.item).do = Operation(p).do
              /\ Send(to, y.item).peer = Operation(p).peer
              /\ Send(to, y.item).do # "recv_any" /\ Send(to, y.item).item = y.item
          BY <1>4, <1>5, <4>3 DEF Send, Op
        <5> QED
          BY <1>1, <1>2, <1>4, <4>3, <4>4, <5>1, OperationOrder
      <4>5. y.call < k \/ y.call = k
        BY <1>3, <4>3
      <4>6. Before(y, x)
        BY <1>4, <4>4, <4>5 DEF Before
      <4> QED
        BY <3>3, <3>4, <3>6, <4>1, <4>6
    <3> QED
      BY <3>4, <3>5, <3>6
  <2> QED
    BY <2>2, <2>3
<1>14. SentAsPerformed'
  <2> SUFFICES ASSUME NEW s \in Party, NEW q \in Party, NEW y \in Packet
               PROVE  OnLink(<<s, q>>, y)'
                      <=> y.call \in 1..Len(session) /\ Performed(s, y.call, Send(q, y.item))'
    BY <1>1 DEF SentAsPerformed
  <2>1. <<s, q>> \in Link
    BY DEF Link
  <2>2. OnLink(<<s, q>>, y)
        <=> y.call \in 1..Len(session) /\ Performed(s, y.call, Send(q, y.item))
    BY DEF ProtocolInv, SentAsPerformed
  <2>3. Send(q, y.item) = Operation(p) <=> q = to /\ y.item = x.item
    BY <1>5 DEF Send
  <2>4. y = x <=> y.call = k /\ y.item = x.item
    <3>1. y = PacketOf(y.call, y.item) /\ x = PacketOf(x.call, x.item)
      BY <1>3 DEF Packet, PacketOf
    <3> QED
      BY <1>4, <3>1
  <2>5. OnLink(<<s, q>>, y)' <=> OnLink(<<s, q>>, y) \/ (s = p /\ q = to /\ y = x)
    BY <1>11, <2>1
  <2>6. ASSUME y.call \in 1..Len(session)
        PROVE  Performed(s, y.call, Send(q, y.item))'
               <=> \/ Performed(s, y.call, Send(q, y.item))
                   \/ s = p /\ y.call = k /\ Send(q, y.item) = Operation(p)
    BY <1>12, <2>6
  <2> QED
    BY <1>3, <2>2, <2>3, <2>4, <2>5, <2>6
<1>15. \A s, q \in Party : <<s, q>> \in Link
  BY DEF Link
<1>16. PastTaken'
  <2>1. PastTaken
    BY DEF ProtocolInv
  <2> QED
    BY <1>1, <1>11, <1>15, <2>1 DEF PastTaken
<1>17. NamedInv'
  <2> SUFFICES ASSUME NEW q \in Party, call[q] <= Len(session), ~Opening(session[call[q]])
               PROVE  AsAwaited(q)'
    BY <1>1 DEF NamedInv
  <2>1. AsAwaited(q) /\ call[q] \in 1..Len(session)
    BY <1>2, CallType DEF ProtocolInv, NamedInv
  <2>2. \A s, item : RecvFrom(s, item) # Operation(p)
    BY <1>1 DEF RecvFrom
  <2>3. \A j \in 1..Len(session) : \A s, item :
          Performed(q, j, RecvFrom(s, item))' <=> Performed(q, j, RecvFrom(s, item))
    BY <1>12, <2>2
  <2> QED
    BY <1>1, <1>11, <1>15, <2>1, <2>3 DEF AsAwaited
<1>18. OpeningInv'
  <2> SUFFICES ASSUME NEW q \in Party, call[q] <= Len(session), Opening(session[call[q]])
               PROVE  Receipts(q)' /\ Counted(q)' /\ FullSet(q)'
    BY <1>1 DEF OpeningInv
  <2>1. Receipts(q) /\ Counted(q) /\ FullSet(q)
    BY DEF ProtocolInv, OpeningInv
  <2>2. \A i \in 1..Len(taken[q]) :
          taken[q][i].sender \in Party /\ taken[q][i].packet \in Packet
    BY <1>2, TakenType
  <2>3. Receipts(q)'
    BY <1>1, <1>11, <1>15, <2>1, <2>2 DEF Receipts
  <2>4. FullSet(q)'
    BY <1>1, <2>1 DEF FullSet
  <2>5. CASE q # p
    <3>1. Counted(q)'
      BY <1>1, <1>8, <1>9, <2>1, <2>5 DEF Counted
    <3> QED
      BY <2>3, <2>4, <3>1
  <2>6. CASE q = p
    <3> SUFFICES Counted(p)'
      BY <2>3, <2>4, <2>6
    <3>1. CASE ~Collects(p, session[k])
      BY <1>1, <2>1, <2>6, <3>1 DEF Counted
    <3>2. CASE Collects(p, session[k])
      <4>1. PICK before \in Nat :
              /\ Len(CurrentScript(p)) - Len(Others(p)) = before
              /\ step[p] > before => Operation(p) = RecvAny(p, "share")
        BY <1>1, <1>2, <2>6, <3>2, CollectorOperation
      <4>2. step[p] <= before
        <5>1. RecvAny(p, "share").do # "send"
          BY DEF RecvAny
        <5> QED
          BY <1>1, <1>3, <4>1, <5>1
      <4>3. status[p] = "running" /\ taken[p] = <<>>
        BY <1>1, <2>1, <2>6, <3>2, <4>1, <4>2 DEF Counted, Running, InCall
      <4>4. step'[p] = step[p] + 1 /\ step[p] \in Nat
        BY <1>6, <1>8
      <4>5. step'[p] > before => 0 = step'[p] - 1 - before
        BY <4>2, <4>4
      <4> QED
        BY <1>1, <1>9, <3>2, <4>1, <4>3, <4>5 DEF Counted
    <3> QED
      BY <3>1, <3>2
  <2> QED
    BY <2>5, <2>6
<1> QED
  BY <1>7, <1>10, <1>13, <1>14, <1>16, <1>17, <1>18 DEF ProtocolInv

\* What every receive does, whether it goes on or fails.
LEMMA ReceiveFacts ==
  ASSUME ProtocolInv, NEW p \in Party, NEW s \in Party, Running(p), Receive(p, s),
         Operation(p).do # "send",
         \/ step' = [step EXCEPT ![p] = @ + 1] /\ status' = status
         \/ step' = step /\ status' \in [Party -> {"running", "failed"}]
  PROVE  /\ TypeOK' /\ PlaceInv' /\ SentInOrder' /\ SentAsPerformed' /\ PastTaken'
         /\ \A q \in Party : CurrentScript(q)' = CurrentScript(q)
         /\ taken'[p] = Append(taken[p], Receipt(p, s))
         /\ Receipt(p, s).sender = s /\ Receipt(p, s).packet = NextPacket(<<s, p>>)
         /\ Receipt(p, s).awaited = OwnPacket(p) /\ NextPacket(<<s, p>>) \in Packet
         /\ \A q \in Party \ {p} : taken'[q] = taken[q]
         /\ \A r, q \in Party, x \in Packet :
              Taken(<<r, q>>, x)' <=> \/ Taken(<<r, q>>, x)
                                      \/ r = s /\ q = p /\ x = NextPacket(<<s, p>>)
<1> DEFINE l == <<s, p>>
           R == [sender : Party, packet : Packet, awaited : Packet]
<1>1. /\ HasPacket(l) /\ received' = [received EXCEPT ![l] = @ + 1]
      /\ taken' = [taken EXCEPT ![p] = Append(@, Receipt(p, s))]
      /\ session' = session /\ call' = call /\ sent' = sent
  BY DEF Receive
<1>2. TypeOK /\ SentInOrder /\ PlaceInv
  BY DEF ProtocolInv
<1>3. l \in Link /\ \A r, q \in Party : <<r, q>> \in Link
  BY DEF Link
<1>4. /\ call[p] \in 1..Len(session) /\ OwnPacket(p) \in Packet
      /\ step[p] \in 1..Len(CurrentScript(p))
  BY <1>2, OperationType
<1>5. NextPacket(l) \in Packet
  BY <1>1, <1>2, <1>3, NextPacketFacts
<1>6. /\ Receipt(p, s) \in R /\ Receipt(p, s).sender = s
      /\ Receipt(p, s).packet = NextPacket(l) /\ Receipt(p, s).awaited = OwnPacket(p)
  BY <1>4, <1>5 DEF Receipt
<1>7. /\ taken \in [Party -> Seq(R)] /\ received \in [Link -> Nat]
      /\ step \in [Party -> Nat \ {0}] /\ call \in [Party -> Nat \ {0}]
  BY <1>2 DEF TypeOK
<1> HIDE DEF R
<1>8. taken'[p] = Append(taken[p], Receipt(p, s)) /\ \A q \in Party \ {p} : taken'[q] = taken[q]
  BY <1>1, <1>7
<1>9. taken' \in [Party -> Seq(R)]
  <2>1. Append(taken[p], Receipt(p, s)) \in Seq(R)
    BY <1>6, <1>7
  <2> QED
    BY <1>1, <1>7, <2>1
<1>10. received' \in [Link -> Nat] /\ \A m \in Link : received'[m] <= Len(sent'[m])
  <2>1. received' \in [Link -> Nat]
    <3>1. received[l] + 1 \in Nat
      BY <1>3, <1>7
    <3> QED
      BY <1>1, <1>3, <1>7, <3>1
  <2>2. \A m \in Link : received[m] <= Len(sent[m])
    BY <1>2 DEF TypeOK
  <2>3. sent[l] \in Seq(Packet)
    BY <1>2, <1>3 DEF TypeOK
  <2>4. received[l] + 1 <= Len(sent[l])
    <3>1. received[l] \in Nat /\ Len(sent[l]) \in Nat /\ received[l] < Len(sent[l])
      BY <1>1, <1>3, <1>7, <2>3 DEF HasPacket
    <3> QED
      BY <3>1
  <2>5. \A m \in Link : received'[m] = IF m = l THEN received[l] + 1 ELSE received[m]
    BY <1>1, <1>7
  <2> QED
    BY <1>1, <1>3, <2>1, <2>2, <2>4, <2>5
<1>11. step' \in [Party -> Nat \ {0}]
  BY <1>7
<1>12. status' \in [Party -> {"running", "failed"}]
  BY <1>2 DEF TypeOK
<1>13. TypeOK'
  BY <1>1, <1>2, <1>9, <1>10, <1>11, <1>12 DEF TypeOK, R
<1>14. \A q \in Party : CurrentScript(q)' = CurrentScript(q)
  BY <1>1 DEF CurrentScript
<1>15. PlaceInv'
  <2> SUFFICES ASSUME NEW q \in Party, call[q] <= Len(session)
               PROVE  step'[q] <= Len(CurrentScript(q)) + 1
    <3>1. \A q \in Party : call[q] > Len(session) => taken'[q] = <<>>
      <4> SUFFICES ASSUME NEW q \in Party, call[q] > Len(session) PROVE q # p
        BY <1>2, <1>8 DEF PlaceInv
      <4> QED
        BY <1>2, <1>4 DEF TypeOK
    <3> QED
      BY <1>1, <1>2, <1>14, <3>1 DEF PlaceInv
  <2>1. step[q] <= Len(CurrentScript(q)) + 1 /\ step[q] \in Nat
    BY <1>2, <1>7 DEF PlaceInv
  <2>2. step'[q] = step[q] \/ (q = p /\ step'[q] = step[q] + 1)
    BY <1>7
  <2> QED
    BY <1>4, <2>1, <2>2
<1>16. SentInOrder'
  BY <1>1, <1>2 DEF SentInOrder
<1>17. \A m \in Link : \A x :
         /\ OnLink(m, x)' <=> OnLink(m, x)
         /\ Taken(m, x)' <=> Taken(m, x) \/ (m = l /\ x = NextPacket(l))
  BY <1>1, <1>2, <1>3, ReceiveEffect
<1>18. \A q \in Party, j \in 1..Len(session) : \A to, item :
         Performed(q, j, Send(to, item))' <=> Performed(q, j, Send(to, item))
  <2>1. \A to, item : Send(to, item) # Operation(p)
    BY DEF Send
  <2>2. CASE step' = [step EXCEPT ![p] = @ + 1]
    <3>1. \A q \in Party, j \in 1..Len(session) : \A op :
            Performed(q, j, op)'
            <=> Performed(q, j, op) \/ (q = p /\ j = call[p] /\ op = Operation(p))
      BY <1>1, <1>2, <2>2, StepPerforms
    <3> QED
      BY <2>1, <3>1
  <2>3. CASE step' = step
    BY <1>1, <2>3 DEF Performed
  <2> QED
    BY <2>2, <2>3
<1>19. SentAsPerformed'
  <2>1. SentAsPerformed
    BY DEF ProtocolInv
  <2> SUFFICES ASSUME NEW r \in Party, NEW q \in Party, NEW y \in Packet
               PROVE  OnLink(<<r, q>>, y)'
                      <=> y.call \in 1..Len(session) /\ Performed(r, y.call, Send(q, y.item))'
    BY <1>1 DEF SentAsPerformed
  <2> QED
    BY <1>3, <1>17, <1>18, <2>1 DEF SentAsPerformed
<1>20. \A r, q \in Party : \A x :
              Taken(<<r, q>>, x)' <=> \/ Taken(<<r, q>>, x)
                                      \/ r = s /\ q = p /\ x = NextPacket(<<s, p>>)
  BY <1>3, <1>17
<1>21. PastTaken'
  <2>1. PastTaken
    BY DEF ProtocolInv
  <2> QED
    BY <1>1, <1>20, <2>1 DEF PastTaken
<1> QED
  BY <1>5, <1>6, <1>8, <1>13, <1>14, <1>15, <1>16, <1>19, <1>20, <1>21

LEMMA ReceiveFromStep ==
  ASSUME ProtocolInv, NEW p \in Party, ReceiveFrom(p)
  PROVE  ProtocolInv'
<1> DEFINE s == Operation(p).peer
           y == NextPacket(<<s, p>>)
<1>1. /\ Running(p) /\ Operation(p).do = "recv_from" /\ Receive(p, s)
      /\ step' = [step EXCEPT ![p] = @ + 1] /\ status' = status
      /\ session' = session /\ call' = call /\ HasPacket(<<s, p>>)
  BY DEF ReceiveFrom, Receive
<1>2. TypeOK /\ step \in [Party -> Nat \ {0}]
  BY DEF ProtocolInv, TypeOK
<1>3. /\ Operation(p) \in Op /\ call[p] \in 1..Len(session) /\ session[call[p]] \in Call
      /\ OwnPacket(p) \in Packet /\ OwnPacket(p) = PacketOf(call[p], Operation(p).item)
  BY <1>1, <1>2, OperationType
<1>4. s \in Party /\ Operation(p) = RecvFrom(s, Operation(p).item)
  BY <1>1, <1>3 DEF Op, RecvFrom
<1> HIDE DEF s
<1>5. /\ TypeOK' /\ PlaceInv' /\ SentInOrder' /\ SentAsPerformed' /\ PastTaken'
      /\ taken'[p] = Append(taken[p], Receipt(p, s))
      /\ Receipt(p, s).sender = s /\ Receipt(p, s).packet = y
      /\ Receipt(p, s).awaited = OwnPacket(p)
      /\ \A q \in Party \ {p} : taken'[q] = taken[q]
      /\ \A r, q \in Party, x \in Packet :
              Taken(<<r, q>>, x)' <=> \/ Taken(<<r, q>>, x)
                                      \/ r = s /\ q = p /\ x = y
  BY <1>1, <1>4, ReceiveFacts
<1>6. ~Opening(session[call[p]]) /\ AsAwaited(p) /\ y = OwnPacket(p)
  BY <1>1, NamedReceive DEF s
<1>7. \A q \in Party, j \in 1..Len(session) : \A op :
         Performed(q, j, op)'
         <=> Performed(q, j, op) \/ (q = p /\ j = call[p] /\ op = Operation(p))
  BY <1>1, <1>2, StepPerforms
<1> HIDE DEF y
<1>8. \A q \in Party \ {p} : step'[q] = step[q]
  BY <1>1, <1>2
<1>9. ASSUME NEW q \in Party \ {p}
      PROVE  /\ AsAwaited(q) => AsAwaited(q)'
             /\ Receipts(q) => Receipts(q)'
             /\ Counted(q) => Counted(q)'
             /\ FullSet(q) => FullSet(q)'
  <2>1. \A r \in Party, x \in Packet : Taken(<<r, q>>, x)' <=> Taken(<<r, q>>, x)
    BY <1>5
  <2> QED
    BY <1>1, <1>2, <1>5, <1>8, <2>1, PartyUntouched
<1>10. AsAwaited(p)'
  <2>1. PICK n \in Nat : Len(taken[p]) = n
    BY <1>2, TakenType
  <2>2. /\ Len(taken'[p]) = n + 1 /\ taken'[p][n + 1] = Receipt(p, s)
        /\ \A i \in 1..n : taken'[p][i] = taken[p][i]
    <3>1. taken[p] \in Seq([sender : Party, packet : Packet, awaited : Packet])
      BY <1>2, TakenType
    <3> QED
      BY <1>5, <2>1, <3>1
  <2>3. \A i \in 1..n + 1 : taken'[p][i].packet = taken'[p][i].awaited
    <3> TAKE i \in 1..n + 1
    <3>1. CASE i = n + 1
      BY <1>5, <1>6, <2>2, <3>1
    <3>2. CASE i \in 1..n
      BY <1>6, <2>1, <2>2, <3>2 DEF AsAwaited
    <3> QED
      BY <3>1, <3>2
  <2>4. ASSUME NEW r \in Party, NEW x \in Packet, x.call >= call[p]
        PROVE  Taken(<<r, p>>, x)'
               <=> x.call = call[p] /\ Performed(p, call[p], RecvFrom(r, x.item))'
    <3>1. Taken(<<r, p>>, x)
          <=> x.call = call[p] /\ Performed(p, call[p], RecvFrom(r, x.item))
      BY <1>6, <2>4 DEF AsAwaited
    <3>2. Taken(<<r, p>>, x)' <=> Taken(<<r, p>>, x) \/ (r = s /\ x = OwnPacket(p))
      BY <1>5, <1>6
    <3>3. Performed(p, call[p], RecvFrom(r, x.item))'
          <=> \/ Performed(p, call[p], RecvFrom(r, x.item))
              \/ RecvFrom(r, x.item) = Operation(p)
      BY <1>1, <1>3, <1>7
    <3>4. RecvFrom(r, x.item) = Operation(p) <=> r = s /\ x.item = Operation(p).item
      BY <1>4 DEF RecvFrom
    <3>5. x = OwnPacket(p) <=> x.call = call[p] /\ x.item = Operation(p).item
      BY <1>3 DEF Packet, PacketOf
    <3> QED
      BY <3>1, <3>2, <3>3, <3>4, <3>5
  <2> QED
    BY <1>1, <2>2, <2>3, <2>4 DEF AsAwaited
<1>11. NamedInv'
  <2> SUFFICES ASSUME NEW q \in Party, call[q] <= Len(session), ~Opening(session[call[q]])
               PROVE  AsAwaited(q)'
    BY <1>1 DEF NamedInv
  <2> QED
    BY <1>9, <1>10 DEF ProtocolInv, NamedInv
<1>12. OpeningInv'
  <2> SUFFICES ASSUME NEW q \in Party, call[q] <= Len(session), Opening(session[call[q]])
               PROVE  Receipts(q)' /\ Counted(q)' /\ FullSet(q)'
    BY <1>1 DEF OpeningInv
  <2> QED
    BY <1>6, <1>9 DEF ProtocolInv, OpeningInv
<1> QED
  BY <1>5, <1>11, <1>12 DEF ProtocolInv

LEMMA ReceiveAnyStep ==
  ASSUME ProtocolInv, NEW p \in Party, ReceiveAny(p)
  PROVE  ProtocolInv'
<1> DEFINE k == call[p]
           c == session[k]
<1>1. /\ Running(p) /\ Operation(p).do = "recv_any" /\ status[p] = "running"
      /\ IF Fails(p, taken'[p])
           THEN status' = [status EXCEPT ![p] = "failed"] /\ step' = step
           ELSE step' = [step EXCEPT ![p] = @ + 1] /\ status' = status
  BY DEF ReceiveAny, Running, InCall
<1>2. PICK s \in Party : Receive(p, s)
  BY DEF ReceiveAny
<1>3. /\ TypeOK /\ step \in [Party -> Nat \ {0}]
      /\ status \in [Party -> {"running", "failed"}]
  BY DEF ProtocolInv, TypeOK
<1>4. /\ HasPacket(<<s, p>>) /\ session' = session /\ call' = call
  BY <1>2 DEF Receive
<1>5. /\ k \in 1..Len(session) /\ c \in Call /\ Operation(p) \in Op
      /\ Has(CurrentScript(p), Operation(p)) /\ step[p] \in Nat
      /\ OwnPacket(p) = PacketOf(k, Operation(p).item)
  BY <1>1, <1>3, OperationType
<1>6. /\ \/ step' = [step EXCEPT ![p] = @ + 1] /\ status' = status
         \/ step' = step /\ status' \in [Party -> {"running", "failed"}]
      /\ \A q \in Party \ {p} : step'[q] = step[q] /\ status'[q] = status[q]
  BY <1>1, <1>3
<1>y. PICK y \in Packet : y = NextPacket(<<s, p>>)
  BY <1>1, <1>2, <1>6, ReceiveFacts
<1>7. /\ TypeOK' /\ PlaceInv' /\ SentInOrder' /\ SentAsPerformed' /\ PastTaken'
      /\ \A q \in Party : CurrentScript(q)' = CurrentScript(q)
      /\ taken'[p] = Append(taken[p], Receipt(p, s))
      /\ Receipt(p, s).sender = s /\ Receipt(p, s).packet = y
      /\ Receipt(p, s).awaited = OwnPacket(p) /\ y \in Packet
      /\ \A q \in Party \ {p} : taken'[q] = taken[q]
      /\ \A r, q \in Party, x \in Packet :
              Taken(<<r, q>>, x)' <=> \/ Taken(<<r, q>>, x)
                                      \/ r = s /\ q = p /\ x = y
  BY <1>1, <1>2, <1>6, <1>y, ReceiveFacts
<1>8. Opening(c) /\ Collects(p, c)
  <2>1. Opening(c)
    BY <1>1, <1>5, NamedScripts DEF CurrentScript
  <2> QED
    BY <1>1, <1>5, <2>1, OpeningScripts DEF CurrentScript
<1>9. Receipts(p) /\ Counted(p)
  BY <1>5, <1>8 DEF ProtocolInv, OpeningInv
<1>10. ~Taken(<<s, p>>, y) /\ y.call >= k
  <2>1. <<s, p>> \in Link /\ SentInOrder
    BY DEF Link, ProtocolInv
  <2>2. OnLink(<<s, p>>, y) /\ ~Taken(<<s, p>>, y)
    BY <1>3, <1>4, <1>y, <2>1, NextPacketFacts
  <2> QED
    BY <1>7, <2>2, WaitingPacket DEF ProtocolInv
<1>11. PICK before \in Nat :
         /\ Len(CurrentScript(p)) - Len(Others(p)) = before
         /\ step[p] <= before => Operation(p).do = "send"
         /\ step[p] > before => Operation(p) = RecvAny(p, "share")
  BY <1>1, <1>3, <1>8, CollectorOperation
<1>12. step[p] > before /\ Operation(p).item = "share"
  <2>1. step[p] > before
    BY <1>1, <1>5, <1>11
  <2> QED
    BY <1>11, <2>1 DEF RecvAny
<1>13. PICK n \in Nat : Len(taken[p]) = n
  BY <1>3, TakenType
<1>14. n = step[p] - 1 - before
  BY <1>1, <1>8, <1>9, <1>11, <1>12, <1>13 DEF Counted
<1>15. /\ Len(taken'[p]) = n + 1 /\ taken'[p][n + 1] = Receipt(p, s)
       /\ \A i \in 1..n : taken'[p][i] = taken[p][i]
  <2>1. taken[p] \in Seq([sender : Party, packet : Packet, awaited : Packet])
    BY <1>3, TakenType
  <2> QED
    BY <1>7, <1>13, <2>1
<1>16. Counted(p)'
  <2>1. ASSUME status'[p] = "running" PROVE step'[p] = step[p] + 1
    BY <1>1, <1>3, <2>1
  <2>2. ASSUME status'[p] = "running"
        PROVE  step'[p] > before /\ n + 1 = step'[p] - 1 - before
    <3>1. step'[p] = step[p] + 1
      BY <2>1, <2>2
    <3> QED
      BY <1>5, <1>12, <1>14, <3>1
  <2>3. status'[p] = "running" => ~(step'[p] <= before)
    <3>1. status'[p] = "running" => step'[p] = step[p] + 1
      BY <2>1
    <3> QED
      BY <1>5, <1>12, <3>1
  <2> QED
    BY <1>4, <1>7, <1>8, <1>11, <1>15, <2>2, <2>3 DEF Counted
<1>17. FullSet(p)'
  <2> SUFFICES ASSUME status'[p] = "running", Len(taken'[p]) + 1 = Len(PartyOrder)
               PROVE  IsInjective(Senders(p, taken'[p]))
    BY DEF FullSet
  <2>1. ~Fails(p, taken'[p])
    BY <1>1, <1>3
  <2>2. Len(Senders(p, taken'[p])) = 1 + Len(taken'[p])
    <3>1. \A i \in 1..Len(taken'[p]) : taken'[p][i].sender \in Party
      <4> SUFFICES ASSUME NEW i \in 1..n + 1 PROVE taken'[p][i].sender \in Party
        BY <1>15
      <4>1. CASE i = n + 1
        BY <1>7, <1>15, <4>1
      <4>2. CASE i \in 1..n
        BY <1>3, <1>13, <1>15, <4>2, TakenType
      <4> QED
        BY <4>1, <4>2
    <3>2. [i \in 1..Len(taken'[p]) |-> taken'[p][i].sender] \in Seq(Party)
      BY <1>15, <3>1
    <3>3. Len([i \in 1..Len(taken'[p]) |-> taken'[p][i].sender]) = n + 1
      BY <1>15
    <3> QED
      BY <1>15, <3>2, <3>3, OneMore DEF Senders
  <2>3. Len(Senders(p, taken'[p])) = Len(PartyOrder)
    BY <1>15, <2>2
  <2> QED
    BY <2>1, <2>3 DEF Fails
<1>18. Receipts(p)'
  <2>1. \A i \in 1..n :
          /\ taken[p][i].sender \in Party /\ taken[p][i].packet \in Packet
          /\ taken[p][i].awaited = PacketOf(k, "share")
          /\ taken[p][i].packet.call >= k
          /\ Taken(<<taken[p][i].sender, p>>, taken[p][i].packet)
    BY <1>3, <1>9, <1>13, TakenType DEF Receipts
  <2>2. /\ Receipt(p, s).sender = s /\ Receipt(p, s).packet = y
        /\ Receipt(p, s).awaited = PacketOf(k, "share")
    BY <1>5, <1>7, <1>12
  <2>3. Taken(<<s, p>>, y)'
    BY <1>7
  <2>4. \A i \in 1..n + 1 :
          /\ taken'[p][i].awaited = PacketOf(k, "share")
          /\ taken'[p][i].packet.call >= k
          /\ Taken(<<taken[p][i].sender, p>>, taken[p][i].packet)'
    <3> TAKE i \in 1..n + 1
    <3>1. CASE i = n + 1
      BY <1>10, <1>15, <2>2, <2>3, <3>1
    <3>2. CASE i \in 1..n
      <4>1. PICK r \in Party, x \in Packet :
              taken[p][i].sender = r /\ taken[p][i].packet = x
        BY <2>1, <3>2
      <4>2. Taken(<<r, p>>, x)'
        BY <1>7, <2>1, <3>2, <4>1
      <4> QED
        BY <1>15, <2>1, <3>2, <4>1, <4>2
    <3> QED
      BY <3>1, <3>2
  <2>5. \A i, j \in 1..n + 1 :
          i < j /\ taken'[p][i].sender = taken'[p][j].sender
          => taken'[p][i].packet # taken'[p][j].packet
    <3> TAKE i, j \in 1..n + 1
    <3> HAVE i < j /\ taken'[p][i].sender = taken'[p][j].sender
    <3>1. i \in 1..n
      OBVIOUS
    <3>2. CASE j = n + 1
      <4>1. taken[p][i].sender = s /\ taken'[p][j].packet = y
        BY <1>15, <2>2, <3>1, <3>2
      <4>2. taken[p][i].packet # y
        BY <1>10, <2>1, <3>1, <4>1
      <4> QED
        BY <1>15, <3>1, <4>1, <4>2
    <3>3. CASE j \in 1..n
      <4>1. taken'[p][i] = taken[p][i] /\ taken'[p][j] = taken[p][j]
        BY <1>15, <3>1, <3>3
      <4>2. taken[p][i].sender = taken[p][j].sender
        BY <4>1
      <4> QED
        BY <1>9, <1>13, <3>1, <3>3, <4>1, <4>2 DEF Receipts
    <3> QED
      BY <3>2, <3>3
  <2>6. ASSUME NEW r \in Party, NEW x \in Packet, Taken(<<r, p>>, x)', x.call >= k
        PROVE  \E i \in 1..n + 1 : taken'[p][i].sender = r /\ taken'[p][i].packet = x
    <3>1. CASE Taken(<<r, p>>, x)
      <4>1. PICK i \in 1..n : taken[p][i].sender = r /\ taken[p][i].packet = x
        BY <1>9, <1>13, <2>6, <3>1 DEF Receipts
      <4>2. i \in 1..n + 1
        OBVIOUS
      <4> QED
        BY <1>15, <4>1, <4>2
    <3>2. CASE r = s /\ x = y
      <4>1. n + 1 \in 1..n + 1
        OBVIOUS
      <4> QED
        BY <1>15, <2>2, <3>2, <4>1
    <3> QED
      BY <1>7, <2>6, <3>1, <3>2
  <2> QED
    BY <1>4, <1>15, <2>4, <2>5, <2>6 DEF Receipts
<1>19. ASSUME NEW q \in Party \ {p}
       PROVE  /\ AsAwaited(q) => AsAwaited(q)'
              /\ Receipts(q) => Receipts(q)'
              /\ Counted(q) => Counted(q)'
              /\ FullSet(q) => FullSet(q)'
  <2>1. \A r \in Party, x \in Packet : Taken(<<r, q>>, x)' <=> Taken(<<r, q>>, x)
    BY <1>7
  <2> QED
    BY <1>3, <1>4, <1>6, <1>7, <2>1, PartyUntouched
<1>20. NamedInv'
  <2> SUFFICES ASSUME NEW q \in Party, call[q] <= Len(session), ~Opening(session[call[q]])
               PROVE  AsAwaited(q)'
    BY <1>4 DEF NamedInv
  <2> QED
    BY <1>8, <1>19 DEF ProtocolInv, NamedInv
<1>21. OpeningInv'
  <2> SUFFICES ASSUME NEW q \in Party, call[q] <= Len(session), Opening(session[call[q]])
               PROVE  Receipts(q)' /\ Counted(q)' /\ FullSet(q)'
    BY <1>4 DEF OpeningInv
  <2> QED
    BY <1>16, <1>17, <1>18, <1>19 DEF ProtocolInv, OpeningInv
<1> QED
  BY <1>7, <1>20, <1>21 DEF ProtocolInv

LEMMA NextCallStep ==
  ASSUME ProtocolInv, NEW p \in Party, NextCall(p)
  PROVE  ProtocolInv'
<1>1. /\ Returning(p)
      /\ call' = [call EXCEPT ![p] = @ + 1] /\ step' = [step EXCEPT ![p] = 1]
      /\ taken' = [taken EXCEPT ![p] = <<>>]
      /\ session' = session /\ sent' = sent /\ received' = received /\ status' = status
  BY DEF NextCall
<1>2. TypeOK
  BY DEF ProtocolInv
<1>3. session \in Seq(Call)
  BY <1>2 DEF TypeOK
<1>k. PICK k \in 1..Len(session) : k = call[p]
  BY <1>1, <1>2, CallType DEF Returning, InCall
<1>4. /\ call \in [Party -> Nat \ {0}] /\ step \in [Party -> Nat \ {0}]
      /\ taken \in [Party -> Seq([sender : Party, packet : Packet, awaited : Packet])]
  BY <1>2 DEF TypeOK
<1>5. /\ call'[p] = k + 1 /\ step'[p] = 1 /\ taken'[p] = <<>>
      /\ \A q \in Party \ {p} :
           call'[q] = call[q] /\ step'[q] = step[q] /\ taken'[q] = taken[q]
  BY <1>1, <1>4, <1>k
<1>6. TypeOK'
  <2>1. call' \in [Party -> Nat \ {0}]
    BY <1>1, <1>4
  <2>2. step' \in [Party -> Nat \ {0}]
    BY <1>1, <1>4
  <2>3. taken' \in [Party -> Seq([sender : Party, packet : Packet, awaited : Packet])]
    <3> DEFINE R == [sender : Party, packet : Packet, awaited : Packet]
    <3>1. taken \in [Party -> Seq(R)]
      BY <1>4
    <3> HIDE DEF R
    <3>2. taken' \in [Party -> Seq(R)]
      BY <1>1, <3>1
    <3> QED
      BY <3>2 DEF R
  <2> QED
    BY <1>1, <1>2, <2>1, <2>2, <2>3 DEF TypeOK
<1>7. /\ \A s, q \in Party : <<s, q>> \in Link
      /\ \A m, x : (OnLink(m, x)' <=> OnLink(m, x)) /\ (Taken(m, x)' <=> Taken(m, x))
  BY <1>1 DEF Link, OnLink, Taken
<1>8. \A q \in Party, j \in 1..Len(session) : \A op : Performed(q, j, op)' <=> Performed(q, j, op)
  BY <1>1, <1>2, NextCallPerforms
<1>9. PlaceInv'
  <2> SUFFICES ASSUME NEW q \in Party
               PROVE  /\ call'[q] <= Len(session) + 1
                      /\ call'[q] > Len(session) => taken'[q] = <<>>
                      /\ call'[q] <= Len(session) => step'[q] <= Len(CurrentScript(q)') + 1
    BY <1>1 DEF PlaceInv
  <2>1. CASE q = p
    <3>1. k + 1 <= Len(session) + 1
      BY <1>3
    <3>2. ASSUME k + 1 <= Len(session) PROVE Len(CurrentScript(p)') \in Nat
      <4>1. PICK j \in 1..Len(session) : j = k + 1
        BY <1>3, <3>2
      <4>2. session[j] \in Call
        BY <1>3
      <4>3. CurrentScript(p)' = Script(p, session[j])
        BY <1>1, <1>5, <4>1 DEF CurrentScript
      <4> QED
        BY <4>2, <4>3, ScriptOps
    <3> QED
      BY <1>5, <2>1, <3>1, <3>2
  <2>2. CASE q # p
    <3>1. CurrentScript(q)' = CurrentScript(q)
      BY <1>1, <1>5, <2>2 DEF CurrentScript
    <3> QED
      BY <1>5, <2>2, <3>1 DEF ProtocolInv, PlaceInv
  <2> QED
    BY <2>1, <2>2
<1>10. SentInOrder'
  BY <1>1 DEF ProtocolInv, SentInOrder
<1>11. SentAsPerformed'
  <2>1. SentAsPerformed
    BY DEF ProtocolInv
  <2> SUFFICES ASSUME NEW s \in Party, NEW q \in Party, NEW x \in Packet
               PROVE  OnLink(<<s, q>>, x)'
                      <=> x.call \in 1..Len(session) /\ Performed(s, x.call, Send(q, x.item))'
    BY <1>1 DEF SentAsPerformed
  <2> QED
    BY <1>7, <1>8, <2>1 DEF SentAsPerformed
<1>12. PastTaken'
  <2> SUFFICES ASSUME NEW s \in Party, NEW q \in Party, NEW j \in 1..Len(session),
                      NEW item \in Item, j < call'[q],
                      Has(Script(s, session[j]), Send(q, item))
               PROVE  Taken(<<s, q>>, PacketOf(j, item))
    BY <1>1, <1>7 DEF PastTaken
  <2>1. CASE j < call[q]
    BY <2>1 DEF ProtocolInv, PastTaken
  <2>2. CASE q = p /\ j = k
    BY <1>1, <1>k, <2>2, CallComplete
  <2> QED
    BY <1>3, <1>5, <1>k, <2>1, <2>2
<1>13. \A s \in Party, x \in Packet : Taken(<<s, p>>, x) => ~(x.call >= k + 1)
  <2> TAKE s \in Party, x \in Packet
  <2>1. Taken(<<s, p>>, x) => x.call <= k
    BY <1>1, <1>k, CallComplete
  <2>2. x.call \in Nat
    BY DEF Packet
  <2> QED
    BY <1>3, <2>1, <2>2
<1>14. ASSUME NEW q \in Party \ {p}
       PROVE  /\ AsAwaited(q) => AsAwaited(q)'
              /\ Receipts(q) => Receipts(q)'
              /\ Counted(q) => Counted(q)'
              /\ FullSet(q) => FullSet(q)'
  <2>1. \A r \in Party, x \in Packet : Taken(<<r, q>>, x)' <=> Taken(<<r, q>>, x)
    BY <1>7
  <2> QED
    BY <1>1, <1>2, <1>5, <2>1, PartyUntouched
<1>15. AsAwaited(p)'
  <2>1. \A op : ~Performed(p, k + 1, op)'
    BY <1>3, <1>5 DEF Performed
  <2>2. \A s \in Party, x \in Packet : x.call >= k + 1 => ~Taken(<<s, p>>, x)'
    BY <1>7, <1>13
  <2> QED
    BY <1>5, <2>1, <2>2 DEF AsAwaited
<1>16. NamedInv'
  <2> SUFFICES ASSUME NEW q \in Party,
                      call'[q] <= Len(session), ~Opening(session[call'[q]])
               PROVE  AsAwaited(q)'
    BY <1>1 DEF NamedInv
  <2> QED
    BY <1>5, <1>14, <1>15 DEF ProtocolInv, NamedInv
<1>17. OpeningInv'
  <2> SUFFICES ASSUME NEW q \in Party,
                      call'[q] <= Len(session), Opening(session[call'[q]])
               PROVE  Receipts(q)' /\ Counted(q)' /\ FullSet(q)'
    BY <1>1 DEF OpeningInv
  <2>1. CASE q # p
    BY <1>5, <1>14, <2>1 DEF ProtocolInv, OpeningInv
  <2>2. CASE q = p
    <3>1. \A s \in Party, x \in Packet : x.call >= k + 1 => ~Taken(<<s, p>>, x)'
      BY <1>7, <1>13
    <3>2. Receipts(p)'
      BY <1>5, <3>1 DEF Receipts
    <3>3. FullSet(p)'
      <4>1. Senders(p, <<>>) \in Seq(Party) /\ Len(Senders(p, <<>>)) = 1
        BY DEF Senders
      <4>2. IsInjective(Senders(p, <<>>))
        BY <4>1 DEF IsInjective
      <4> QED
        BY <1>5, <4>2 DEF FullSet
    <3>4. PICK j \in 1..Len(session) : j = k + 1
      BY <1>3, <1>5, <2>2
    <3>5. CurrentScript(p)' = Script(p, session[j]) /\ session'[call'[p]] = session[j]
      BY <1>1, <1>5, <3>4 DEF CurrentScript
    <3>6. Counted(p)'
      <4>1. CASE ~Collects(p, session[j])
        BY <1>5, <3>5, <4>1 DEF Counted
      <4>2. CASE Collects(p, session[j])
        <5>1. session[j] \in Call /\ Opening(session[j]) /\ Len(Others(p)) \in Nat
          BY <1>3, <1>5, <2>2, <3>4, OthersList
        <5>2. PICK before \in Nat : Len(Script(p, session[j])) = before + Len(Others(p))
          BY <4>2, <5>1, CollectorScript
        <5>3. Len(CurrentScript(p)') - Len(Others(p)) = before
          BY <3>5, <5>1, <5>2
        <5>4. step'[p] > before => Len(taken'[p]) = step'[p] - 1 - before
          BY <1>5
        <5> QED
          BY <1>5, <3>5, <5>3, <5>4 DEF Counted
      <4> QED
        BY <4>1, <4>2
    <3> QED
      BY <2>2, <3>2, <3>3, <3>6
  <2> QED
    BY <2>1, <2>2
<1> QED
  BY <1>6, <1>9, <1>10, <1>11, <1>12, <1>16, <1>17 DEF ProtocolInv

LEMMA UnchangedInv == ProtocolInv /\ UNCHANGED vars => ProtocolInv'
<1> SUFFICES ASSUME ProtocolInv, UNCHANGED vars PROVE ProtocolInv'
  OBVIOUS
<1>1. /\ session' = session /\ call' = call /\ step' = step /\ sent' = sent
      /\ received' = received /\ taken' = taken /\ status' = status
  BY DEF vars
<1>2. TypeOK'
  BY <1>1 DEF ProtocolInv, TypeOK
<1>3. PlaceInv' /\ SentInOrder'
  BY <1>1 DEF ProtocolInv, PlaceInv, SentInOrder, CurrentScript
<1>4. /\ \A l, x : (OnLink(l, x)' <=> OnLink(l, x)) /\ (Taken(l, x)' <=> Taken(l, x))
      /\ \A p, k, op : Performed(p, k, op)' <=> Performed(p, k, op)
  BY <1>1 DEF OnLink, Taken, Performed
<1>5. SentAsPerformed' /\ PastTaken'
  BY <1>1, <1>4 DEF ProtocolInv, SentAsPerformed, PastTaken
<1>6. ASSUME NEW p \in Party
      PROVE  /\ AsAwaited(p) => AsAwaited(p)'
             /\ Receipts(p) => Receipts(p)'
             /\ Counted(p) => Counted(p)'
             /\ FullSet(p) => FullSet(p)'
  BY <1>1, <1>4, PartyUntouched DEF ProtocolInv
<1>7. NamedInv' /\ OpeningInv'
  BY <1>1, <1>6 DEF ProtocolInv, NamedInv, OpeningInv
<1> QED
  BY <1>2, <1>3, <1>5, <1>7 DEF ProtocolInv

LEMMA InvariantHolds == Spec => []ProtocolInv
<1>1. Init => ProtocolInv
  BY InitInv
<1>2. ProtocolInv /\ [Next]_vars => ProtocolInv'
  <2> SUFFICES ASSUME ProtocolInv, [Next]_vars PROVE ProtocolInv'
    OBVIOUS
  <2>1. ASSUME NEW p \in Party, SendPacket(p) PROVE ProtocolInv'
    BY <2>1, SendStep
  <2>2. ASSUME NEW p \in Party, ReceiveFrom(p) PROVE ProtocolInv'
    BY <2>2, ReceiveFromStep
  <2>3. ASSUME NEW p \in Party, ReceiveAny(p) PROVE ProtocolInv'
    BY <2>3, ReceiveAnyStep
  <2>4. ASSUME NEW p \in Party, NextCall(p) PROVE ProtocolInv'
    BY <2>4, NextCallStep
  <2>5. CASE Ended
    BY <2>5, UnchangedInv DEF Ended
  <2>6. CASE UNCHANGED vars
    BY <2>6, UnchangedInv
  <2> QED
    BY <2>1, <2>2, <2>3, <2>4, <2>5, <2>6 DEF Next, PartyStep
<1> QED
  BY <1>1, <1>2, PTL DEF Spec

LEMMA SessionGiven == Spec => [](session \in Sessions)
<1>1. Init => session \in Sessions
  BY DEF Init
<1>2. session \in Sessions /\ [Next]_vars => (session \in Sessions)'
  <2> SUFFICES ASSUME [Next]_vars PROVE session' = session
    OBVIOUS
  <2> QED
    BY DEF Next, PartyStep, SendPacket, ReceiveFrom, ReceiveAny, Receive, NextCall, Ended, vars
<1> QED
  BY <1>1, <1>2, PTL DEF Spec

-----------------------------------------------------------------------------
(***************************************************************************)
(* The theorems.                                                           *)
(***************************************************************************)
\* The values of the variables: every packet and every receipt is well formed, and no
\* link delivers more than was sent on it.
THEOREM ProtocolTypes == Spec => []TypeOK
<1>1. ProtocolInv => TypeOK
  BY DEF ProtocolInv
<1> QED
  BY <1>1, InvariantHolds, PTL

\* Receives that name the sender (every run() but those of the openings) return the
\* packet they wait for, of the very call they belong to, in every session: also after
\* an opening that overtook, and while other parties are calls ahead.
THEOREM NamedReceives ==
  Spec => [](\A p \in Party : InCall(p) /\ ~Opening(session[call[p]]) =>
               \A i \in 1..Len(taken[p]) : taken[p][i].packet = taken[p][i].awaited)
<1>1. ProtocolInv =>
        \A p \in Party : InCall(p) /\ ~Opening(session[call[p]]) =>
          \A i \in 1..Len(taken[p]) : taken[p][i].packet = taken[p][i].awaited
  BY DEF ProtocolInv, NamedInv, AsAwaited, InCall
<1> QED
  BY <1>1, InvariantHolds, PTL

\* A protocol that returns has used the packets of its own call, whatever the session:
\* an opening of Shamir shares that succeeds reconstructs from its own shares.
THEOREM OwnPacketsOnly == Spec => []NoWrongSecret
<1>1. ProtocolInv => NoWrongSecret
  BY CallComplete DEF NoWrongSecret
<1> QED
  BY <1>1, InvariantHolds, PTL

\* "Leaving nothing queued in the network", in every session.
THEOREM NetworkLeftEmpty == Spec => []NothingQueued
<1>1. ProtocolInv => NothingQueued
  <2> SUFFICES ASSUME ProtocolInv, \A p \in Party : Done(p), NEW l \in Link, HasPacket(l)
               PROVE  FALSE
    BY DEF NothingQueued
  <2>1. PICK s \in Party, p \in Party : l = <<s, p>>
    BY DEF Link
  <2>2. PICK x \in Packet : OnLink(l, x) /\ ~Taken(l, x)
    BY NextPacketFacts DEF ProtocolInv
  <2>3. x.call \in 1..Len(session) /\ x.call >= call[p]
    BY <2>1, <2>2, WaitingPacket DEF ProtocolInv
  <2>4. call[p] \in Nat /\ Len(session) \in Nat /\ call[p] > Len(session)
    BY DEF Done, ProtocolInv, TypeOK
  <2> QED
    BY <2>3, <2>4
<1> QED
  BY <1>1, InvariantHolds, PTL

\* A packet that p has passed in its script is on its link.
LEMMA SentWhenPast ==
  ASSUME ProtocolInv, NEW p \in Party, NEW q \in Party, NEW k \in 1..Len(session),
         NEW item \in Item, call[p] > k, Has(Script(q, session[k]), Send(p, item))
  PROVE  \E i \in 1..Len(sent[<<q, p>>]) :
           sent[<<q, p>>][i].call = k /\ sent[<<q, p>>][i].item = item
<1>1. k < call[p]
  BY DEF ProtocolInv, TypeOK
<1>2. Taken(<<q, p>>, PacketOf(k, item))
  BY <1>1 DEF ProtocolInv, PastTaken
<1>3. <<q, p>> \in Link
  BY DEF Link
<1>4. OnLink(<<q, p>>, PacketOf(k, item))
  BY <1>2, <1>3, TakenOnLink DEF ProtocolInv
<1> QED
  BY <1>4 DEF OnLink, PacketOf

\* A king that has answered in a call has the shares of all the others in it.
LEMMA KingHasCollected ==
  ASSUME ProtocolInv, NEW king \in Party, NEW p \in Party, NEW q \in Party \ {king},
         NEW k \in 1..Len(session),
         session[k] = [protocol |-> "OpenToKing", who |-> king],
         Performed(king, k, Send(p, "secret"))
  PROVE  Taken(<<q, king>>, PacketOf(k, "share"))
<1> DEFINE c == session[k]
           script == Script(king, c)
<1>0. "share" \in Item /\ call[king] \in Nat /\ step[king] \in Nat
  BY DEF Item, ProtocolInv, TypeOK
<1>1. c \in Call /\ ~Opening(c) /\ script = OpenToKing(king, king)
  <2>1. c \in Call
    BY DEF ProtocolInv, TypeOK
  <2> QED
    BY <2>1 DEF Opening, Script
<1>2. /\ Has(script, RecvFrom(q, "share"))
      /\ \A i, j \in 1..Len(script) :
           script[i].do = "send" /\ script[j].do = "recv_from" => j < i
  BY <1>1, OpenToKingScript
<1>3. CASE k < call[king]
  <2>1. Has(Script(q, c), Send(king, "share"))
    BY <1>0, <1>1, <1>2, NamedScripts
  <2> QED
    BY <1>0, <1>3, <2>1 DEF ProtocolInv, PastTaken
<1>4. CASE k = call[king]
  <2>1. PICK i \in 1..Len(script) : i < step[king] /\ script[i] = Send(p, "secret")
    BY <1>0, <1>4 DEF Performed
  <2>2. PICK j \in 1..Len(script) : script[j] = RecvFrom(q, "share")
    BY <1>2 DEF Has
  <2>3. script[i].do = "send" /\ script[j].do = "recv_from"
    BY <2>1, <2>2 DEF Send, RecvFrom
  <2>4. script \in Seq(Op)
    BY <1>1, ScriptOps
  <2>5. j < step[king]
    <3>1. j < i
      BY <1>2, <2>3
    <3> QED
      BY <1>0, <2>1, <3>1, <2>4
  <2>6. Performed(king, k, RecvFrom(q, "share"))
    BY <1>4, <2>2, <2>5 DEF Performed
  <2>7. AsAwaited(king)
    BY <1>1, <1>4 DEF ProtocolInv, NamedInv
  <2>8. /\ PacketOf(k, "share") \in Packet /\ PacketOf(k, "share").call = k
        /\ PacketOf(k, "share").item = "share"
    BY DEF PacketOf, Packet
  <2> QED
    BY <1>0, <1>4, <2>6, <2>7, <2>8 DEF AsAwaited
<1>5. k <= call[king]
  BY PerformedFacts DEF ProtocolInv
<1> QED
  BY <1>0, <1>3, <1>4, <1>5

\* Nobody leaves a randomness generation or an opening by all, and no receiver leaves
\* its opening, before every party has contributed, in every session.
THEOREM NobodyLeavesEarly == Spec => []EveryoneContributes
<1>1. ProtocolInv => EveryoneContributes
  <2> SUFFICES ASSUME ProtocolInv, NEW p \in Party, NEW k \in 1..Len(session), call[p] > k,
                      \/ session[k].protocol
                           \in {"Open", "OpenToKing", "RandShr", "RandDoubleShr"}
                      \/ session[k] = [protocol |-> "OpenToParty", who |-> p],
                      NEW q \in Party \ {p}
               PROVE  \E r \in Party : \E i \in 1..Len(sent[<<q, r>>]) :
                        /\ sent[<<q, r>>][i].call = k
                        /\ sent[<<q, r>>][i].item # "secret" \/ q = session[k].who
    BY DEF EveryoneContributes
  <2> DEFINE c == session[k]
  <2>1. c \in Call /\ c.who \in Party
    <3>1. c \in Call
      BY DEF ProtocolInv, TypeOK
    <3> QED
      BY <3>1 DEF Call
  <2>2. {"share", "secret", "share_t", "share_2t"} = Item
    BY DEF Item
  <2>3. ASSUME NEW item \in Item, item # "secret" \/ q = c.who,
               Has(Script(q, c), Send(p, item))
        PROVE  \E i \in 1..Len(sent[<<q, p>>]) :
                 /\ sent[<<q, p>>][i].call = k
                 /\ sent[<<q, p>>][i].item # "secret" \/ q = c.who
    BY <2>3, SentWhenPast
  <2>4. CASE Opening(c)
    <3>1. Collects(p, c)
      BY <2>4 DEF Opening, Collects
    <3>2. Has(Script(q, c), Send(p, "share"))
      BY <2>1, <2>4, <3>1, OpeningScripts
    <3> QED
      BY <2>2, <2>3, <3>2
  <2>5. CASE c.protocol = "RandShr"
    <3>1. Script(q, c) = DealAndCollect(q, "share_t")
      BY <2>5 DEF Script
    <3>2. Has(Script(q, c), Send(p, "share_t"))
      BY <2>2, <3>1, DealAndCollectScript
    <3> QED
      BY <2>2, <2>3, <3>2
  <2>6. CASE c.protocol = "RandDoubleShr"
    <3>1. Script(q, c) = RandDoubleShr(q)
      BY <2>6 DEF Script
    <3>2. Has(Script(q, c), Send(p, "share_t"))
      BY <3>1, RandDoubleShrScript
    <3> QED
      BY <2>2, <2>3, <3>2
  <2>7. CASE c.protocol = "OpenToKing"
    <3>1. PICK king \in Party : king = c.who
      BY <2>1
    <3>2. c = [protocol |-> "OpenToKing", who |-> king]
      BY <2>1, <2>7, <3>1 DEF Call
    <3>3. \A r \in Party : Script(r, c) = OpenToKing(r, king)
      BY <2>7, <3>1 DEF Script
    <3>4. CASE p = king
      <4>1. Has(Script(q, c), Send(p, "share"))
        BY <3>3, <3>4, OpenToKingScript
      <4> QED
        BY <2>2, <2>3, <4>1
    <3>5. CASE p # king
      <4>1. Has(Script(king, c), Send(p, "secret"))
        BY <3>3, <3>5, OpenToKingScript
      <4>2. CASE q = king
        BY <2>2, <2>3, <3>1, <4>1, <4>2
      <4>3. CASE q # king
        <5>1. k < call[p] /\ "secret" \in Item
          BY <2>2 DEF ProtocolInv, TypeOK
        <5>2. Taken(<<king, p>>, PacketOf(k, "secret"))
          BY <4>1, <5>1 DEF ProtocolInv, PastTaken
        <5>3. <<king, p>> \in Link /\ <<q, king>> \in Link
          BY DEF Link
        <5>4. /\ OnLink(<<king, p>>, PacketOf(k, "secret"))
              /\ PacketOf(k, "secret") \in Packet
          BY <5>2, <5>3, TakenOnLink DEF ProtocolInv
        <5>5. Performed(king, k, Send(p, "secret"))
          BY <5>4 DEF ProtocolInv, SentAsPerformed, PacketOf
        <5>6. Taken(<<q, king>>, PacketOf(k, "share"))
          BY <3>2, <4>3, <5>5, KingHasCollected
        <5>7. OnLink(<<q, king>>, PacketOf(k, "share"))
          BY <5>3, <5>6, TakenOnLink DEF ProtocolInv
        <5>8. \E i \in 1..Len(sent[<<q, king>>]) :
                sent[<<q, king>>][i].call = k /\ sent[<<q, king>>][i].item = "share"
          BY <5>7 DEF OnLink, PacketOf
        <5> QED
          BY <5>8
      <4> QED
        BY <4>2, <4>3
    <3> QED
      BY <3>4, <3>5
  <2>8. \/ Opening(c) \/ c.protocol = "RandShr" \/ c.protocol = "RandDoubleShr"
        \/ c.protocol = "OpenToKing"
    BY DEF Opening
  <2> QED
    BY <2>4, <2>5, <2>6, <2>7, <2>8
<1> QED
  BY <1>1, InvariantHolds, PTL

-----------------------------------------------------------------------------
(***************************************************************************)
(* An opening is safe as the last call of a session, with any shares: no   *)
(* later packet can overtake.                                              *)
(***************************************************************************)
OpeningsLast ==
  \A calls \in Sessions : \A k \in 1..Len(calls) - 1 : ~Opening(calls[k])

LEMMA LastOpening ==
  ASSUME ProtocolInv, session \in Sessions, OpeningsLast, NEW p \in Party,
         call[p] <= Len(session), Opening(session[call[p]]),
         NEW i \in 1..Len(taken[p])
  PROVE  /\ taken[p][i].packet = PacketOf(call[p], "share")
         /\ taken[p][i].awaited = PacketOf(call[p], "share")
         /\ taken[p][i].sender # p
<1>1. PICK k \in 1..Len(session) : k = call[p] /\ session[k] \in Call
  BY CallType DEF ProtocolInv
<1>2. k = Len(session)
  <2>1. session \in Seq(Call)
    BY DEF ProtocolInv, TypeOK
  <2>2. ~(k \in 1..Len(session) - 1)
    BY <1>1 DEF OpeningsLast
  <2> QED
    BY <1>1, <2>1, <2>2
<1>3. Receipts(p)
  BY DEF ProtocolInv, OpeningInv
<1>4. PICK s \in Party, x \in Packet : taken[p][i].sender = s /\ taken[p][i].packet = x
  BY TakenType DEF ProtocolInv
<1>5. Taken(<<s, p>>, x) /\ x.call >= k
  BY <1>1, <1>3, <1>4 DEF Receipts
<1>6. OnLink(<<s, p>>, x)
  BY <1>5, TakenOnLink DEF ProtocolInv, Link
<1>7. /\ x.call \in 1..Len(session) /\ x.item \in Item /\ x = PacketOf(x.call, x.item)
      /\ Has(Script(s, session[x.call]), Send(p, x.item))
  BY <1>6, WaitingPacket DEF ProtocolInv
<1>8. x.call = k
  BY <1>1, <1>2, <1>5, <1>7
<1>9. s # p /\ x.item = "share"
  BY <1>1, <1>7, <1>8, OpeningScripts
<1> QED
  BY <1>1, <1>3, <1>4, <1>7, <1>8, <1>9 DEF Receipts

\* Packets carry no identity, yet every receive returns the packet it waits for when
\* no opening is followed by another call.
THEOREM EveryReceiptRight == OpeningsLast => (Spec => []RightPacket)
<1> SUFFICES ASSUME OpeningsLast PROVE Spec => []RightPacket
  OBVIOUS
<1>1. ProtocolInv /\ session \in Sessions => RightPacket
  <2> SUFFICES ASSUME ProtocolInv, session \in Sessions,
                      NEW p \in Party, NEW i \in 1..Len(taken[p])
               PROVE  taken[p][i].packet = taken[p][i].awaited
    BY DEF RightPacket
  <2>1. call[p] <= Len(session)
    <3>1. call[p] \in Nat /\ Len(session) \in Nat
      BY DEF ProtocolInv, TypeOK
    <3> QED
      BY <3>1 DEF ProtocolInv, PlaceInv
  <2>2. CASE Opening(session[call[p]])
    BY <2>1, <2>2, LastOpening
  <2>3. CASE ~Opening(session[call[p]])
    BY <2>1, <2>3 DEF ProtocolInv, NamedInv, AsAwaited
  <2> QED
    BY <2>2, <2>3
<1> QED
  BY <1>1, InvariantHolds, SessionGiven, PTL

\* "Each party consumes precisely one share from every other party", when no opening
\* is followed by another call.
THEOREM OneShareEach == OpeningsLast => (Spec => []OneShareFromEach)
<1> SUFFICES ASSUME OpeningsLast PROVE Spec => []OneShareFromEach
  OBVIOUS
<1>1. ProtocolInv /\ session \in Sessions => OneShareFromEach
  <2> SUFFICES ASSUME ProtocolInv, session \in Sessions, NEW p \in Party,
                      NEW i \in 1..Len(taken[p]), NEW j \in 1..Len(taken[p]),
                      session[call[p]].protocol \in {"Open", "OpenToParty"}
               PROVE  /\ taken[p][i].sender # p
                      /\ taken[p][i].sender = taken[p][j].sender => i = j
    BY DEF OneShareFromEach
  <2>1. call[p] <= Len(session)
    <3>1. call[p] \in Nat /\ Len(session) \in Nat
      BY DEF ProtocolInv, TypeOK
    <3> QED
      BY <3>1 DEF ProtocolInv, PlaceInv
  <2>2. Opening(session[call[p]])
    BY DEF Opening
  <2>3. /\ taken[p][i].sender # p
        /\ taken[p][i].packet = taken[p][j].packet
    BY <2>1, <2>2, LastOpening
  <2>4. Receipts(p)
    BY <2>1, <2>2 DEF ProtocolInv, OpeningInv
  <2>5. ASSUME taken[p][i].sender = taken[p][j].sender PROVE ~(i < j) /\ ~(j < i)
    BY <2>3, <2>4, <2>5 DEF Receipts
  <2> QED
    BY <2>3, <2>5
<1> QED
  BY <1>1, InvariantHolds, SessionGiven, PTL
=============================================================================
