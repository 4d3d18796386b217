-------------------------- MODULE SimulatorProofs --------------------------
(***************************************************************************)
(* Proofs about Simulator, for every set of parties, every order of them,  *)
(* every delay and timeout and any number of operations: types, and the    *)
(* links, which are reliable and FIFO (LinkOrder and the refinement of     *)
(* FifoLinks).                                                             *)
(***************************************************************************)
EXTENDS Simulator, SequenceTheorems, TLAPS

-----------------------------------------------------------------------------
(***************************************************************************)
(* Type correctness.                                                       *)
(***************************************************************************)
\* A receive future polled by p, with a well-formed future, keeps the types.
LEMMA PollTypes ==
  ASSUME TypeOK, NEW p \in Party, NEW fut \in Future, Poll(p, fut)
  PROVE  /\ msg_queues' \in [Link -> Seq(Packet)]
         /\ parked' \subseteq Link
         /\ received' \in [Link -> Nat]
         /\ current' \in Party \cup {NoParty}
         /\ awaiting' \in [Party -> Future]
<1>0. NoFuture \in Future
  BY DEF NoFuture, Future
<1>1. InLinks(p, fut.senders) \subseteq Link
  BY DEF InLinks, Link, Future
<1>2. CASE PollPacket(p, fut)
  <2>1. PICK s \in fut.senders :
          /\ IsChosen(s, p, fut.senders)
          /\ TakePacket(<<s, p>>)
          /\ parked' = UnparkOnResolve(p, fut)
          /\ current' = p
          /\ awaiting' = [awaiting EXCEPT ![p] = NoFuture]
    BY <1>2 DEF PollPacket
  <2>2. <<s, p>> \in Link
    BY DEF Link, Future
  <2>3. msg_queues[<<s, p>>] \in Seq(Packet) /\ msg_queues[<<s, p>>] # <<>>
    BY <2>1, <2>2 DEF IsChosen, ReadySenders, TypeOK
  <2>4. /\ Head(msg_queues[<<s, p>>]) \in Packet
        /\ Tail(msg_queues[<<s, p>>]) \in Seq(Packet)
    BY <2>3, HeadTailProperties
  <2>5. Head(msg_queues[<<s, p>>]).number \in Nat
    BY <2>4 DEF Packet
  <2>. QED  BY <1>0, <2>1, <2>2, <2>4, <2>5 DEF TypeOK, TakePacket, UnparkOnResolve
<1>3. CASE PollTimeout(p, fut)
  BY <1>0, <1>3 DEF TypeOK, PollTimeout, UnparkOnResolve
<1>4. CASE PollPending(p, fut)
  BY <1>1, <1>4 DEF TypeOK, PollPending
<1>. QED  BY <1>2, <1>3, <1>4 DEF Poll

\* The futures that the network's receives create.
LEMMA FutureTypes ==
  ASSUME TypeOK, NEW p \in Party, NEW s \in Party, NEW timeout \in Timeouts
  PROVE  /\ Recv(s) \in Future
         /\ RecvAny \in Future
         /\ RecvTimeout(p, s, timeout) \in Future
         /\ RecvAnyTimeout(p, timeout) \in Future
         /\ clocks[p] + timeout \in Nat
BY SimulatorAssumption
   DEF TypeOK, Future, Recv, RecvAny, RecvTimeout, RecvAnyTimeout

LEMMA ArmTimerTypes ==
  ASSUME TypeOK, NEW l \in Link, NEW deadline \in Nat, ArmTimer(l, deadline)
  PROVE  events' \subseteq ScheduledEvent /\ seq' \in Nat
BY DEF TypeOK, ArmTimer, ScheduleTimer, ScheduledEvent

LEMMA FirstParty == PartyOrder[1] \in Party
BY PartyAssumption

LEMMA PushPacketTypes ==
  ASSUME TypeOK, NEW l \in Link, NEW delay \in Delays, PushPacket(l, delay)
  PROVE  /\ events' \subseteq ScheduledEvent
         /\ last_arrivals' \in [Link -> Nat]
         /\ seq' \in Nat
         /\ sent' \in [Link -> Nat]
<1>1. ArrivalTime(l, delay) \in Nat
  BY SimulatorAssumption DEF TypeOK, ArrivalTime, Later, Link
<1>. QED  BY <1>1 DEF TypeOK, PushPacket, ScheduledEvent

LEMMA DeliverNextTypes ==
  ASSUME TypeOK, NEW e \in events, DeliverNext(e)
  PROVE  /\ msg_queues' \in [Link -> Seq(Packet)]
         /\ parked' \subseteq Link
         /\ events' \subseteq ScheduledEvent
         /\ clocks' \in [Party -> Nat]
         /\ Wake(e) \in Seq(Party)
<1>1. /\ e \in ScheduledEvent
      /\ e.link \in Link /\ e.link[2] \in Party
      /\ e.arrival \in Nat /\ e.number \in Nat
      /\ [number |-> e.number, arrival |-> e.arrival] \in Packet
  BY DEF TypeOK, ScheduledEvent, Link, Packet
<1>2. Append(msg_queues[e.link], [number |-> e.number, arrival |-> e.arrival]) \in Seq(Packet)
  BY <1>1, AppendProperties DEF TypeOK
<1>3. msg_queues' \in [Link -> Seq(Packet)]
  BY <1>1, <1>2 DEF TypeOK, DeliverNext
<1>4. clocks' \in [Party -> Nat]
  BY <1>1 DEF TypeOK, DeliverNext, ClockAfter, Later
<1>5. Wake(e) \in Seq(Party)
  BY <1>1, AppendProperties DEF TypeOK, Wake
<1>. QED  BY <1>3, <1>4, <1>5 DEF TypeOK, DeliverNext, EventsAfter

LEMMA OperatesTypes ==
  ASSUME TypeOK, NEW p \in Party, Operates(p)
  PROVE  ops' \in [Party -> Nat]
BY DEF TypeOK, Operates

LEMMA TypeInit == Init => TypeOK
<1>. SUFFICES ASSUME Init PROVE TypeOK
  OBVIOUS
<1>1. \A l \in Link : msg_queues[l] \in Seq(Packet)
  BY EmptySeq DEF Init, SwitchboardInit
<1>2. NoFuture \in Future
  BY DEF NoFuture, Future
<1>. QED  BY <1>1, <1>2, PartyAssumption DEF Init, SwitchboardInit, TypeOK

LEMMA TypeStep == TypeOK /\ [Next]_vars => TypeOK'
<1>. SUFFICES ASSUME TypeOK, [Next]_vars PROVE TypeOK'
  OBVIOUS
<1>1. ASSUME NEW p \in Party, NEW to \in Party, NEW delay \in Delays, Send(p, to, delay)
      PROVE  TypeOK'
  <2>1. <<p, to>> \in Link
    BY DEF Link
  <2>2. PushPacket(<<p, to>>, delay)
    BY <1>1 DEF Send
  <2>3. /\ events' \subseteq ScheduledEvent
        /\ last_arrivals' \in [Link -> Nat]
        /\ seq' \in Nat
        /\ sent' \in [Link -> Nat]
    BY <2>1, <2>2, PushPacketTypes
  <2>4. ops' \in [Party -> Nat]
    BY <1>1, OperatesTypes DEF Send
  <2>5. UNCHANGED <<msg_queues, parked, clocks, received>>
    BY <2>2 DEF PushPacket
  <2>6. UNCHANGED <<ready_queue, current, finished, awaiting, status>>
    BY <1>1 DEF Send
  <2>. QED  BY <2>3, <2>4, <2>5, <2>6 DEF TypeOK
<1>2. ASSUME NEW p \in Party, NEW s \in Party, RecvFrom(p, s)
      PROVE  TypeOK'
  <2>1. Recv(s) \in Future
    BY DEF Future, Recv
  <2>2. Poll(p, Recv(s))
    BY <1>2 DEF RecvFrom
  <2>. QED  BY <1>2, <2>1, <2>2, PollTypes DEF TypeOK, RecvFrom, Operates, ReceiveFrame
<1>3. ASSUME NEW p \in Party, RecvFromAny(p)
      PROVE  TypeOK'
  <2>1. RecvAny \in Future
    BY DEF Future, RecvAny
  <2>2. Poll(p, RecvAny)
    BY <1>3 DEF RecvFromAny
  <2>. QED  BY <1>3, <2>1, <2>2, PollTypes DEF TypeOK, RecvFromAny, Operates, ReceiveFrame
<1>4. ASSUME NEW p \in Party, NEW s \in Party, NEW timeout \in Timeouts,
             RecvFromWithTimeout(p, s, timeout)
      PROVE  TypeOK'
  <2>1. RecvTimeout(p, s, timeout) \in Future /\ clocks[p] + timeout \in Nat
    BY FutureTypes
  <2>2. /\ Poll(p, RecvTimeout(p, s, timeout))
        /\ ArmTimer(<<s, p>>, clocks[p] + timeout)
    BY <1>4 DEF RecvFromWithTimeout
  <2>3. <<s, p>> \in Link
    BY DEF Link
  <2>4. events' \subseteq ScheduledEvent /\ seq' \in Nat
    BY <2>1, <2>2, <2>3, ArmTimerTypes
  <2>5. /\ msg_queues' \in [Link -> Seq(Packet)]
        /\ parked' \subseteq Link
        /\ received' \in [Link -> Nat]
        /\ current' \in Party \cup {NoParty}
        /\ awaiting' \in [Party -> Future]
    BY <2>1, <2>2, PollTypes
  <2>6. ops' \in [Party -> Nat]
    BY <1>4, OperatesTypes DEF RecvFromWithTimeout
  <2>7. ReceiveFrame
    BY <1>4 DEF RecvFromWithTimeout
  <2>. QED  BY <2>4, <2>5, <2>6, <2>7 DEF TypeOK, ReceiveFrame
<1>5. ASSUME NEW p \in Party, NEW timeout \in Timeouts, RecvAnyWithTimeout(p, timeout)
      PROVE  TypeOK'
  <2>1. RecvAnyTimeout(p, timeout) \in Future /\ clocks[p] + timeout \in Nat
    BY FutureTypes
  <2>2. /\ Poll(p, RecvAnyTimeout(p, timeout))
        /\ ArmTimer(<<PartyOrder[1], p>>, clocks[p] + timeout)
    BY <1>5 DEF RecvAnyWithTimeout
  <2>3. <<PartyOrder[1], p>> \in Link
    BY FirstParty DEF Link
  <2>4. events' \subseteq ScheduledEvent /\ seq' \in Nat
    BY <2>1, <2>2, <2>3, ArmTimerTypes
  <2>5. /\ msg_queues' \in [Link -> Seq(Packet)]
        /\ parked' \subseteq Link
        /\ received' \in [Link -> Nat]
        /\ current' \in Party \cup {NoParty}
        /\ awaiting' \in [Party -> Future]
    BY <2>1, <2>2, PollTypes
  <2>6. ops' \in [Party -> Nat]
    BY <1>5, OperatesTypes DEF RecvAnyWithTimeout
  <2>7. ReceiveFrame
    BY <1>5 DEF RecvAnyWithTimeout
  <2>. QED  BY <2>4, <2>5, <2>6, <2>7 DEF TypeOK, ReceiveFrame
<1>6. ASSUME NEW p \in Party, Finish(p)
      PROVE  TypeOK'
  BY <1>6 DEF TypeOK, Finish, switchboardVars
<1>7. ASSUME NEW p \in Party, Fail(p)
      PROVE  TypeOK'
  BY <1>7 DEF TypeOK, Fail, switchboardVars
<1>8. ASSUME NEW p \in Party, StartTask(p)
      PROVE  TypeOK'
  <2>1. Tail(ready_queue) \in Seq(Party)
    BY <1>8, HeadTailProperties DEF TypeOK, StartTask, PopsReady
  <2>. QED  BY <1>8, <2>1 DEF TypeOK, StartTask, PopsReady, switchboardVars
<1>9. ASSUME NEW p \in Party, ResumeTask(p)
      PROVE  TypeOK'
  <2>1. Tail(ready_queue) \in Seq(Party)
    BY <1>9, HeadTailProperties DEF TypeOK, ResumeTask, PopsReady
  <2>2. awaiting[p] \in Future /\ Poll(p, awaiting[p])
    BY <1>9 DEF TypeOK, ResumeTask
  <2>. QED  BY <1>9, <2>1, <2>2, PollTypes DEF TypeOK, ResumeTask, PopsReady
<1>10. ASSUME NEW e \in events, DeliverPacket(e) \/ FireTimer(e)
       PROVE  TypeOK'
  <2>1. DeliverNext(e)
    BY <1>10 DEF DeliverPacket, FireTimer
  <2>. QED  BY <1>10, <2>1, DeliverNextTypes DEF TypeOK, DeliverPacket, FireTimer, DeliverNext
<1>11. CASE Deadlock
  BY <1>11 DEF TypeOK, Deadlock, switchboardVars
<1>12. CASE Ended \/ UNCHANGED vars
  BY <1>12 DEF TypeOK, Ended, vars
<1>. QED
  BY <1>1, <1>2, <1>3, <1>4, <1>5, <1>6, <1>7, <1>8, <1>9, <1>10, <1>11, <1>12
  DEF Next, ProtocolStep, ExecutorStep

\* Type correctness: the queues, the heap, the clocks and the tasks keep their types
\* through every operation of the network and every turn of the executor.
THEOREM TypeCorrect == Spec => []TypeOK
BY TypeInit, TypeStep, PTL DEF Spec

-----------------------------------------------------------------------------
(***************************************************************************)
(* The links of a simulated run.  LinkOrder is not inductive.  A send is   *)
(* in order because its arrival is clamped to the last arrival on the link *)
(* and its sequence number is fresh, and a delivery is in order because no *)
(* two packets in flight on a link have the same number: LinkInv says so.  *)
(***************************************************************************)
SeqFresh == \A e \in events : e.seq < seq

LinkOK(l) ==
  /\ \A i \in 1..Len(msg_queues[l]) : msg_queues[l][i].number = received[l] + i
  /\ received[l] + Len(msg_queues[l]) <= sent[l]
  /\ \A e \in InFlight(l) :
       /\ received[l] + Len(msg_queues[l]) < e.number /\ e.number <= sent[l]
       /\ e.arrival <= last_arrivals[l]
  /\ \A k \in Nat : received[l] + Len(msg_queues[l]) < k /\ k <= sent[l] =>
       \E e \in InFlight(l) : e.number = k
  /\ \A e, f \in InFlight(l) : e.number < f.number => Before(e, f)
  /\ \A e, f \in InFlight(l) : e.number = f.number => e = f

LinkInv == SeqFresh /\ \A l \in Link : LinkOK(l)

-----------------------------------------------------------------------------
(***************************************************************************)
(* What a step does to the links.                                          *)
(***************************************************************************)
\* The events change by a timer at most.
TimersOnly ==
  /\ \A l \in Link : InFlight(l)' = InFlight(l)
  /\ SeqFresh => SeqFresh'

Consumes(l) ==
  /\ msg_queues[l] # <<>>
  /\ TakePacket(l)
  /\ TimersOnly
  /\ UNCHANGED <<last_arrivals, sent>>

Quiet ==
  /\ TimersOnly
  /\ UNCHANGED <<msg_queues, last_arrivals, sent, received>>

LEMMA NoEventsChange ==
  ASSUME UNCHANGED <<events, seq>>
  PROVE  TimersOnly
BY DEF TimersOnly, InFlight, SeqFresh

LEMMA ArmTimerQuiet ==
  ASSUME TypeOK, NEW l \in Link, NEW deadline \in Nat, ArmTimer(l, deadline)
  PROVE  TimersOnly
<1>1. ASSUME NEW k \in Link PROVE InFlight(k)' = InFlight(k)
  BY DEF ArmTimer, ScheduleTimer, InFlight
<1>2. ASSUME SeqFresh PROVE SeqFresh'
  <2>1. seq \in Nat /\ seq' = seq + 1 /\ events \subseteq ScheduledEvent
    BY DEF TypeOK, ArmTimer, ScheduleTimer
  <2>. QED  BY <1>2, <2>1 DEF SeqFresh, ArmTimer, ScheduleTimer, ScheduledEvent
<1>. QED  BY <1>1, <1>2 DEF TimersOnly

LEMMA PollLinks ==
  ASSUME TypeOK, NEW p \in Party, NEW fut \in Future, Poll(p, fut),
         TimersOnly, UNCHANGED <<last_arrivals, sent>>
  PROVE  Quiet \/ \E l \in Link : Consumes(l)
<1>1. CASE PollPacket(p, fut)
  <2>1. PICK s \in fut.senders : IsChosen(s, p, fut.senders) /\ TakePacket(<<s, p>>)
    BY <1>1 DEF PollPacket
  <2>2. <<s, p>> \in Link
    BY DEF Link, Future
  <2>3. msg_queues[<<s, p>>] # <<>>
    BY <2>1 DEF IsChosen, ReadySenders
  <2>. QED  BY <2>1, <2>2, <2>3 DEF Consumes
<1>2. CASE PollTimeout(p, fut) \/ PollPending(p, fut)
  BY <1>2 DEF PollTimeout, PollPending, Quiet
<1>. QED  BY <1>1, <1>2 DEF Poll

LEMMA LinkCases ==
  ASSUME TypeOK, [Next]_vars
  PROVE  \/ \E l \in Link, delay \in Delays : PushPacket(l, delay)
         \/ \E e \in events : DeliverNext(e)
         \/ \E l \in Link : Consumes(l)
         \/ Quiet
<1>1. ASSUME NEW p \in Party, NEW to \in Party, NEW delay \in Delays, Send(p, to, delay)
      PROVE  \E l \in Link, d \in Delays : PushPacket(l, d)
  BY <1>1 DEF Send, Link
<1>2. ASSUME NEW p \in Party, NEW s \in Party, RecvFrom(p, s)
      PROVE  Quiet \/ \E l \in Link : Consumes(l)
  <2>1. Recv(s) \in Future
    BY DEF Future, Recv
  <2>2. /\ Poll(p, Recv(s))
        /\ UNCHANGED <<events, seq>>
        /\ UNCHANGED <<last_arrivals, sent>>
    BY <1>2 DEF RecvFrom, ReceiveFrame
  <2>. QED  BY <2>1, <2>2, NoEventsChange, PollLinks
<1>3. ASSUME NEW p \in Party, RecvFromAny(p)
      PROVE  Quiet \/ \E l \in Link : Consumes(l)
  <2>1. RecvAny \in Future
    BY DEF Future, RecvAny
  <2>2. /\ Poll(p, RecvAny)
        /\ UNCHANGED <<events, seq>>
        /\ UNCHANGED <<last_arrivals, sent>>
    BY <1>3 DEF RecvFromAny, ReceiveFrame
  <2>. QED  BY <2>1, <2>2, NoEventsChange, PollLinks
<1>4. ASSUME NEW p \in Party, NEW s \in Party, NEW timeout \in Timeouts,
             RecvFromWithTimeout(p, s, timeout)
      PROVE  Quiet \/ \E l \in Link : Consumes(l)
  <2>1. RecvTimeout(p, s, timeout) \in Future /\ clocks[p] + timeout \in Nat
    BY FutureTypes
  <2>2. /\ Poll(p, RecvTimeout(p, s, timeout))
        /\ ArmTimer(<<s, p>>, clocks[p] + timeout)
        /\ UNCHANGED <<last_arrivals, sent>>
    BY <1>4 DEF RecvFromWithTimeout, ReceiveFrame
  <2>3. <<s, p>> \in Link
    BY DEF Link
  <2>4. TimersOnly
    BY <2>1, <2>2, <2>3, ArmTimerQuiet
  <2>. QED  BY <2>1, <2>2, <2>4, PollLinks
<1>5. ASSUME NEW p \in Party, NEW timeout \in Timeouts, RecvAnyWithTimeout(p, timeout)
      PROVE  Quiet \/ \E l \in Link : Consumes(l)
  <2>1. RecvAnyTimeout(p, timeout) \in Future /\ clocks[p] + timeout \in Nat
    BY FutureTypes
  <2>2. /\ Poll(p, RecvAnyTimeout(p, timeout))
        /\ ArmTimer(<<PartyOrder[1], p>>, clocks[p] + timeout)
        /\ UNCHANGED <<last_arrivals, sent>>
    BY <1>5 DEF RecvAnyWithTimeout, ReceiveFrame
  <2>3. <<PartyOrder[1], p>> \in Link
    BY FirstParty DEF Link
  <2>4. TimersOnly
    BY <2>1, <2>2, <2>3, ArmTimerQuiet
  <2>. QED  BY <2>1, <2>2, <2>4, PollLinks
<1>6. ASSUME NEW p \in Party, Finish(p) \/ Fail(p) \/ StartTask(p)
      PROVE  Quiet
  BY <1>6, NoEventsChange DEF Finish, Fail, StartTask, switchboardVars, Quiet
<1>7. ASSUME NEW p \in Party, ResumeTask(p)
      PROVE  Quiet \/ \E l \in Link : Consumes(l)
  <2>1. /\ awaiting[p] \in Future
        /\ Poll(p, awaiting[p])
        /\ UNCHANGED <<events, seq>>
        /\ UNCHANGED <<last_arrivals, sent>>
    BY <1>7 DEF TypeOK, ResumeTask
  <2>. QED  BY <2>1, NoEventsChange, PollLinks
<1>8. ASSUME NEW e \in events, DeliverPacket(e) \/ FireTimer(e)
      PROVE  DeliverNext(e)
  BY <1>8 DEF DeliverPacket, FireTimer
<1>9. CASE Deadlock \/ Ended \/ UNCHANGED vars
  BY <1>9, NoEventsChange DEF Deadlock, Ended, vars, switchboardVars, Quiet
<1>. QED
  BY <1>1, <1>2, <1>3, <1>4, <1>5, <1>6, <1>7, <1>8, <1>9
  DEF Next, ProtocolStep, ExecutorStep

-----------------------------------------------------------------------------
(***************************************************************************)
(* LinkInv is inductive.                                                   *)
(***************************************************************************)
LEMMA LinkInit == Init => LinkInv
BY DEF Init, SwitchboardInit, LinkInv, LinkOK, SeqFresh, InFlight

\* A link whose queue and counters stay, and whose packets in flight stay, stays in
\* order.
LEMMA LinkKept ==
  ASSUME NEW k \in Link, LinkOK(k), InFlight(k)' = InFlight(k),
         msg_queues'[k] = msg_queues[k], received'[k] = received[k],
         sent'[k] = sent[k], last_arrivals'[k] = last_arrivals[k]
  PROVE  LinkOK(k)'
BY DEF LinkOK, Before

LEMMA PushPacketLinks ==
  ASSUME TypeOK, LinkInv, NEW l \in Link, NEW delay \in Delays, PushPacket(l, delay)
  PROVE  LinkInv'
<1>. DEFINE n == [arrival |-> ArrivalTime(l, delay), seq |-> seq, link |-> l,
                  kind |-> "Delivery", number |-> sent[l] + 1]
<1>1. /\ ArrivalTime(l, delay) \in Nat
      /\ last_arrivals[l] <= ArrivalTime(l, delay)
      /\ sent[l] \in Nat /\ received[l] \in Nat /\ seq \in Nat
      /\ last_arrivals[l] \in Nat
  BY SimulatorAssumption DEF TypeOK, ArrivalTime, Later, Link
<1>2. events' = events \cup {n} /\ seq' = seq + 1
  BY DEF PushPacket
<1>3. SeqFresh'
  BY <1>1, <1>2 DEF LinkInv, SeqFresh, TypeOK, ScheduledEvent
<1>4. ASSUME NEW k \in Link, k # l PROVE LinkOK(k)'
  <2>1. InFlight(k)' = InFlight(k)
    BY <1>2, <1>4 DEF InFlight
  <2>2. /\ msg_queues'[k] = msg_queues[k] /\ received'[k] = received[k]
        /\ sent'[k] = sent[k] /\ last_arrivals'[k] = last_arrivals[k]
    BY <1>4 DEF PushPacket, TypeOK
  <2>. QED  BY <2>1, <2>2, LinkKept DEF LinkInv
<1>5. LinkOK(l)'
  <2>1. InFlight(l)' = InFlight(l) \cup {n}
    BY <1>2 DEF InFlight
  <2>2. /\ msg_queues' = msg_queues /\ received' = received
        /\ sent'[l] = sent[l] + 1
        /\ last_arrivals'[l] = ArrivalTime(l, delay)
    BY DEF PushPacket, TypeOK
  <2>3. Len(msg_queues[l]) \in Nat
    BY DEF TypeOK
  <2>4. LinkOK(l)
    BY DEF LinkInv
  <2>5. \A e \in InFlight(l) :
          e.number \in Nat /\ e.arrival \in Nat /\ e.seq \in Nat /\ e.seq < seq
    BY DEF InFlight, TypeOK, ScheduledEvent, LinkInv, SeqFresh
  <2>6. n.number = sent[l] + 1 /\ n.arrival = ArrivalTime(l, delay) /\ n.seq = seq
    OBVIOUS
  <2>. HIDE DEF n
  <2>7. \A e \in InFlight(l) : e.number < n.number /\ Before(e, n) /\ ~(n.number < e.number)
    BY <1>1, <2>4, <2>5, <2>6 DEF LinkOK, Before
  <2>8. \A i \in 1..Len(msg_queues'[l]) : msg_queues'[l][i].number = received'[l] + i
    BY <2>2, <2>4 DEF LinkOK
  <2>9. received'[l] + Len(msg_queues'[l]) <= sent'[l]
    BY <1>1, <2>2, <2>3, <2>4 DEF LinkOK
  <2>10. \A e \in InFlight(l)' :
           /\ received'[l] + Len(msg_queues'[l]) < e.number /\ e.number <= sent'[l]
           /\ e.arrival <= last_arrivals'[l]
    BY <1>1, <2>1, <2>2, <2>3, <2>4, <2>5, <2>6 DEF LinkOK
  <2>11. \A k \in Nat : received'[l] + Len(msg_queues'[l]) < k /\ k <= sent'[l] =>
           \E e \in InFlight(l)' : e.number = k
    BY <1>1, <2>1, <2>2, <2>3, <2>4, <2>6 DEF LinkOK
  <2>12. \A e, f \in InFlight(l)' : e.number < f.number => Before(e, f)
    BY <1>1, <2>1, <2>4, <2>6, <2>7 DEF LinkOK
  <2>13. \A e, f \in InFlight(l)' : e.number = f.number => e = f
    BY <1>1, <2>1, <2>4, <2>5, <2>6, <2>7 DEF LinkOK
  <2>. QED  BY <2>8, <2>9, <2>10, <2>11, <2>12, <2>13 DEF LinkOK, Before
<1>. QED  BY <1>3, <1>4, <1>5 DEF LinkInv

\* The packet popped from the heap is the next one its link's receiver is due.
LEMMA DeliverNextLinks ==
  ASSUME TypeOK, LinkInv, NEW e \in events, DeliverNext(e)
  PROVE  LinkInv'
<1>1. /\ e \in ScheduledEvent /\ e.link \in Link
      /\ e.number \in Nat /\ e.arrival \in Nat /\ e.seq \in Nat
  BY DEF TypeOK, ScheduledEvent
<1>2. /\ events' = events \ {e} /\ seq' = seq
      /\ \A f \in events : f # e => Before(e, f)
      /\ UNCHANGED <<last_arrivals, sent, received>>
  BY DEF DeliverNext, EventsAfter, IsNext
<1>3. SeqFresh'
  BY <1>2 DEF LinkInv, SeqFresh
<1>4. ASSUME NEW k \in Link, k # e.link \/ e.kind # "Delivery" PROVE LinkOK(k)'
  <2>1. InFlight(k)' = InFlight(k)
    BY <1>2, <1>4 DEF InFlight
  <2>2. msg_queues'[k] = msg_queues[k]
    BY <1>1, <1>4 DEF DeliverNext, TypeOK
  <2>. QED  BY <1>2, <2>1, <2>2, LinkKept DEF LinkInv
<1>5. ASSUME e.kind = "Delivery" PROVE LinkOK(e.link)'
  <2>. DEFINE l == e.link
              m == [number |-> e.number, arrival |-> e.arrival]
  <2>1. e \in InFlight(l) /\ InFlight(l)' = InFlight(l) \ {e}
    BY <1>2, <1>5 DEF InFlight
  <2>2. msg_queues'[l] = Append(msg_queues[l], m)
    BY <1>1, <1>5 DEF DeliverNext, TypeOK
  <2>3. /\ msg_queues[l] \in Seq(Packet) /\ Len(msg_queues[l]) \in Nat
        /\ m \in Packet /\ m.number = e.number
        /\ received[l] \in Nat /\ sent[l] \in Nat
    BY <1>1 DEF TypeOK, Packet
  <2>4. LinkOK(l)
    BY <1>1 DEF LinkInv
  <2>5. \A f \in InFlight(l) : f.number \in Nat /\ f.arrival \in Nat /\ f.seq \in Nat
    BY DEF InFlight, TypeOK, ScheduledEvent
  <2>6. \A f \in InFlight(l) : f # e => Before(e, f)
    BY <1>2 DEF InFlight
  <2>7. Len(msg_queues'[l]) = Len(msg_queues[l]) + 1
    BY <2>2, <2>3, AppendProperties
  <2>8. /\ \A i \in 1..Len(msg_queues[l]) : msg_queues'[l][i] = msg_queues[l][i]
        /\ msg_queues'[l][Len(msg_queues[l]) + 1] = m
    BY <2>2, <2>3, AppendProperties
  <2>. HIDE DEF l, m
  <2>9. e.number = received[l] + Len(msg_queues[l]) + 1
    <3>1. received[l] + Len(msg_queues[l]) < e.number /\ e.number <= sent[l]
      BY <2>1, <2>4 DEF LinkOK
    <3>2. received[l] + Len(msg_queues[l]) + 1 \in Nat
      BY <2>3
    <3>3. PICK f \in InFlight(l) : f.number = received[l] + Len(msg_queues[l]) + 1
      BY <1>1, <2>3, <2>4, <3>1, <3>2 DEF LinkOK
    <3>4. ASSUME f # e PROVE FALSE
      <4>1. f.number <= e.number
        BY <1>1, <2>3, <3>1, <3>3
      <4>2. f.number < e.number
        BY <1>1, <2>1, <2>4, <2>5, <3>3, <3>4, <4>1 DEF LinkOK
      <4>3. Before(f, e) /\ Before(e, f)
        BY <2>1, <2>4, <2>6, <3>3, <3>4, <4>2 DEF LinkOK
      <4>. QED  BY <1>1, <2>5, <3>3, <4>3 DEF Before
    <3>. QED  BY <3>3, <3>4
  <2>10. ASSUME NEW i \in 1..Len(msg_queues'[l])
         PROVE  msg_queues'[l][i].number = received[l] + i
    <3>1. CASE i \in 1..Len(msg_queues[l])
      <4>1. msg_queues'[l][i] = msg_queues[l][i]
        BY <2>8, <3>1
      <4>. QED  BY <2>4, <3>1, <4>1 DEF LinkOK
    <3>2. CASE i = Len(msg_queues[l]) + 1
      <4>1. msg_queues'[l][i].number = e.number
        BY <2>3, <2>8, <3>2
      <4>. QED  BY <1>1, <2>3, <2>9, <3>2, <4>1
    <3>. QED  BY <2>3, <2>7, <3>1, <3>2
  <2>11. \A f \in InFlight(l)' : received[l] + Len(msg_queues'[l]) < f.number
    BY <1>1, <2>1, <2>3, <2>4, <2>5, <2>7, <2>9 DEF LinkOK
  <2>12. \A k \in Nat : received[l] + Len(msg_queues'[l]) < k /\ k <= sent[l] =>
           \E f \in InFlight(l)' : f.number = k
    BY <2>1, <2>3, <2>4, <2>7, <2>9 DEF LinkOK
  <2>13. received[l] + Len(msg_queues'[l]) <= sent[l]
    BY <2>1, <2>3, <2>4, <2>7, <2>9 DEF LinkOK
  <2>14. l' = l
    BY DEF l
  <2>15. LinkOK(l)'
    BY <1>2, <2>1, <2>4, <2>10, <2>11, <2>12, <2>13, <2>14 DEF LinkOK, Before
  <2>. QED  BY <2>15 DEF l
<1>. QED  BY <1>1, <1>3, <1>4, <1>5 DEF LinkInv

LEMMA ConsumesLinks ==
  ASSUME TypeOK, LinkInv, NEW l \in Link, Consumes(l)
  PROVE  LinkInv'
<1>1. SeqFresh'
  BY DEF Consumes, TimersOnly, LinkInv
<1>2. ASSUME NEW k \in Link, k # l PROVE LinkOK(k)'
  <2>1. /\ InFlight(k)' = InFlight(k)
        /\ msg_queues'[k] = msg_queues[k] /\ received'[k] = received[k]
        /\ sent'[k] = sent[k] /\ last_arrivals'[k] = last_arrivals[k]
    BY <1>2 DEF Consumes, TimersOnly, TakePacket, TypeOK
  <2>. QED  BY <2>1, LinkKept DEF LinkInv
<1>3. LinkOK(l)'
  <2>1. /\ InFlight(l)' = InFlight(l) /\ sent' = sent /\ last_arrivals' = last_arrivals
        /\ msg_queues'[l] = Tail(msg_queues[l])
        /\ received'[l] = Head(msg_queues[l]).number
    BY DEF Consumes, TimersOnly, TakePacket, TypeOK
  <2>2. /\ msg_queues[l] \in Seq(Packet) /\ msg_queues[l] # <<>>
        /\ received[l] \in Nat /\ sent[l] \in Nat
    BY DEF Consumes, TypeOK
  <2>3. /\ Len(msg_queues[l]) \in Nat /\ Len(msg_queues[l]) >= 1
        /\ Head(msg_queues[l]) = msg_queues[l][1]
    BY <2>2, HeadTailProperties
  <2>4. LinkOK(l)
    BY DEF LinkInv
  <2>5. received'[l] = received[l] + 1
    BY <2>1, <2>3, <2>4 DEF LinkOK
  <2>6. Len(msg_queues'[l]) = Len(msg_queues[l]) - 1
    BY <2>1, <2>2, HeadTailProperties
  <2>7. received'[l] + Len(msg_queues'[l]) = received[l] + Len(msg_queues[l])
    BY <2>2, <2>3, <2>5, <2>6
  <2>8. ASSUME NEW i \in 1..Len(msg_queues'[l])
        PROVE  msg_queues'[l][i].number = received'[l] + i
    <3>1. msg_queues'[l][i] = msg_queues[l][i + 1]
      BY <2>1, <2>2, HeadTailProperties
    <3>2. i \in Nat /\ i + 1 \in 1..Len(msg_queues[l])
      BY <2>3, <2>6
    <3>3. msg_queues'[l][i].number = received[l] + (i + 1)
      BY <2>4, <3>1, <3>2 DEF LinkOK
    <3>4. received[l] \in Nat
      BY <2>2
    <3>. QED  BY <2>5, <3>2, <3>3, <3>4
  <2>. QED  BY <2>1, <2>4, <2>7, <2>8 DEF LinkOK, Before
<1>. QED  BY <1>1, <1>2, <1>3 DEF LinkInv

LEMMA LinkStep == TypeOK /\ LinkInv /\ [Next]_vars => LinkInv'
<1>. SUFFICES ASSUME TypeOK, LinkInv, [Next]_vars PROVE LinkInv'
  OBVIOUS
<1>1. CASE Quiet
  <2>1. ASSUME NEW k \in Link PROVE LinkOK(k)'
    BY <1>1, LinkKept DEF Quiet, TimersOnly, LinkInv
  <2>. QED  BY <1>1, <2>1 DEF Quiet, TimersOnly, LinkInv
<1>. QED  BY <1>1, LinkCases, PushPacketLinks, DeliverNextLinks, ConsumesLinks

LEMMA LinkInvariant == Spec => [](TypeOK /\ LinkInv)
BY TypeInit, TypeStep, LinkInit, LinkStep, PTL DEF Spec

-----------------------------------------------------------------------------
(***************************************************************************)
(* The theorems.                                                           *)
(***************************************************************************)
LEMMA LinkInvImpliesOrder == TypeOK /\ LinkInv => LinkOrder
<1>. SUFFICES ASSUME TypeOK, LinkInv, NEW l \in Link
     PROVE  /\ \A i \in 1..Len(msg_queues[l]) : msg_queues[l][i].number = received[l] + i
            /\ {e.number : e \in InFlight(l)}
                 = received[l] + Len(msg_queues[l]) + 1 .. sent[l]
            /\ \A e, f \in InFlight(l) : e.number < f.number => Before(e, f)
  BY DEF LinkOrder
<1>1. LinkOK(l)
  BY DEF LinkInv
<1>2. /\ received[l] + Len(msg_queues[l]) \in Nat /\ sent[l] \in Nat
      /\ \A e \in InFlight(l) : e.number \in Nat
  BY DEF TypeOK, InFlight, ScheduledEvent
<1>. DEFINE r == received[l] + Len(msg_queues[l])
<1>3. ASSUME NEW e \in InFlight(l) PROVE e.number \in r + 1 .. sent[l]
  BY <1>1, <1>2 DEF LinkOK
<1>4. ASSUME NEW k \in r + 1 .. sent[l] PROVE \E e \in InFlight(l) : e.number = k
  BY <1>1, <1>2 DEF LinkOK
<1>5. {e.number : e \in InFlight(l)} = r + 1 .. sent[l]
  BY <1>3, <1>4
<1>. QED  BY <1>1, <1>5 DEF LinkOK

\* Reliable FIFO links (send, mod.rs:115-154): whatever the delays, the timers and the
\* schedule, packets are neither lost, duplicated nor reordered on a link.
THEOREM LinksInOrder == Spec => []LinkOrder
BY LinkInvariant, LinkInvImpliesOrder, PTL

LEMMA LinksRefineInit == Init => Links!Init
BY EmptySeq DEF Init, SwitchboardInit, Links!Init, Arrived

LEMMA LinksRefineStep ==
  TypeOK /\ TypeOK' /\ LinkInv /\ LinkInv' /\ [Next]_vars => [Links!Next]_(Links!vars)
<1>. SUFFICES ASSUME TypeOK, TypeOK', LinkInv, LinkInv', [Next]_vars
     PROVE  Links!Next \/ UNCHANGED Links!vars
  OBVIOUS
<1>1. ASSUME NEW l \in Link, NEW delay \in Delays, PushPacket(l, delay)
      PROVE  Links!Next
  <2>1. UNCHANGED <<Arrived, received>> /\ sent' = [sent EXCEPT ![l] = @ + 1]
    BY <1>1 DEF PushPacket, Arrived
  <2>. QED  BY <2>1 DEF Links!Next, Links!Send
<1>2. ASSUME NEW e \in events, DeliverNext(e), e.kind # "Delivery"
      PROVE  UNCHANGED Links!vars
  BY <1>2 DEF DeliverNext, Arrived, Links!vars
<1>3. ASSUME NEW e \in events, DeliverNext(e), e.kind = "Delivery"
      PROVE  Links!Next
  <2>1. e \in InFlight(e.link) /\ e.link \in Link /\ e.number \in Nat
        /\ [number |-> e.number, arrival |-> e.arrival] \in Packet
    BY <1>3 DEF InFlight, TypeOK, ScheduledEvent, Packet
  <2>2. /\ \A k \in Link : msg_queues[k] \in Seq(Packet) /\ received[k] \in Nat
        /\ \A k \in Link : sent[k] \in Nat
    BY DEF TypeOK
  <2>3. Arrived[e.link] < sent[e.link]
    BY <2>1, <2>2 DEF LinkInv, LinkOK, Arrived
  <2>4. Len(Append(msg_queues[e.link], [number |-> e.number, arrival |-> e.arrival]))
          = Len(msg_queues[e.link]) + 1
    BY <2>1, <2>2, AppendProperties
  <2>5. /\ UNCHANGED <<sent, received>>
        /\ msg_queues' = [msg_queues EXCEPT ![e.link] =
                            Append(@, [number |-> e.number, arrival |-> e.arrival])]
    BY <1>3 DEF DeliverNext
  <2>6. Arrived' = [Arrived EXCEPT ![e.link] = @ + 1]
    <3>1. ASSUME NEW k \in Link
          PROVE  received[k] + Len(msg_queues'[k])
                   = [Arrived EXCEPT ![e.link] = @ + 1][k]
      <4>1. CASE k = e.link
        <5>1. Len(msg_queues'[k]) = Len(msg_queues[k]) + 1
          BY <2>1, <2>4, <2>5, <4>1 DEF TypeOK
        <5>2. received[k] \in Nat /\ Len(msg_queues[k]) \in Nat
          BY <2>2
        <5>. QED  BY <4>1, <5>1, <5>2 DEF Arrived
      <4>2. CASE k # e.link
        BY <2>5, <4>2 DEF Arrived, TypeOK
      <4>. QED  BY <4>1, <4>2
    <3>2. Arrived' = [k \in Link |-> received[k] + Len(msg_queues'[k])]
      BY <2>5 DEF Arrived
    <3>. QED  BY <3>1, <3>2 DEF Arrived
  <2>. QED  BY <2>1, <2>3, <2>5, <2>6 DEF Links!Next, Links!Arrive
<1>4. ASSUME NEW l \in Link, Consumes(l)
      PROVE  Links!Next
  <2>1. /\ \A k \in Link : msg_queues[k] \in Seq(Packet) /\ received[k] \in Nat
        /\ msg_queues[l] # <<>>
        /\ UNCHANGED sent
        /\ received' = [received EXCEPT ![l] = Head(msg_queues[l]).number]
        /\ msg_queues' = [msg_queues EXCEPT ![l] = Tail(@)]
        /\ msg_queues \in [Link -> Seq(Packet)] /\ received \in [Link -> Nat]
    BY <1>4 DEF Consumes, TakePacket, TypeOK
  <2>2. /\ Len(msg_queues[l]) \in Nat /\ Len(msg_queues[l]) >= 1
        /\ Head(msg_queues[l]) = msg_queues[l][1]
        /\ Len(Tail(msg_queues[l])) = Len(msg_queues[l]) - 1
    BY <2>1, HeadTailProperties
  <2>3. Head(msg_queues[l]).number = received[l] + 1
    BY <2>2 DEF LinkInv, LinkOK
  <2>4. Arrived' = Arrived
    <3>1. ASSUME NEW k \in Link
          PROVE  received'[k] + Len(msg_queues'[k]) = received[k] + Len(msg_queues[k])
      <4>1. CASE k = l
        <5>1. received'[l] = received[l] + 1 /\ msg_queues'[l] = Tail(msg_queues[l])
          BY <2>1, <2>3
        <5>2. Len(msg_queues'[l]) = Len(msg_queues[l]) - 1
          BY <2>2, <5>1
        <5>3. received[l] \in Nat /\ Len(msg_queues[l]) \in Nat
          BY <2>1, <2>2
        <5>. QED  BY <4>1, <5>1, <5>2, <5>3
      <4>2. CASE k # l
        BY <2>1, <4>2
      <4>. QED  BY <4>1, <4>2
    <3>. QED  BY <3>1 DEF Arrived
  <2>5. received[l] < Arrived[l]
    BY <2>1, <2>2 DEF Arrived
  <2>. QED  BY <2>1, <2>3, <2>4, <2>5 DEF Links!Next, Links!Receive
<1>5. ASSUME Quiet
      PROVE  UNCHANGED Links!vars
  BY <1>5 DEF Quiet, Arrived, Links!vars
<1>. QED  BY <1>1, <1>2, <1>3, <1>4, <1>5, LinkCases

\* The simulated links implement the links the Network trait promises.
THEOREM LinksRefined == Spec => LinksSpec
BY LinkInvariant, LinksRefineInit, LinksRefineStep, PTL DEF Spec, LinksSpec, Links!Spec

=============================================================================
