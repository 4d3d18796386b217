---------------------------- MODULE Switchboard ----------------------------
(***************************************************************************)
(* The in-memory router and virtual-time scheduler behind every simulated  *)
(* party (src/net/simulation/switchboard/mod.rs): message queues per link, *)
(* wakers of parked receives, a priority queue of scheduled events and a   *)
(* virtual clock per party.  This module holds the switchboard's state and *)
(* its operations; module Simulator drives them with the executor and the  *)
(* receive futures of the party tasks.                                     *)
(*                                                                         *)
(* A packet is its position among the packets sent on its link.  The size  *)
(* of a packet matters to the switchboard only through the delay it costs, *)
(* so a send picks its delay.  Virtual instants and spans are naturals.    *)
(***************************************************************************)
EXTENDS Integers, Sequences

CONSTANTS
  Party,          \* the party ids of the simulation
  PartyOrder      \* the `parties` vector given to simulate(): same order

\* Party ids are usize, and the vector names every party once.
ASSUME PartyAssumption ==
  /\ Party \subseteq Nat
  /\ PartyOrder \in Seq(Party)
  /\ PartyOrder # <<>>
  /\ \A i, j \in 1..Len(PartyOrder) : PartyOrder[i] = PartyOrder[j] => i = j
  /\ \A p \in Party : \E i \in 1..Len(PartyOrder) : PartyOrder[i] = p

VARIABLES
  msg_queues,     \* msg_queues[l]: packets delivered on link l, not received
  parked,         \* the links with a parked waker (of the recipient's task)
  events,         \* the heap of scheduled events
  clocks,         \* clocks[p]: the virtual time of party p
  last_arrivals,  \* last_arrivals[l]: arrival of the last packet sent on l
  seq,            \* sequence number of the next scheduled event
  sent,           \* history: sent[l] packets were sent on l
  received        \* history: the last packet received on l (0 = none)

switchboardVars ==
  <<msg_queues, parked, events, clocks, last_arrivals, seq, sent, received>>

-----------------------------------------------------------------------------
\* A link is <<sender, recipient>>; a party has a link to itself.
Link == Party \X Party

Packet == [number : Nat, arrival : Nat]

ScheduledEvent ==
  [arrival : Nat, seq : Nat, link : Link, kind : {"Delivery", "Timer"}, number : Nat]

\* Fault: events ordered by the moment they were scheduled.
BeforeBySeq(e, f) == e.seq < f.seq

\* The order of the heap: by arrival, ties broken by sequence number.
Before(e, f) ==
  \/ e.arrival < f.arrival
  \/ e.arrival = f.arrival /\ e.seq < f.seq

Later(t, u) == IF t >= u THEN t ELSE u

SwitchboardInit ==
  /\ msg_queues = [l \in Link |-> <<>>]
  /\ parked = {}
  /\ events = {}
  /\ clocks = [p \in Party |-> 0]
  /\ last_arrivals = [l \in Link |-> 0]
  /\ seq = 0
  /\ sent = [l \in Link |-> 0]
  /\ received = [l \in Link |-> 0]

-----------------------------------------------------------------------------
(***************************************************************************)
(* send: a delivery is scheduled at the sender's clock plus the delay, but *)
(* not before the previous arrival on the link.                            *)
(***************************************************************************)
\* Fault: no clamp, a small packet overtakes a large one.
ArrivalUnclamped(l, delay) == clocks[l[1]] + delay

\* Fault: the delay is taken from the clock.
ArrivalBackwards(l, delay) == clocks[l[1]] - delay

ArrivalTime(l, delay) == Later(clocks[l[1]] + delay, last_arrivals[l])

PushPacket(l, delay) ==
  /\ events' = events \cup
       {[arrival |-> ArrivalTime(l, delay), seq |-> seq, link |-> l,
         kind |-> "Delivery", number |-> sent[l] + 1]}
  /\ last_arrivals' = [last_arrivals EXCEPT ![l] = ArrivalTime(l, delay)]
  /\ seq' = seq + 1
  /\ sent' = [sent EXCEPT ![l] = @ + 1]
  /\ UNCHANGED <<msg_queues, parked, clocks, received>>

\* schedule_timer: a wake-up on the link at the deadline; it is never cancelled.
ScheduleTimer(l, deadline) ==
  /\ events' = events \cup
       {[arrival |-> deadline, seq |-> seq, link |-> l,
         kind |-> "Timer", number |-> 0]}
  /\ seq' = seq + 1

-----------------------------------------------------------------------------
(***************************************************************************)
(* deliver_next: pop the next event, advance the recipient's clock to it,  *)
(* queue the packet it carries and take the waker parked on its link.      *)
(***************************************************************************)
IsNext(e) ==
  /\ e \in events
  /\ \A f \in events \ {e} : Before(e, f)

\* Fault: the sender's clock is advanced.
SenderClockAfter(e) == [clocks EXCEPT ![e.link[1]] = Later(@, e.arrival)]

ClockAfter(e) == [clocks EXCEPT ![e.link[2]] = Later(@, e.arrival)]

\* Fault: a timer that fired stays in the heap.
TimersStay(e) == IF e.kind = "Timer" THEN events ELSE events \ {e}

EventsAfter(e) == events \ {e}

DeliverNext(e) ==
  /\ IsNext(e)
  /\ events' = EventsAfter(e)
  /\ clocks' = ClockAfter(e)
  /\ msg_queues' =
       IF e.kind = "Delivery"
         THEN [msg_queues EXCEPT ![e.link] =
                 Append(@, [number |-> e.number, arrival |-> e.arrival])]
         ELSE msg_queues
  /\ parked' = parked \ {e.link}
  /\ UNCHANGED <<last_arrivals, seq, sent, received>>

-----------------------------------------------------------------------------
(***************************************************************************)
(* The try-receive and park API, for a receive by p from a set of senders  *)
(* (recv_from: one sender; recv_any: every party, p included).             *)
(***************************************************************************)
InLinks(p, senders) == {<<s, p>> : s \in senders}

ReadySenders(p, senders) == {s \in senders : msg_queues[<<s, p>>] # <<>>}

\* Among the queues with a packet, the lowest sender id is served.
IsChosen(s, p, senders) ==
  /\ s \in ReadySenders(p, senders)
  /\ \A r \in ReadySenders(p, senders) : s <= r

\* Fault: the newest packet of the queue is popped.
TakeNewest(l) ==
  /\ received' = [received EXCEPT ![l] = msg_queues[l][Len(msg_queues[l])].number]
  /\ msg_queues' = [msg_queues EXCEPT ![l] = SubSeq(@, 1, Len(@) - 1)]

\* try_recv: pop the front of the link's queue.
TakePacket(l) ==
  /\ received' = [received EXCEPT ![l] = Head(msg_queues[l]).number]
  /\ msg_queues' = [msg_queues EXCEPT ![l] = Tail(@)]

=============================================================================
