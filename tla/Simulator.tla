----------------------------- MODULE Simulator -----------------------------
(***************************************************************************)
(* A simulated run: the executor (src/net/simulation/executor.rs), the     *)
(* receive futures (switchboard/recv.rs) and one task per party that uses  *)
(* its SimNetwork, on top of the shared Switchboard.                       *)
(*                                                                         *)
(* The executor is cooperative and single-threaded.  A polled task runs    *)
(* until a receive parks it or it ends; no other task runs meanwhile, and  *)
(* virtual time does not move.  When no task is ready the next scheduled   *)
(* event is delivered, which may wake one task.                            *)
(*                                                                         *)
(* The party's protocol is arbitrary: whenever its task runs, it may send  *)
(* to any party, start any of the four receives, end, or fail.  A task     *)
(* awaits the receive it started before it does anything else: receives    *)
(* take &mut self and no protocol of the crate drops one half-way.         *)
(***************************************************************************)
EXTENDS Switchboard

CONSTANTS
  Delays,         \* delays a link may impose on a packet (by its size)
  Timeouts,       \* timeouts a protocol may pass to a timed receive
  NoParty,        \* no task is being polled
  MaxOps          \* bound: network operations a party's protocol performs

ASSUME SimulatorAssumption ==
  /\ Delays \subseteq Nat
  /\ Timeouts \subseteq Nat
  /\ NoParty \notin Party
  /\ MaxOps \in Nat

VARIABLES
  ready_queue,    \* the executor's queue of task ids awaiting a poll
  current,        \* the party whose task is being polled
  finished,       \* the parties whose task returned Ready
  awaiting,       \* awaiting[p]: the receive future p's task is suspended in
  status,         \* how the run stands
  ops             \* ops[p]: operations p's protocol performed (bounded)

executorVars == <<ready_queue, current, finished, awaiting, status, ops>>

vars == <<msg_queues, parked, events, clocks, last_arrivals, seq, sent, received,
          ready_queue, current, finished, awaiting, status, ops>>

-----------------------------------------------------------------------------
\* The four futures of recv.rs, with the senders they accept and their deadline.
Future ==
  [kind : {"None", "Recv", "RecvAny", "RecvTimeout", "RecvAnyTimeout"},
   senders : SUBSET Party,
   deadline : Nat]

NoFuture == [kind |-> "None", senders |-> {}, deadline |-> 0]

Recv(s) == [kind |-> "Recv", senders |-> {s}, deadline |-> 0]

RecvAny == [kind |-> "RecvAny", senders |-> Party, deadline |-> 0]

\* The deadline is fixed by the first poll: the clock then plus the timeout.
RecvTimeout(p, s, timeout) ==
  [kind |-> "RecvTimeout", senders |-> {s}, deadline |-> clocks[p] + timeout]

RecvAnyTimeout(p, timeout) ==
  [kind |-> "RecvAnyTimeout", senders |-> Party, deadline |-> clocks[p] + timeout]

Timed(fut) == fut.kind \in {"RecvTimeout", "RecvAnyTimeout"}

FromAny(fut) == fut.kind \in {"RecvAny", "RecvAnyTimeout"}

Pending(p) == awaiting[p].kind # "None"

AwaitedLinks(p) == InLinks(p, awaiting[p].senders)

Live(p) == p \in Party \ finished

-----------------------------------------------------------------------------
(***************************************************************************)
(* poll of a receive future of p.  It resolves with the next packet, or    *)
(* with Timeout, and then the task goes on; or it parks the waker on every *)
(* link it accepts and the task is suspended.                              *)
(***************************************************************************)
\* Fault: resolving without dropping the wakers parked on the other links.
KeepWakers(p, fut) == parked

\* The any-receives drop the wakers they parked; Recv and RecvTimeout parked a
\* single one, which the wake itself consumed.
UnparkOnResolve(p, fut) ==
  IF FromAny(fut) THEN parked \ InLinks(p, fut.senders) ELSE parked

\* Fault: the strict comparison the comment in try_recv_with_deadline warns about.
ExpiredStrictly(p, fut) == Timed(fut) /\ clocks[p] > fut.deadline

Expired(p, fut) == Timed(fut) /\ clocks[p] >= fut.deadline

PollPacket(p, fut) ==
  \E s \in fut.senders :
    /\ IsChosen(s, p, fut.senders)
    /\ TakePacket(<<s, p>>)
    /\ parked' = UnparkOnResolve(p, fut)
    /\ current' = p
    /\ awaiting' = [awaiting EXCEPT ![p] = NoFuture]

PollTimeout(p, fut) ==
  /\ ReadySenders(p, fut.senders) = {}
  /\ Expired(p, fut)
  /\ parked' = UnparkOnResolve(p, fut)
  /\ current' = p
  /\ awaiting' = [awaiting EXCEPT ![p] = NoFuture]
  /\ UNCHANGED <<msg_queues, received>>

PollPending(p, fut) ==
  /\ ReadySenders(p, fut.senders) = {}
  /\ ~Expired(p, fut)
  /\ parked' = parked \cup InLinks(p, fut.senders)
  /\ current' = NoParty
  /\ awaiting' = [awaiting EXCEPT ![p] = fut]
  /\ UNCHANGED <<msg_queues, received>>

Poll(p, fut) ==
  \/ PollPacket(p, fut)
  \/ PollTimeout(p, fut)
  \/ PollPending(p, fut)

-----------------------------------------------------------------------------
(***************************************************************************)
(* The party's protocol, while its task is polled: SimNetwork's operations *)
(* and the end of drive_party_to_completion.                               *)
(***************************************************************************)
Operates(p) ==
  /\ status = "running"
  /\ current = p
  /\ ops[p] < MaxOps
  /\ ops' = [ops EXCEPT ![p] = @ + 1]

\* send_to: never suspends.  send_many is a sequence of these.
Send(p, to, delay) ==
  /\ Operates(p)
  /\ PushPacket(<<p, to>>, delay)
  /\ UNCHANGED <<ready_queue, current, finished, awaiting, status>>

\* What the first poll of any receive leaves alone.
ReceiveFrame == UNCHANGED <<clocks, last_arrivals, sent, ready_queue, finished, status>>

RecvFrom(p, s) ==
  /\ Operates(p)
  /\ Poll(p, Recv(s))
  /\ UNCHANGED <<events, seq>>
  /\ ReceiveFrame

RecvFromAny(p) ==
  /\ Operates(p)
  /\ Poll(p, RecvAny)
  /\ UNCHANGED <<events, seq>>
  /\ ReceiveFrame

\* Fault: no timer is armed.
NoTimer(l, deadline) == UNCHANGED <<events, seq>>

\* The first poll of a timed receive arms its timer, even if a packet is queued.
ArmTimer(l, deadline) == ScheduleTimer(l, deadline)

RecvFromWithTimeout(p, s, timeout) ==
  /\ Operates(p)
  /\ ArmTimer(<<s, p>>, clocks[p] + timeout)
  /\ Poll(p, RecvTimeout(p, s, timeout))
  /\ ReceiveFrame

\* One timer, on the link from the first party of the vector.
RecvAnyWithTimeout(p, timeout) ==
  /\ Operates(p)
  /\ ArmTimer(<<PartyOrder[1], p>>, clocks[p] + timeout)
  /\ Poll(p, RecvAnyTimeout(p, timeout))
  /\ ReceiveFrame

\* The protocol returns its output and the task is Ready.
Finish(p) ==
  /\ status = "running"
  /\ current = p
  /\ current' = NoParty
  /\ finished' = finished \cup {p}
  /\ status' = IF finished' = Party THEN "completed" ELSE status
  /\ UNCHANGED <<ready_queue, awaiting, ops>>
  /\ UNCHANGED switchboardVars

\* The protocol returns an error: expect() panics, and the whole run with it.
Fail(p) ==
  /\ status = "running"
  /\ current = p
  /\ status' = "failed"
  /\ UNCHANGED <<ready_queue, current, finished, awaiting, ops>>
  /\ UNCHANGED switchboardVars

-----------------------------------------------------------------------------
(***************************************************************************)
(* The executor's loop.                                                    *)
(***************************************************************************)
\* The front of the ready queue.  The loop skips the id of a finished task;
\* ReadyTasksLive says that none is ever popped.
PopsReady(p) ==
  /\ status = "running"
  /\ current = NoParty
  /\ ready_queue # <<>>
  /\ p = Head(ready_queue)
  /\ Live(p)
  /\ ready_queue' = Tail(ready_queue)

\* The first poll of a task starts its protocol.
StartTask(p) ==
  /\ PopsReady(p)
  /\ ~Pending(p)
  /\ current' = p
  /\ UNCHANGED <<finished, awaiting, status, ops>>
  /\ UNCHANGED switchboardVars

\* A woken task polls again the receive it is suspended in.
ResumeTask(p) ==
  /\ PopsReady(p)
  /\ Pending(p)
  /\ Poll(p, awaiting[p])
  /\ UNCHANGED <<events, clocks, last_arrivals, seq, sent, finished, status, ops>>

IsIdle ==
  /\ status = "running"
  /\ current = NoParty
  /\ ready_queue = <<>>

\* Fault: deliver_next wakes nobody.
WakeNobody(e) == ready_queue

\* The ready queue after deliver_next wakes the waker parked on e's link, if any.
Wake(e) ==
  IF e.link \in parked THEN Append(ready_queue, e.link[2]) ELSE ready_queue

DeliverPacket(e) ==
  /\ IsIdle
  /\ e.kind = "Delivery"
  /\ ready_queue' = Wake(e)
  /\ DeliverNext(e)
  /\ UNCHANGED <<current, finished, awaiting, status, ops>>

FireTimer(e) ==
  /\ IsIdle
  /\ e.kind = "Timer"
  /\ ready_queue' = Wake(e)
  /\ DeliverNext(e)
  /\ UNCHANGED <<current, finished, awaiting, status, ops>>

\* Tasks remain, none is ready and no event is scheduled: the executor panics.
Deadlock ==
  /\ IsIdle
  /\ events = {}
  /\ status' = "deadlocked"
  /\ UNCHANGED <<ready_queue, current, finished, awaiting, ops>>
  /\ UNCHANGED switchboardVars

\* The run is over.
Ended == status # "running" /\ UNCHANGED vars

-----------------------------------------------------------------------------
Init ==
  /\ SwitchboardInit
  /\ ready_queue = PartyOrder
  /\ current = NoParty
  /\ finished = {}
  /\ awaiting = [p \in Party |-> NoFuture]
  /\ status = "running"
  /\ ops = [p \in Party |-> 0]

ProtocolStep(p) ==
  \/ \E to \in Party, delay \in Delays : Send(p, to, delay)
  \/ \E s \in Party : RecvFrom(p, s)
  \/ RecvFromAny(p)
  \/ \E s \in Party, timeout \in Timeouts : RecvFromWithTimeout(p, s, timeout)
  \/ \E timeout \in Timeouts : RecvAnyWithTimeout(p, timeout)
  \/ Finish(p)
  \/ Fail(p)

ExecutorStep ==
  \/ \E p \in Party : StartTask(p) \/ ResumeTask(p)
  \/ \E e \in events : DeliverPacket(e) \/ FireTimer(e)
  \/ Deadlock

Next ==
  \/ \E p \in Party : ProtocolStep(p)
  \/ ExecutorStep
  \/ Ended

Spec == Init /\ [][Next]_vars

\* The executor's loop is plain sequential code: it never stops by itself, and a
\* protocol's code between two awaits ends (MaxOps bounds it).
FairSpec == Spec /\ WF_vars(Next)

-----------------------------------------------------------------------------
(***************************************************************************)
(* Properties.                                                             *)
(***************************************************************************)
InReadyQueue(p) == \E i \in 1..Len(ready_queue) : ready_queue[i] = p

\* The tasks that will run before virtual time moves again.
Runnable(p) == Live(p) /\ (current = p \/ InReadyQueue(p))

InFlight(l) == {e \in events : e.kind = "Delivery" /\ e.link = l}

TypeOK ==
  /\ msg_queues \in [Link -> Seq(Packet)]
  /\ parked \subseteq Link
  /\ events \subseteq ScheduledEvent
  /\ clocks \in [Party -> Nat]
  /\ last_arrivals \in [Link -> Nat]
  /\ seq \in Nat
  /\ sent \in [Link -> Nat]
  /\ received \in [Link -> Nat]
  /\ ready_queue \in Seq(Party)
  /\ current \in Party \cup {NoParty}
  /\ finished \subseteq Party
  /\ awaiting \in [Party -> Future]
  /\ status \in {"running", "completed", "failed", "deadlocked"}
  /\ ops \in [Party -> Nat]

\* Per-link FIFO, nothing lost or duplicated (send, mod.rs:118-124): what is queued
\* on a link follows what was received on it without a gap, what is in flight is
\* all that was sent since, and it is scheduled in the order it was sent however
\* the delays of the packets compare.
LinkOrder ==
  \A l \in Link :
    /\ \A i \in 1..Len(msg_queues[l]) : msg_queues[l][i].number = received[l] + i
    /\ {e.number : e \in InFlight(l)} = received[l] + Len(msg_queues[l]) + 1 .. sent[l]
    /\ \A e, f \in InFlight(l) : e.number < f.number => Before(e, f)

\* Virtual time never runs backwards (deliver_next, mod.rs:183-191): no event is
\* scheduled before a clock that has already passed it, and no party's clock is
\* ahead of a party that is still to run at this instant.
VirtualTimeMonotone ==
  /\ \A e \in events, p \in Party : clocks[p] <= e.arrival
  /\ \A p, q \in Party : Runnable(p) => clocks[q] <= clocks[p]

\* No lost wake-up (park, park_any, deliver_next): a suspended task that nothing
\* will poll has no packet queued on a link it accepts, and its waker is parked on
\* every one of these links.
NoLostWakeup ==
  \A p \in Party : Pending(p) /\ ~InReadyQueue(p) =>
    /\ ReadySenders(p, awaiting[p].senders) = {}
    /\ AwaitedLinks(p) \subseteq parked

\* No waker outlives the receive that parked it (try_recv_any, mod.rs:284-287, and
\* try_recv_any_with_deadline, mod.rs:316-321): it would wake a task that waits
\* for something else, or for nothing.
NoStaleWaker ==
  \A l \in parked : Pending(l[2]) /\ l \in AwaitedLinks(l[2])

\* A task is in the ready queue at most once, and never after it has ended or
\* while it is being polled: the loop's `if let Some(task)` always holds.
ReadyTasksLive ==
  /\ \A i, j \in 1..Len(ready_queue) : ready_queue[i] = ready_queue[j] => i = j
  /\ \A p \in Party : InReadyQueue(p) => Live(p) /\ current # p

\* A timed receive cannot sleep through its deadline (RecvTimeout and
\* RecvAnyTimeout): while it is suspended its deadline has not passed, and an
\* event that wakes it, at the deadline or before, is still scheduled.
TimerArmed ==
  \A p \in Party : Pending(p) /\ Timed(awaiting[p]) =>
    /\ clocks[p] <= awaiting[p].deadline
    /\ InReadyQueue(p)
       \/ \E e \in events : e.link \in AwaitedLinks(p) /\ e.arrival <= awaiting[p].deadline

\* Stale timers do not distort time (the claim at mod.rs:186-189): the clock of a
\* suspended party may be moved by events that do not concern it, yet it finds
\* its packet at the very instant the packet arrived.
ResumesOnArrival ==
  \A p \in Party : Pending(p) =>
    \A l \in AwaitedLinks(p) : \A i \in 1..Len(msg_queues[l]) :
      msg_queues[l][i].arrival = clocks[p]

\* What the comment on try_recv_with_deadline (mod.rs:228-230) says: a packet
\* delivered exactly at the deadline instant wins the tie.  So a timed receive
\* about to report Timeout leaves no packet in flight that arrives by its deadline.
PacketWinsTie ==
  \A p \in Party : Pending(p) /\ InReadyQueue(p) /\ Expired(p, awaiting[p]) =>
    \/ ReadySenders(p, awaiting[p].senders) # {}
    \/ \A l \in AwaitedLinks(p) : \A e \in InFlight(l) :
         e.arrival > awaiting[p].deadline

\* The deadlock panic is genuine (run_simulation_with_idle, Panics): somebody is
\* still running, and all who are wait, with no timeout, for packets that nobody
\* has sent.
DeadlockGenuine ==
  status = "deadlocked" =>
    /\ finished # Party
    /\ \A p \in Party \ finished :
         /\ awaiting[p].kind \in {"Recv", "RecvAny"}
         /\ \A l \in AwaitedLinks(p) : sent[l] = received[l]

\* A timed receive ends, whatever the other parties do: it never contributes to a
\* deadlock, and only a run that fails elsewhere leaves it unanswered.
TimedReceiveResolves ==
  \A p \in Party :
    (Pending(p) /\ Timed(awaiting[p])) ~> (~Pending(p) \/ status = "failed")

\* Every run ends: no cycle of stale timers and spurious wake-ups keeps the
\* executor busy for ever.
RunEnds == <>(status # "running")

-----------------------------------------------------------------------------
(***************************************************************************)
(* The links of a simulated run behave as FifoLinks.                       *)
(***************************************************************************)
Arrived == [l \in Link |-> received[l] + Len(msg_queues[l])]

Links == INSTANCE FifoLinks WITH arrived <- Arrived

\* Whatever the delays, timers and wake-ups, the parties of a simulation see what
\* the Network trait promises: reliable FIFO links.
LinksSpec == Links!Spec

=============================================================================
