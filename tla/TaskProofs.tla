----------------------------- MODULE TaskProofs -----------------------------
(***************************************************************************)
(* The tasks of a simulated run.  First the wakers, the wake-ups and the   *)
(* ready queue: proofs of NoStaleWaker, NoLostWakeup and ReadyTasksLive;   *)
(* then, from them, virtual time.                                          *)
(*                                                                         *)
(* The first three hold together or not at all.  A wake-up is not lost     *)
(* because the waker is still parked; no waker is stale because a receive  *)
(* that resolves leaves none behind, which for a receive from a single     *)
(* sender needs that the wake itself has consumed its only waker; and a    *)
(* task is queued once because events are delivered only when the queue is *)
(* empty.                                                                  *)
(***************************************************************************)
EXTENDS SimulatorProofs

\* A receive accepts one sender or all the parties.
WellFormed(fut) ==
  /\ fut.kind \in {"Recv", "RecvTimeout"} => \E s \in Party : fut.senders = {s}
  /\ fut.kind \in {"RecvAny", "RecvAnyTimeout"} => fut.senders = Party

FuturesWellFormed == \A p \in Party : WellFormed(awaiting[p])

\* The task being polled has not ended and is not suspended.
PolledTaskRuns == current \in Party => Live(current) /\ ~Pending(current)

EndedTasksIdle == \A p \in finished : ~Pending(p)

\* A task that has not been started is in the ready queue.
UnstartedReady ==
  \A p \in Party : Live(p) /\ ~Pending(p) /\ current # p => InReadyQueue(p)

\* The wake-up of a receive from one sender has taken its waker.
WakeConsumesWaker ==
  \A p \in Party : Pending(p) /\ InReadyQueue(p) /\ ~FromAny(awaiting[p]) =>
    AwaitedLinks(p) \cap parked = {}

TaskInv ==
  /\ FuturesWellFormed
  /\ PolledTaskRuns
  /\ EndedTasksIdle
  /\ UnstartedReady
  /\ WakeConsumesWaker
  /\ ReadyTasksLive
  /\ NoStaleWaker
  /\ NoLostWakeup

-----------------------------------------------------------------------------
(***************************************************************************)
(* The ready queue.                                                        *)
(***************************************************************************)
NoDuplicates(q) == \A i, j \in 1..Len(q) : q[i] = q[j] => i = j

\* Popping the front leaves every other party where it was.
LEMMA PopReady ==
  ASSUME TypeOK, ReadyTasksLive, NEW p \in Party, PopsReady(p)
  PROVE  /\ InReadyQueue(p)
         /\ ~InReadyQueue(p)'
         /\ \A q \in Party \ {p} : InReadyQueue(q)' <=> InReadyQueue(q)
         /\ NoDuplicates(ready_queue')
<1>1. /\ ready_queue \in Seq(Party) /\ ready_queue # <<>>
      /\ ready_queue' = Tail(ready_queue)
      /\ p = Head(ready_queue)
      /\ NoDuplicates(ready_queue)
  BY DEF TypeOK, PopsReady, ReadyTasksLive, NoDuplicates
<1>2. /\ Len(ready_queue) \in Nat \ {0}
      /\ ready_queue[1] = p
      /\ Len(ready_queue') = Len(ready_queue) - 1
      /\ \A i \in 1..Len(ready_queue') : ready_queue'[i] = ready_queue[i + 1]
  BY <1>1, EmptySeq, HeadTailProperties
<1>3. InReadyQueue(p)
  BY <1>2 DEF InReadyQueue
<1>4. ~InReadyQueue(p)'
  <2>1. ASSUME NEW i \in 1..Len(ready_queue'), ready_queue'[i] = p
        PROVE  FALSE
    <3>1. i + 1 \in 1..Len(ready_queue) /\ 1 \in 1..Len(ready_queue) /\ i + 1 # 1
      BY <1>2
    <3>2. ready_queue[i + 1] = ready_queue[1]
      BY <1>2, <2>1
    <3>. QED  BY <1>1, <3>1, <3>2 DEF NoDuplicates
  <2>. QED  BY <2>1 DEF InReadyQueue
<1>5. ASSUME NEW q \in Party \ {p}
      PROVE  InReadyQueue(q)' <=> InReadyQueue(q)
  <2>1. ASSUME NEW i \in 1..Len(ready_queue'), ready_queue'[i] = q
        PROVE  InReadyQueue(q)
    <3>1. i + 1 \in 1..Len(ready_queue) /\ ready_queue[i + 1] = q
      BY <1>2, <2>1
    <3>. QED  BY <3>1 DEF InReadyQueue
  <2>2. ASSUME NEW i \in 1..Len(ready_queue), ready_queue[i] = q
        PROVE  InReadyQueue(q)'
    <3>1. i # 1
      BY <1>2, <2>2
    <3>2. i - 1 \in 1..Len(ready_queue') /\ (i - 1) + 1 = i
      BY <1>2, <3>1
    <3>3. ready_queue'[i - 1] = q
      BY <1>2, <2>2, <3>2
    <3>. QED  BY <3>2, <3>3 DEF InReadyQueue
  <2>. QED  BY <2>1, <2>2 DEF InReadyQueue
<1>6. NoDuplicates(ready_queue')
  <2>. SUFFICES ASSUME NEW i \in 1..Len(ready_queue'), NEW j \in 1..Len(ready_queue'),
                       ready_queue'[i] = ready_queue'[j]
                PROVE  i = j
    BY DEF NoDuplicates
  <2>1. i + 1 \in 1..Len(ready_queue) /\ j + 1 \in 1..Len(ready_queue)
    BY <1>2
  <2>2. ready_queue[i + 1] = ready_queue[j + 1]
    BY <1>2
  <2>3. i + 1 = j + 1
    BY <1>1, <2>1, <2>2 DEF NoDuplicates
  <2>. QED  BY <2>3
<1>. QED  BY <1>3, <1>4, <1>5, <1>6

-----------------------------------------------------------------------------
(***************************************************************************)
(* A poll of p's receive touches nothing of the other parties, and leaves  *)
(* p either running with no waker parked, or suspended with all of them.   *)
(***************************************************************************)
Suspended(p, fut) ==
  /\ current' = NoParty
  /\ awaiting'[p] = fut
  /\ \A s \in fut.senders : msg_queues'[<<s, p>>] = <<>>
  /\ \A l \in Link : l[2] = p => (l \in parked' <=> l \in InLinks(p, fut.senders))

Resolved(p) ==
  /\ current' = p
  /\ awaiting'[p] = NoFuture
  /\ \A l \in Link : l[2] = p => l \notin parked'

\* The wakers of p before the poll: those of this receive, or none.
OwnWakers(p, fut) ==
  /\ \A l \in parked : l[2] = p => l \in InLinks(p, fut.senders)
  /\ ~FromAny(fut) => InLinks(p, fut.senders) \cap parked = {}

LEMMA PollOthers ==
  ASSUME TypeOK, NEW p \in Party, NEW fut \in Future, Poll(p, fut)
  PROVE  /\ \A q \in Party \ {p} : awaiting'[q] = awaiting[q]
         /\ \A l \in Link : l[2] # p =>
              (l \in parked' <=> l \in parked) /\ msg_queues'[l] = msg_queues[l]
<1>1. \A l \in InLinks(p, fut.senders) : l[2] = p
  BY DEF InLinks
<1>2. CASE PollPacket(p, fut)
  <2>1. PICK s \in fut.senders :
          /\ TakePacket(<<s, p>>)
          /\ parked' = UnparkOnResolve(p, fut)
          /\ awaiting' = [awaiting EXCEPT ![p] = NoFuture]
    BY <1>2 DEF PollPacket
  <2>2. \A l \in Link : l[2] # p => msg_queues'[l] = msg_queues[l]
    BY <2>1 DEF TakePacket, TypeOK
  <2>3. \A l \in Link : l[2] # p => (l \in parked' <=> l \in parked)
    BY <1>1, <2>1 DEF UnparkOnResolve
  <2>4. \A q \in Party \ {p} : awaiting'[q] = awaiting[q]
    BY <2>1 DEF TypeOK
  <2>. QED  BY <2>2, <2>3, <2>4
<1>3. CASE PollTimeout(p, fut)
  BY <1>1, <1>3 DEF PollTimeout, UnparkOnResolve, TypeOK
<1>4. CASE PollPending(p, fut)
  BY <1>1, <1>4 DEF PollPending, TypeOK
<1>. QED  BY <1>2, <1>3, <1>4 DEF Poll

LEMMA PollSelf ==
  ASSUME TypeOK, NEW p \in Party, NEW fut \in Future, Poll(p, fut), OwnWakers(p, fut)
  PROVE  Suspended(p, fut) \/ Resolved(p)
<1>1. parked \subseteq Link /\ awaiting \in [Party -> Future]
  BY DEF TypeOK
<1>2. \A l \in Link : l[2] = p => l \notin UnparkOnResolve(p, fut)
  BY DEF UnparkOnResolve, OwnWakers
<1>3. CASE PollPacket(p, fut)
  BY <1>1, <1>2, <1>3 DEF PollPacket, Resolved
<1>4. CASE PollTimeout(p, fut)
  BY <1>1, <1>2, <1>4 DEF PollTimeout, Resolved
<1>5. CASE PollPending(p, fut)
  <2>1. \A s \in fut.senders : msg_queues'[<<s, p>>] = <<>>
    BY <1>5 DEF PollPending, ReadySenders
  <2>2. \A l \in Link : l[2] = p => (l \in parked' <=> l \in InLinks(p, fut.senders))
    BY <1>5 DEF PollPending, OwnWakers
  <2>. QED  BY <1>1, <1>5, <2>1, <2>2 DEF PollPending, Suspended
<1>. QED  BY <1>3, <1>4, <1>5 DEF Poll

\* What a poll of p's receive requires of the step that makes it.
PollsTask(p, fut) ==
  /\ Poll(p, fut)
  /\ OwnWakers(p, fut)
  /\ WellFormed(fut)
  /\ fut.kind # "None"
  /\ Live(p)
  /\ current \in {p, NoParty}
  /\ finished' = finished
  /\ ~InReadyQueue(p)'
  /\ \A q \in Party \ {p} : InReadyQueue(q)' <=> InReadyQueue(q)
  /\ NoDuplicates(ready_queue')

\* A party is always within its type, and its links are links.
LEMMA TaskTypes ==
  ASSUME TypeOK
  PROVE  /\ NoParty \notin Party
         /\ parked \subseteq Link
         /\ finished \subseteq Party
         /\ \A l \in Link : l[2] \in Party
         /\ \A p \in Party, fut \in Future : InLinks(p, fut.senders) \subseteq Link
         /\ \A p \in Party : \A l \in AwaitedLinks(p) : l \in Link /\ l[2] = p
         /\ NoFuture \in Future /\ NoFuture.kind = "None" /\ NoFuture.senders = {}
BY SimulatorAssumption DEF TypeOK, Link, InLinks, AwaitedLinks, Future, NoFuture

LEMMA PollStep ==
  ASSUME TypeOK, TypeOK', TaskInv, NEW p \in Party, NEW fut \in Future, PollsTask(p, fut)
  PROVE  TaskInv'
<1>1. /\ \A q \in Party \ {p} : awaiting'[q] = awaiting[q]
      /\ \A l \in Link : l[2] # p =>
           (l \in parked' <=> l \in parked) /\ msg_queues'[l] = msg_queues[l]
  BY PollOthers DEF PollsTask
<1>2. Suspended(p, fut) \/ Resolved(p)
  BY PollSelf DEF PollsTask
<1>3. /\ NoParty \notin Party
      /\ parked' \subseteq Link
      /\ \A l \in Link : l[2] \in Party
      /\ InLinks(p, fut.senders) \subseteq Link
      /\ NoFuture.kind = "None" /\ NoFuture.senders = {}
  BY TaskTypes DEF TypeOK
<1>4. current' \in {p, NoParty} /\ awaiting'[p] \in {fut, NoFuture}
  BY <1>2 DEF Suspended, Resolved
<1>5. \A q \in Party \ {p} : (Pending(q)' <=> Pending(q)) /\ (AwaitedLinks(q)' = AwaitedLinks(q))
  BY <1>1 DEF Pending, AwaitedLinks, InLinks
<1>6. \A q \in Party \ {p} : \A l \in AwaitedLinks(q) : l \in Link /\ l[2] = q
  BY TaskTypes
<1>7. FuturesWellFormed'
  <2>1. WellFormed(NoFuture)
    BY <1>3 DEF WellFormed
  <2>2. \A q \in Party \ {p} : WellFormed(awaiting'[q])
    BY <1>1 DEF TaskInv, FuturesWellFormed
  <2>3. WellFormed(awaiting'[p])
    BY <1>4, <2>1 DEF PollsTask
  <2>. QED  BY <2>2, <2>3 DEF FuturesWellFormed, WellFormed
<1>8. PolledTaskRuns'
  BY <1>2, <1>3 DEF PollsTask, PolledTaskRuns, Suspended, Resolved, Live, Pending
<1>9. EndedTasksIdle'
  <2>1. p \notin finished /\ finished' = finished /\ finished \subseteq Party
    BY DEF PollsTask, Live, TypeOK
  <2>. QED  BY <1>5, <2>1 DEF TaskInv, EndedTasksIdle
<1>10. UnstartedReady'
  <2>1. ASSUME NEW q \in Party \ {p}, Live(q)', ~Pending(q)', current' # q
        PROVE  InReadyQueue(q)'
    <3>1. Live(q) /\ ~Pending(q) /\ current # q
      BY <1>3, <1>5, <2>1 DEF PollsTask, Live
    <3>. QED  BY <3>1 DEF TaskInv, UnstartedReady, PollsTask
  <2>2. ~Pending(p)' => current' = p
    BY <1>2 DEF Suspended, Resolved, Pending, PollsTask
  <2>. QED  BY <2>1, <2>2 DEF UnstartedReady
<1>11. WakeConsumesWaker'
  <2>1. ASSUME NEW q \in Party \ {p}, Pending(q)', InReadyQueue(q)', ~FromAny(awaiting[q])'
        PROVE  AwaitedLinks(q)' \cap parked' = {}
    <3>1. Pending(q) /\ InReadyQueue(q) /\ ~FromAny(awaiting[q])
      BY <1>1, <1>5, <2>1 DEF PollsTask, FromAny
    <3>2. AwaitedLinks(q) \cap parked = {}
      BY <3>1 DEF TaskInv, WakeConsumesWaker
    <3>. QED  BY <1>1, <1>5, <1>6, <3>2
  <2>2. ~InReadyQueue(p)'
    BY DEF PollsTask
  <2>. QED  BY <2>1, <2>2 DEF WakeConsumesWaker
<1>12. ReadyTasksLive'
  <2>1. ASSUME NEW q \in Party, InReadyQueue(q)'
        PROVE  Live(q)' /\ current' # q
    <3>1. q # p /\ InReadyQueue(q)
      BY <2>1 DEF PollsTask
    <3>2. Live(q)
      BY <3>1 DEF TaskInv, ReadyTasksLive
    <3>. QED  BY <1>3, <1>4, <3>1, <3>2 DEF PollsTask, Live
  <2>. QED  BY <2>1 DEF PollsTask, NoDuplicates, ReadyTasksLive
<1>13. NoStaleWaker'
  <2>1. ASSUME NEW l \in parked', l[2] # p
        PROVE  Pending(l[2])' /\ l \in AwaitedLinks(l[2])'
    <3>1. l \in parked /\ l[2] \in Party \ {p}
      BY <1>1, <1>3, <2>1
    <3>. QED  BY <1>5, <3>1 DEF TaskInv, NoStaleWaker
  <2>2. ASSUME NEW l \in parked', l[2] = p
        PROVE  Pending(p)' /\ l \in AwaitedLinks(p)'
    <3>1. Suspended(p, fut)
      BY <1>2, <1>3, <2>2 DEF Resolved
    <3>2. l \in InLinks(p, fut.senders) /\ awaiting'[p] = fut
      BY <1>3, <2>2, <3>1 DEF Suspended
    <3>. QED  BY <3>2 DEF PollsTask, Pending, AwaitedLinks, InLinks
  <2>. QED  BY <2>1, <2>2 DEF NoStaleWaker
<1>14. NoLostWakeup'
  <2>1. ASSUME NEW q \in Party \ {p}, Pending(q)', ~InReadyQueue(q)'
        PROVE  /\ ReadySenders(q, awaiting[q].senders)' = {}
               /\ AwaitedLinks(q)' \subseteq parked'
    <3>1. ReadySenders(q, awaiting[q].senders) = {} /\ AwaitedLinks(q) \subseteq parked
      BY <1>5, <2>1 DEF TaskInv, NoLostWakeup, PollsTask
    <3>2. AwaitedLinks(q)' \subseteq parked'
      BY <1>1, <1>5, <1>6, <3>1
    <3>3. ASSUME NEW s \in awaiting[q].senders
          PROVE  msg_queues'[<<s, q>>] = <<>>
      <4>1. <<s, q>> \in AwaitedLinks(q)
        BY DEF AwaitedLinks, InLinks
      <4>2. <<s, q>> \in Link /\ <<s, q>>[2] # p
        BY <1>6, <4>1
      <4>3. msg_queues[<<s, q>>] = <<>>
        BY <3>1 DEF ReadySenders
      <4>. QED  BY <1>1, <4>2, <4>3
    <3>. QED  BY <1>1, <3>2, <3>3 DEF ReadySenders
  <2>2. ASSUME Pending(p)'
        PROVE  /\ ReadySenders(p, awaiting[p].senders)' = {}
               /\ AwaitedLinks(p)' \subseteq parked'
    <3>1. Suspended(p, fut)
      BY <1>2, <1>3, <2>2 DEF Resolved, Pending
    <3>2. awaiting'[p] = fut /\ \A s \in fut.senders : msg_queues'[<<s, p>>] = <<>>
      BY <3>1 DEF Suspended
    <3>3. \A l \in InLinks(p, fut.senders) : l \in Link /\ l[2] = p
      BY <1>3 DEF InLinks
    <3>4. InLinks(p, fut.senders) \subseteq parked'
      BY <3>1, <3>3 DEF Suspended
    <3>. QED  BY <3>2, <3>4 DEF ReadySenders, AwaitedLinks, InLinks
  <2>. QED  BY <2>1, <2>2 DEF NoLostWakeup
<1>. QED
  BY <1>7, <1>8, <1>9, <1>10, <1>11, <1>12, <1>13, <1>14 DEF TaskInv

-----------------------------------------------------------------------------
(***************************************************************************)
(* TaskInv is inductive.                                                   *)
(***************************************************************************)
LEMMA TaskInit == Init => TaskInv
<1>. SUFFICES ASSUME Init PROVE TaskInv
  OBVIOUS
<1>1. /\ \A p \in Party : awaiting[p] = NoFuture
      /\ parked = {} /\ finished = {} /\ current = NoParty /\ ready_queue = PartyOrder
  BY DEF Init, SwitchboardInit
<1>2. NoParty \notin Party /\ NoFuture.kind = "None"
  BY SimulatorAssumption DEF NoFuture
<1>3. \A p \in Party : WellFormed(awaiting[p]) /\ ~Pending(p)
  BY <1>1, <1>2 DEF WellFormed, Pending
<1>4. \A p \in Party : InReadyQueue(p)
  BY <1>1, PartyAssumption DEF InReadyQueue
<1>5. ReadyTasksLive
  BY <1>1, <1>2, PartyAssumption DEF ReadyTasksLive, Live
<1>. QED
  BY <1>1, <1>2, <1>3, <1>4, <1>5
  DEF TaskInv, FuturesWellFormed, PolledTaskRuns, EndedTasksIdle, UnstartedReady,
      WakeConsumesWaker, NoStaleWaker, NoLostWakeup

\* A step that moves no task leaves everything as it is.
LEMMA TaskFrame ==
  ASSUME TaskInv, UNCHANGED <<msg_queues, parked, ready_queue, current, finished, awaiting>>
  PROVE  TaskInv'
BY DEF TaskInv, FuturesWellFormed, WellFormed, PolledTaskRuns, EndedTasksIdle, UnstartedReady,
       WakeConsumesWaker, ReadyTasksLive, NoStaleWaker, NoLostWakeup, Pending, Live, FromAny,
       InReadyQueue, AwaitedLinks, InLinks, ReadySenders

\* The first poll of a receive, by the task being polled: nothing is parked for it.
LEMMA FirstPoll ==
  ASSUME TypeOK, TaskInv, NEW p \in Party, NEW fut \in Future,
         current = p, Poll(p, fut), WellFormed(fut), fut.kind # "None",
         UNCHANGED <<ready_queue, finished>>
  PROVE  PollsTask(p, fut)
<1>1. Live(p) /\ ~Pending(p)
  BY DEF TaskInv, PolledTaskRuns
<1>2. \A l \in parked : l[2] # p
  BY <1>1 DEF TaskInv, NoStaleWaker
<1>3. OwnWakers(p, fut)
  BY <1>2 DEF OwnWakers, InLinks
<1>4. \A q \in Party : InReadyQueue(q)' <=> InReadyQueue(q)
  BY DEF InReadyQueue
<1>5. ~InReadyQueue(p) /\ NoDuplicates(ready_queue')
  BY DEF TaskInv, ReadyTasksLive, NoDuplicates
<1>. QED  BY <1>1, <1>3, <1>4, <1>5 DEF PollsTask

\* A woken task polls its receive again: the wakers left are its own.
LEMMA SecondPoll ==
  ASSUME TypeOK, TaskInv, NEW p \in Party, ResumeTask(p)
  PROVE  awaiting[p] \in Future /\ PollsTask(p, awaiting[p])
<1>1. PopsReady(p) /\ Pending(p) /\ Poll(p, awaiting[p]) /\ finished' = finished
  BY DEF ResumeTask
<1>2. /\ InReadyQueue(p)
      /\ ~InReadyQueue(p)'
      /\ \A q \in Party \ {p} : InReadyQueue(q)' <=> InReadyQueue(q)
      /\ NoDuplicates(ready_queue')
  BY <1>1, PopReady DEF TaskInv
<1>3. \A l \in parked : l[2] = p => l \in InLinks(p, awaiting[p].senders)
  BY DEF TaskInv, NoStaleWaker, AwaitedLinks
<1>4. ~FromAny(awaiting[p]) => InLinks(p, awaiting[p].senders) \cap parked = {}
  BY <1>1, <1>2 DEF TaskInv, WakeConsumesWaker, AwaitedLinks
<1>5. OwnWakers(p, awaiting[p])
  BY <1>3, <1>4 DEF OwnWakers
<1>6. awaiting[p] \in Future /\ WellFormed(awaiting[p])
  BY DEF TypeOK, TaskInv, FuturesWellFormed
<1>7. Live(p) /\ current \in {p, NoParty} /\ awaiting[p].kind # "None"
  BY <1>1 DEF PopsReady, Pending
<1>. QED  BY <1>1, <1>2, <1>5, <1>6, <1>7 DEF PollsTask

LEMMA StartStep ==
  ASSUME TypeOK, TaskInv, NEW p \in Party, StartTask(p)
  PROVE  TaskInv'
<1>1. /\ PopsReady(p) /\ Live(p) /\ ~Pending(p)
      /\ current = NoParty /\ current' = p
      /\ UNCHANGED <<msg_queues, parked, finished, awaiting>>
  BY DEF StartTask, PopsReady, switchboardVars
<1>2. /\ ~InReadyQueue(p)'
      /\ \A q \in Party \ {p} : InReadyQueue(q)' <=> InReadyQueue(q)
      /\ NoDuplicates(ready_queue')
  BY <1>1, PopReady DEF TaskInv
<1>3. /\ \A q \in Party : Pending(q)' <=> Pending(q)
      /\ \A q \in Party : AwaitedLinks(q)' = AwaitedLinks(q)
      /\ \A q \in Party : Live(q)' <=> Live(q)
  BY <1>1 DEF Pending, AwaitedLinks, InLinks, Live
<1>4. FuturesWellFormed' /\ EndedTasksIdle' /\ PolledTaskRuns'
  BY <1>1, <1>3 DEF TaskInv, FuturesWellFormed, WellFormed, EndedTasksIdle, PolledTaskRuns,
                    Live, Pending
<1>5. UnstartedReady'
  BY <1>1, <1>2, <1>3, TaskTypes DEF TaskInv, UnstartedReady
<1>6. WakeConsumesWaker'
  BY <1>1, <1>2, <1>3 DEF TaskInv, WakeConsumesWaker, FromAny
<1>7. ReadyTasksLive'
  <2>1. ASSUME NEW q \in Party, InReadyQueue(q)'
        PROVE  Live(q)' /\ current' # q
    BY <1>1, <1>2, <1>3, <2>1 DEF TaskInv, ReadyTasksLive
  <2>. QED  BY <1>2, <2>1 DEF NoDuplicates, ReadyTasksLive
<1>8. NoStaleWaker'
  BY <1>1, <1>3 DEF TaskInv, NoStaleWaker, Pending, AwaitedLinks, InLinks
<1>9. NoLostWakeup'
  <2>1. ASSUME NEW q \in Party, Pending(q)', ~InReadyQueue(q)'
        PROVE  /\ ReadySenders(q, awaiting[q].senders)' = {}
               /\ AwaitedLinks(q)' \subseteq parked'
    <3>1. q # p /\ Pending(q) /\ ~InReadyQueue(q)
      BY <1>1, <1>2, <1>3, <2>1
    <3>. QED  BY <1>1, <1>3, <3>1 DEF TaskInv, NoLostWakeup, ReadySenders
  <2>. QED  BY <2>1 DEF NoLostWakeup
<1>. QED  BY <1>4, <1>5, <1>6, <1>7, <1>8, <1>9 DEF TaskInv

LEMMA FinishStep ==
  ASSUME TypeOK, TaskInv, NEW p \in Party, Finish(p)
  PROVE  TaskInv'
<1>1. /\ current = p /\ current' = NoParty
      /\ finished' = finished \cup {p}
      /\ UNCHANGED <<msg_queues, parked, ready_queue, awaiting>>
  BY DEF Finish, switchboardVars
<1>2. ~Pending(p) /\ ~InReadyQueue(p)
  BY <1>1 DEF TaskInv, PolledTaskRuns, ReadyTasksLive
<1>3. /\ \A q \in Party : Pending(q)' <=> Pending(q)
      /\ \A q \in Party : AwaitedLinks(q)' = AwaitedLinks(q)
      /\ \A q \in Party : InReadyQueue(q)' <=> InReadyQueue(q)
      /\ \A q \in Party : Live(q)' <=> Live(q) /\ q # p
  BY <1>1 DEF Pending, AwaitedLinks, InLinks, InReadyQueue, Live
<1>4. FuturesWellFormed' /\ EndedTasksIdle' /\ PolledTaskRuns'
  BY <1>1, <1>2, <1>3, TaskTypes
  DEF TaskInv, FuturesWellFormed, WellFormed, EndedTasksIdle, PolledTaskRuns, Pending
<1>5. UnstartedReady'
  BY <1>1, <1>3 DEF TaskInv, UnstartedReady
<1>6. WakeConsumesWaker'
  BY <1>1, <1>3 DEF TaskInv, WakeConsumesWaker, FromAny
<1>7. ReadyTasksLive'
  BY <1>1, <1>2, <1>3, TaskTypes DEF TaskInv, ReadyTasksLive
<1>8. NoStaleWaker'
  BY <1>1, <1>3 DEF TaskInv, NoStaleWaker, Pending, AwaitedLinks, InLinks
<1>9. NoLostWakeup'
  BY <1>1, <1>3 DEF TaskInv, NoLostWakeup, ReadySenders
<1>. QED  BY <1>4, <1>5, <1>6, <1>7, <1>8, <1>9 DEF TaskInv

\* A delivery takes at most one waker, and its task was waiting for that link.
LEMMA DeliverStep ==
  ASSUME TypeOK, TaskInv, NEW e \in events, IsIdle, DeliverNext(e), ready_queue' = Wake(e),
         UNCHANGED <<current, finished, awaiting>>
  PROVE  TaskInv'
<1>. DEFINE r == e.link[2]
<1>1. /\ e.link \in Link /\ r \in Party
      /\ current = NoParty /\ ready_queue = <<>>
      /\ NoParty \notin Party
  BY TaskTypes DEF TypeOK, ScheduledEvent, IsIdle
<1>2. /\ parked' = parked \ {e.link}
      /\ \A l \in Link : l # e.link => msg_queues'[l] = msg_queues[l]
  BY <1>1 DEF DeliverNext, TypeOK
<1>3. \A q \in Party : ~InReadyQueue(q)
  BY <1>1 DEF InReadyQueue
<1>4. /\ \A q \in Party : Pending(q)' <=> Pending(q)
      /\ \A q \in Party : AwaitedLinks(q)' = AwaitedLinks(q)
      /\ \A q \in Party : FromAny(awaiting[q])' <=> FromAny(awaiting[q])
      /\ \A q \in Party : Live(q)' <=> Live(q)
  BY DEF Pending, AwaitedLinks, InLinks, FromAny, Live
<1>5. \A q \in Party : \A l \in AwaitedLinks(q) : l \in Link /\ l[2] = q
  BY TaskTypes
<1>6. NoDuplicates(ready_queue')
  <2>1. ready_queue' = <<>> \/ ready_queue' = <<r>>
    BY <1>1 DEF Wake
  <2>. QED  BY <2>1 DEF NoDuplicates
<1>7. ASSUME NEW q \in Party
      PROVE  InReadyQueue(q)' <=> e.link \in parked /\ q = r
  <2>1. CASE e.link \in parked
    <3>1. ready_queue' = <<r>>
      BY <1>1, <2>1 DEF Wake
    <3>. QED  BY <2>1, <3>1 DEF InReadyQueue
  <2>2. CASE e.link \notin parked
    <3>1. ready_queue' = <<>>
      BY <1>1, <2>2 DEF Wake
    <3>. QED  BY <2>2, <3>1 DEF InReadyQueue
  <2>. QED  BY <2>1, <2>2
<1>8. e.link \in parked => Pending(r) /\ e.link \in AwaitedLinks(r) /\ Live(r)
  BY <1>1 DEF TaskInv, NoStaleWaker, EndedTasksIdle, Live
<1>9. FuturesWellFormed' /\ EndedTasksIdle' /\ PolledTaskRuns'
  BY <1>1, <1>4 DEF TaskInv, FuturesWellFormed, WellFormed, EndedTasksIdle, PolledTaskRuns,
                    Pending
<1>10. UnstartedReady'
  BY <1>1, <1>3, <1>4 DEF TaskInv, UnstartedReady
<1>11. WakeConsumesWaker'
  <2>1. ASSUME NEW q \in Party, Pending(q)', InReadyQueue(q)', ~FromAny(awaiting[q])'
        PROVE  AwaitedLinks(q)' \cap parked' = {}
    <3>1. q = r /\ e.link \in AwaitedLinks(r)
      BY <1>7, <1>8, <2>1
    <3>2. Pending(r) /\ ~FromAny(awaiting[r])
      BY <1>4, <2>1, <3>1
    <3>3. \E s \in Party : awaiting[r].senders = {s}
      <4>1. awaiting[r] \in Future /\ WellFormed(awaiting[r])
        BY <1>1 DEF TypeOK, TaskInv, FuturesWellFormed
      <4>. QED  BY <3>2, <4>1 DEF Future, WellFormed, Pending, FromAny
    <3>4. AwaitedLinks(r) = {e.link}
      BY <3>1, <3>3 DEF AwaitedLinks, InLinks
    <3>. QED  BY <1>2, <1>4, <3>1, <3>4
  <2>. QED  BY <2>1 DEF WakeConsumesWaker
<1>12. ReadyTasksLive'
  <2>1. ASSUME NEW q \in Party, InReadyQueue(q)'
        PROVE  Live(q)' /\ current' # q
    BY <1>1, <1>4, <1>7, <1>8, <2>1
  <2>. QED  BY <1>6, <2>1 DEF NoDuplicates, ReadyTasksLive
<1>13. NoStaleWaker'
  <2>1. \A l \in Link : l[2] \in Party
    BY TaskTypes
  <2>2. parked \subseteq Link
    BY DEF TypeOK
  <2>. QED  BY <1>2, <1>4, <2>1, <2>2 DEF TaskInv, NoStaleWaker
<1>14. NoLostWakeup'
  <2>. SUFFICES ASSUME NEW q \in Party, Pending(q)', ~InReadyQueue(q)'
                PROVE  /\ ReadySenders(q, awaiting[q].senders)' = {}
                       /\ AwaitedLinks(q)' \subseteq parked'
    BY DEF NoLostWakeup
  <2>1. ReadySenders(q, awaiting[q].senders) = {} /\ AwaitedLinks(q) \subseteq parked
    BY <1>3, <1>4 DEF TaskInv, NoLostWakeup
  <2>2. e.link \notin AwaitedLinks(q)
    BY <1>5, <1>7, <2>1
  <2>3. AwaitedLinks(q)' \subseteq parked'
    BY <1>2, <1>4, <2>1, <2>2
  <2>4. ASSUME NEW s \in awaiting[q].senders
        PROVE  msg_queues'[<<s, q>>] = <<>>
    <3>1. <<s, q>> \in AwaitedLinks(q)
      BY DEF AwaitedLinks, InLinks
    <3>2. <<s, q>> \in Link /\ <<s, q>> # e.link
      BY <1>5, <2>2, <3>1
    <3>3. msg_queues[<<s, q>>] = <<>>
      BY <2>1 DEF ReadySenders
    <3>. QED  BY <1>2, <3>2, <3>3
  <2>. QED  BY <2>3, <2>4 DEF ReadySenders
<1>. QED
  BY <1>9, <1>10, <1>11, <1>12, <1>13, <1>14 DEF TaskInv

LEMMA TaskStep == TypeOK /\ TypeOK' /\ TaskInv /\ [Next]_vars => TaskInv'
<1>. SUFFICES ASSUME TypeOK, TypeOK', TaskInv, [Next]_vars PROVE TaskInv'
  OBVIOUS
<1>1. ASSUME NEW p \in Party, NEW to \in Party, NEW delay \in Delays, Send(p, to, delay)
      PROVE  TaskInv'
  <2>1. UNCHANGED <<msg_queues, parked, ready_queue, current, finished, awaiting>>
    BY <1>1 DEF Send, PushPacket
  <2>. QED  BY <2>1, TaskFrame
<1>2. ASSUME NEW p \in Party, NEW s \in Party, RecvFrom(p, s)
      PROVE  TaskInv'
  <2>1. /\ current = p /\ Poll(p, Recv(s))
        /\ UNCHANGED <<ready_queue, finished>>
    BY <1>2 DEF RecvFrom, Operates, ReceiveFrame
  <2>2. /\ Recv(s) \in Future
        /\ WellFormed(Recv(s))
        /\ Recv(s).kind # "None"
    BY DEF Recv, Future, WellFormed
  <2>. QED  BY <2>1, <2>2, FirstPoll, PollStep
<1>3. ASSUME NEW p \in Party, RecvFromAny(p)
      PROVE  TaskInv'
  <2>1. /\ current = p /\ Poll(p, RecvAny)
        /\ UNCHANGED <<ready_queue, finished>>
    BY <1>3 DEF RecvFromAny, Operates, ReceiveFrame
  <2>2. /\ RecvAny \in Future
        /\ WellFormed(RecvAny)
        /\ RecvAny.kind # "None"
    BY DEF RecvAny, Future, WellFormed
  <2>. QED  BY <2>1, <2>2, FirstPoll, PollStep
<1>4. ASSUME NEW p \in Party, NEW s \in Party, NEW timeout \in Timeouts,
             RecvFromWithTimeout(p, s, timeout)
      PROVE  TaskInv'
  <2>1. /\ current = p /\ Poll(p, RecvTimeout(p, s, timeout))
        /\ UNCHANGED <<ready_queue, finished>>
    BY <1>4 DEF RecvFromWithTimeout, Operates, ReceiveFrame
  <2>2. RecvTimeout(p, s, timeout) \in Future
    BY FutureTypes
  <2>3. WellFormed(RecvTimeout(p, s, timeout)) /\ RecvTimeout(p, s, timeout).kind # "None"
    BY DEF RecvTimeout, WellFormed
  <2>. QED  BY <2>1, <2>2, <2>3, FirstPoll, PollStep
<1>5. ASSUME NEW p \in Party, NEW timeout \in Timeouts, RecvAnyWithTimeout(p, timeout)
      PROVE  TaskInv'
  <2>1. /\ current = p /\ Poll(p, RecvAnyTimeout(p, timeout))
        /\ UNCHANGED <<ready_queue, finished>>
    BY <1>5 DEF RecvAnyWithTimeout, Operates, ReceiveFrame
  <2>2. RecvAnyTimeout(p, timeout) \in Future
    BY FutureTypes
  <2>3. WellFormed(RecvAnyTimeout(p, timeout)) /\ RecvAnyTimeout(p, timeout).kind # "None"
    BY DEF RecvAnyTimeout, WellFormed
  <2>. QED  BY <2>1, <2>2, <2>3, FirstPoll, PollStep
<1>6. ASSUME NEW p \in Party, Finish(p)
      PROVE  TaskInv'
  BY <1>6, FinishStep
<1>7. ASSUME NEW p \in Party, StartTask(p)
      PROVE  TaskInv'
  BY <1>7, StartStep
<1>8. ASSUME NEW p \in Party, ResumeTask(p)
      PROVE  TaskInv'
  BY <1>8, SecondPoll, PollStep
<1>9. ASSUME NEW e \in events, DeliverPacket(e) \/ FireTimer(e)
      PROVE  TaskInv'
  <2>1. /\ IsIdle /\ DeliverNext(e) /\ ready_queue' = Wake(e)
        /\ UNCHANGED <<current, finished, awaiting>>
    BY <1>9 DEF DeliverPacket, FireTimer
  <2>. QED  BY <2>1, DeliverStep
<1>10. ASSUME (\E p \in Party : Fail(p)) \/ Deadlock \/ Ended \/ UNCHANGED vars
       PROVE  TaskInv'
  <2>1. UNCHANGED <<msg_queues, parked, ready_queue, current, finished, awaiting>>
    BY <1>10 DEF Fail, Deadlock, Ended, vars, switchboardVars
  <2>. QED  BY <2>1, TaskFrame
<1>. QED
  BY <1>1, <1>2, <1>3, <1>4, <1>5, <1>6, <1>7, <1>8, <1>9, <1>10
  DEF Next, ProtocolStep, ExecutorStep

LEMMA TaskInvariant == Spec => []TaskInv
BY TaskInit, TaskStep, TypeCorrect, PTL DEF Spec

-----------------------------------------------------------------------------
\* No waker outlives the receive that parked it, so no task is woken for a receive
\* it has left: try_recv_any's unparking covers every link that park_any parks.
THEOREM WakersFresh == Spec => []NoStaleWaker
<1>1. TaskInv => NoStaleWaker
  BY DEF TaskInv
<1>. QED  BY <1>1, TaskInvariant, PTL

\* No wake-up is lost: a suspended task with a packet queued on a link it accepts is
\* in the ready queue, whatever the order of deliveries, timers and polls.
THEOREM WakeupsKept == Spec => []NoLostWakeup
<1>1. TaskInv => NoLostWakeup
  BY DEF TaskInv
<1>. QED  BY <1>1, TaskInvariant, PTL

\* The executor pops only tasks that have not ended, and each of them once.
THEOREM QueueSound == Spec => []ReadyTasksLive
<1>1. TaskInv => ReadyTasksLive
  BY DEF TaskInv
<1>. QED  BY <1>1, TaskInvariant, PTL

-----------------------------------------------------------------------------
(***************************************************************************)
(* Virtual time: proofs of VirtualTimeMonotone, TimerArmed,                *)
(* ResumesOnArrival and DeadlockGenuine.                                   *)
(*                                                                         *)
(* Time is monotone because only the task at the latest instant runs.  A   *)
(* timed receive cannot sleep through its deadline because its own timer   *)
(* stays scheduled until it has woken it at the deadline; it arrives in    *)
(* time because no event is in the past of a clock.  A deadlock is genuine *)
(* because, without events, no packet is in flight and no timer is armed.  *)
(***************************************************************************)
\* The timer of p's receive is scheduled, or has woken p at the deadline.
TimerScheduled(p, fut) ==
  \/ \E e \in events :
       e.kind = "Timer" /\ e.link \in InLinks(p, fut.senders) /\ e.arrival = fut.deadline
  \/ InReadyQueue(p) /\ clocks[p] = fut.deadline

TimersScheduled ==
  \A p \in Party : Pending(p) /\ Timed(awaiting[p]) => TimerScheduled(p, awaiting[p])

\* A run in which everybody has ended is over.
RunningUnfinished == status = "running" => finished # Party

ClockInv ==
  /\ VirtualTimeMonotone
  /\ TimersScheduled
  /\ ResumesOnArrival
  /\ RunningUnfinished
  /\ DeadlockGenuine

LEMMA ClockInit == Init => ClockInv
<1>. SUFFICES ASSUME Init PROVE ClockInv
  OBVIOUS
<1>1. /\ events = {}
      /\ \A p \in Party : clocks[p] = 0 /\ awaiting[p] = NoFuture
      /\ finished = {} /\ status = "running"
  BY DEF Init, SwitchboardInit
<1>2. \A p \in Party : ~Pending(p)
  <2>1. NoFuture.kind = "None"
    BY DEF NoFuture
  <2>. QED  BY <1>1, <2>1 DEF Pending
<1>3. finished # Party
  BY <1>1, FirstParty
<1>. QED
  BY <1>1, <1>2, <1>3
  DEF ClockInv, VirtualTimeMonotone, TimersScheduled, ResumesOnArrival, RunningUnfinished,
      DeadlockGenuine

-----------------------------------------------------------------------------
(***************************************************************************)
(* What a step does to the tasks and to time.                              *)
(***************************************************************************)
\* A receive polled for the first time arms its timer, if it is timed; one polled
\* again does not.
PollEvents(p, fut) ==
  \/ UNCHANGED events /\ (Timed(fut) => Pending(p) /\ awaiting[p] = fut)
  \/ /\ Timed(fut)
     /\ clocks[p] <= fut.deadline
     /\ \E l \in InLinks(p, fut.senders) : ArmTimer(l, fut.deadline)

TimedPoll(p, fut) ==
  /\ PollsTask(p, fut)
  /\ PollEvents(p, fut)
  /\ Runnable(p)
  /\ status = "running"
  /\ UNCHANGED <<clocks, status>>

\* A step that moves no clock, and lets no further task run.
Standstill ==
  /\ UNCHANGED <<clocks, awaiting, msg_queues, events>>
  /\ \A p \in Party : Runnable(p)' => Runnable(p)
  /\ \A p \in Party : Pending(p) => (InReadyQueue(p)' <=> InReadyQueue(p))
  /\ RunningUnfinished => RunningUnfinished'
  /\ status' = "deadlocked" => UNCHANGED <<status, finished, sent, received>>

DeliversEvent(e) ==
  /\ IsIdle
  /\ DeliverNext(e)
  /\ ready_queue' = Wake(e)
  /\ UNCHANGED <<current, finished, awaiting, status>>

LEMMA ClockCases ==
  ASSUME TypeOK, TaskInv, [Next]_vars
  PROVE  \/ \E p \in Party : \E fut \in Future : TimedPoll(p, fut)
         \/ \E p \in Party, to \in Party, delay \in Delays : Send(p, to, delay)
         \/ \E e \in events : DeliversEvent(e)
         \/ Deadlock
         \/ Standstill
<1>1. ASSUME NEW p \in Party, NEW s \in Party, RecvFrom(p, s)
      PROVE  TimedPoll(p, Recv(s)) /\ Recv(s) \in Future
  <2>1. /\ current = p /\ Poll(p, Recv(s))
        /\ status = "running"
        /\ UNCHANGED <<ready_queue, finished, events, clocks, status>>
    BY <1>1 DEF RecvFrom, Operates, ReceiveFrame
  <2>2. /\ Recv(s) \in Future
        /\ WellFormed(Recv(s))
        /\ Recv(s).kind # "None"
        /\ ~Timed(Recv(s))
    BY DEF Recv, Future, WellFormed, Timed
  <2>3. PollsTask(p, Recv(s))
    BY <2>1, <2>2, FirstPoll
  <2>4. Runnable(p)
    BY <2>1 DEF TaskInv, PolledTaskRuns, Runnable
  <2>. QED  BY <2>1, <2>2, <2>3, <2>4 DEF TimedPoll, PollEvents
<1>2. ASSUME NEW p \in Party, RecvFromAny(p)
      PROVE  TimedPoll(p, RecvAny) /\ RecvAny \in Future
  <2>1. /\ current = p /\ Poll(p, RecvAny)
        /\ status = "running"
        /\ UNCHANGED <<ready_queue, finished, events, clocks, status>>
    BY <1>2 DEF RecvFromAny, Operates, ReceiveFrame
  <2>2. /\ RecvAny \in Future
        /\ WellFormed(RecvAny)
        /\ RecvAny.kind # "None"
        /\ ~Timed(RecvAny)
    BY DEF RecvAny, Future, WellFormed, Timed
  <2>3. PollsTask(p, RecvAny)
    BY <2>1, <2>2, FirstPoll
  <2>4. Runnable(p)
    BY <2>1 DEF TaskInv, PolledTaskRuns, Runnable
  <2>. QED  BY <2>1, <2>2, <2>3, <2>4 DEF TimedPoll, PollEvents
<1>3. ASSUME NEW p \in Party, NEW s \in Party, NEW timeout \in Timeouts,
             RecvFromWithTimeout(p, s, timeout)
      PROVE  \E fut \in Future : TimedPoll(p, fut)
  <2>. DEFINE fut == RecvTimeout(p, s, timeout)
  <2>1. /\ current = p /\ Poll(p, fut)
        /\ ArmTimer(<<s, p>>, clocks[p] + timeout)
        /\ status = "running"
        /\ UNCHANGED <<ready_queue, finished, clocks, status>>
    BY <1>3 DEF RecvFromWithTimeout, Operates, ReceiveFrame
  <2>2. fut \in Future
    BY FutureTypes
  <2>3. /\ WellFormed(fut) /\ fut.kind # "None" /\ Timed(fut)
        /\ fut.deadline = clocks[p] + timeout
        /\ <<s, p>> \in InLinks(p, fut.senders)
    BY DEF RecvTimeout, WellFormed, Timed, InLinks
  <2>4. PollsTask(p, fut)
    BY <2>1, <2>2, <2>3, FirstPoll
  <2>5. Runnable(p)
    BY <2>1 DEF TaskInv, PolledTaskRuns, Runnable
  <2>6. clocks[p] <= fut.deadline
    BY <2>3, SimulatorAssumption DEF TypeOK
  <2>7. PollEvents(p, fut)
    BY <2>1, <2>3, <2>6 DEF PollEvents
  <2>8. TimedPoll(p, fut)
    BY <2>1, <2>4, <2>5, <2>7 DEF TimedPoll
  <2>. QED  BY <2>2, <2>8
<1>4. ASSUME NEW p \in Party, NEW timeout \in Timeouts, RecvAnyWithTimeout(p, timeout)
      PROVE  \E fut \in Future : TimedPoll(p, fut)
  <2>. DEFINE fut == RecvAnyTimeout(p, timeout)
  <2>1. /\ current = p /\ Poll(p, fut)
        /\ ArmTimer(<<PartyOrder[1], p>>, clocks[p] + timeout)
        /\ status = "running"
        /\ UNCHANGED <<ready_queue, finished, clocks, status>>
    BY <1>4 DEF RecvAnyWithTimeout, Operates, ReceiveFrame
  <2>2. fut \in Future
    BY FutureTypes
  <2>3. /\ WellFormed(fut) /\ fut.kind # "None" /\ Timed(fut)
        /\ fut.deadline = clocks[p] + timeout
        /\ <<PartyOrder[1], p>> \in InLinks(p, fut.senders)
    BY FirstParty DEF RecvAnyTimeout, WellFormed, Timed, InLinks
  <2>4. PollsTask(p, fut)
    BY <2>1, <2>2, <2>3, FirstPoll
  <2>5. Runnable(p)
    BY <2>1 DEF TaskInv, PolledTaskRuns, Runnable
  <2>6. clocks[p] <= fut.deadline
    BY <2>3, SimulatorAssumption DEF TypeOK
  <2>7. PollEvents(p, fut)
    BY <2>1, <2>3, <2>6 DEF PollEvents
  <2>8. TimedPoll(p, fut)
    BY <2>1, <2>4, <2>5, <2>7 DEF TimedPoll
  <2>. QED  BY <2>2, <2>8
<1>5. ASSUME NEW p \in Party, ResumeTask(p)
      PROVE  \E fut \in Future : TimedPoll(p, fut)
  <2>1. awaiting[p] \in Future /\ PollsTask(p, awaiting[p])
    BY <1>5, SecondPoll
  <2>2. /\ PopsReady(p) /\ Pending(p) /\ status = "running"
        /\ UNCHANGED <<events, clocks, status>>
    BY <1>5 DEF ResumeTask, PopsReady
  <2>3. Runnable(p)
    BY <2>2, PopReady DEF TaskInv, Runnable, PopsReady
  <2>4. PollEvents(p, awaiting[p])
    BY <2>2 DEF PollEvents
  <2>5. TimedPoll(p, awaiting[p])
    BY <2>1, <2>2, <2>3, <2>4 DEF TimedPoll
  <2>. QED  BY <2>1, <2>5
<1>6. ASSUME NEW p \in Party, StartTask(p)
      PROVE  Standstill
  <2>1. /\ PopsReady(p) /\ Live(p) /\ ~Pending(p) /\ current' = p
        /\ UNCHANGED <<clocks, awaiting, msg_queues, events, status, finished, sent, received>>
    BY <1>6 DEF StartTask, PopsReady, switchboardVars
  <2>2. /\ InReadyQueue(p)
        /\ ~InReadyQueue(p)'
        /\ \A q \in Party \ {p} : InReadyQueue(q)' <=> InReadyQueue(q)
    BY <2>1, PopReady DEF TaskInv
  <2>3. \A q \in Party : Runnable(q)' => Runnable(q)
    BY <2>1, <2>2 DEF Runnable, Live
  <2>. QED  BY <2>1, <2>2, <2>3 DEF Standstill, RunningUnfinished
<1>7. ASSUME NEW p \in Party, Finish(p)
      PROVE  Standstill
  <2>1. /\ current = p /\ current' = NoParty /\ status = "running"
        /\ finished' = finished \cup {p}
        /\ status' = IF finished' = Party THEN "completed" ELSE status
        /\ UNCHANGED <<clocks, awaiting, msg_queues, events, ready_queue>>
    BY <1>7 DEF Finish, switchboardVars
  <2>2. \A q \in Party : Runnable(q)' => Runnable(q)
    BY <2>1, TaskTypes DEF Runnable, Live, InReadyQueue
  <2>. QED  BY <2>1, <2>2 DEF Standstill, RunningUnfinished, InReadyQueue
<1>8. ASSUME (\E p \in Party : Fail(p)) \/ Ended \/ UNCHANGED vars
      PROVE  Standstill
  <2>1. UNCHANGED <<clocks, awaiting, msg_queues, events, ready_queue, current, finished, sent,
                    received>>
    BY <1>8 DEF Fail, Ended, vars, switchboardVars
  <2>2. status' = status \/ status' = "failed"
    BY <1>8 DEF Fail, Ended, vars
  <2>. QED  BY <2>1, <2>2 DEF Standstill, RunningUnfinished, Runnable, Live, InReadyQueue
<1>9. ASSUME NEW e \in events, DeliverPacket(e) \/ FireTimer(e)
      PROVE  DeliversEvent(e)
  BY <1>9 DEF DeliverPacket, FireTimer, DeliversEvent
<1>. QED
  BY <1>1, <1>2, <1>3, <1>4, <1>5, <1>6, <1>7, <1>8, <1>9 DEF Next, ProtocolStep, ExecutorStep

-----------------------------------------------------------------------------
(***************************************************************************)
(* ClockInv is inductive, given TypeOK, TaskInv and LinkInv.               *)
(***************************************************************************)
\* A task whose poll suspends it has not reached its deadline.
LEMMA SuspendedInTime ==
  ASSUME NEW p \in Party, NEW fut \in Future, Poll(p, fut), current' # p
  PROVE  ~Expired(p, fut)
BY DEF Poll, PollPacket, PollTimeout, PollPending

LEMMA PollClock ==
  ASSUME TypeOK, TypeOK', TaskInv, ClockInv,
         NEW p \in Party, NEW fut \in Future, TimedPoll(p, fut)
  PROVE  ClockInv'
<1>1. /\ PollsTask(p, fut) /\ Poll(p, fut) /\ PollEvents(p, fut) /\ Runnable(p)
      /\ status = "running" /\ UNCHANGED <<clocks, status, finished>>
  BY DEF TimedPoll, PollsTask
<1>2. Suspended(p, fut) \/ Resolved(p)
  BY <1>1, PollSelf DEF PollsTask
<1>3. /\ \A q \in Party \ {p} : awaiting'[q] = awaiting[q]
      /\ \A l \in Link : l[2] # p => msg_queues'[l] = msg_queues[l]
  BY <1>1, PollOthers
<1>4. \A q \in Party \ {p} : InReadyQueue(q)' <=> InReadyQueue(q)
  BY <1>1 DEF PollsTask
<1>5. VirtualTimeMonotone'
  <2>1. ASSUME NEW e \in events', NEW q \in Party
        PROVE  clocks[q] <= e.arrival
    <3>1. CASE e \in events
      BY <3>1 DEF ClockInv, VirtualTimeMonotone
    <3>2. CASE e \notin events
      <4>1. clocks[p] <= fut.deadline /\ e.arrival = fut.deadline
        BY <1>1, <2>1, <3>2 DEF PollEvents, ArmTimer, ScheduleTimer
      <4>2. clocks[q] <= clocks[p]
        BY <1>1 DEF ClockInv, VirtualTimeMonotone
      <4>3. clocks[p] \in Nat /\ clocks[q] \in Nat /\ fut.deadline \in Nat
        BY DEF TypeOK, Future
      <4>. QED  BY <4>1, <4>2, <4>3
    <3>. QED  BY <3>1, <3>2
  <2>2. ASSUME NEW q \in Party, Runnable(q)'
        PROVE  Runnable(q)
    <3>1. CASE q = p
      BY <1>1, <3>1
    <3>2. CASE q # p
      <4>1. current' # q
        BY <1>2, <3>2, TaskTypes DEF Suspended, Resolved
      <4>. QED  BY <1>1, <1>4, <2>2, <3>2, <4>1 DEF Runnable, Live
    <3>. QED  BY <3>1, <3>2
  <2>3. \A q, u \in Party : Runnable(q)' => clocks[u] <= clocks[q]
    BY <2>2 DEF ClockInv, VirtualTimeMonotone
  <2>. QED  BY <1>1, <2>1, <2>3 DEF VirtualTimeMonotone
<1>6. TimersScheduled'
  <2>1. events \subseteq events'
    BY <1>1 DEF PollEvents, ArmTimer, ScheduleTimer
  <2>2. ASSUME NEW q \in Party \ {p}, Pending(q)', Timed(awaiting[q])'
        PROVE  TimerScheduled(q, awaiting[q])'
    <3>1. Pending(q) /\ Timed(awaiting[q])
      BY <1>3, <2>2 DEF Pending, Timed
    <3>2. TimerScheduled(q, awaiting[q])
      BY <3>1 DEF ClockInv, TimersScheduled
    <3>. QED  BY <1>1, <1>3, <1>4, <2>1, <3>2 DEF TimerScheduled, InLinks
  <2>3. ASSUME Pending(p)', Timed(awaiting[p])'
        PROVE  TimerScheduled(p, awaiting[p])'
    <3>1. awaiting'[p] = fut /\ current' # p
      BY <1>2, <2>3, TaskTypes DEF Suspended, Resolved, Pending
    <3>2. Timed(fut) /\ ~Expired(p, fut)
      BY <1>1, <2>3, <3>1, SuspendedInTime DEF Timed
    <3>3. clocks[p] # fut.deadline
      <4>1. clocks[p] \in Nat /\ fut.deadline \in Nat
        BY DEF TypeOK, Future
      <4>. QED  BY <3>2, <4>1 DEF Expired
    <3>4. \E e \in events' :
            e.kind = "Timer" /\ e.link \in InLinks(p, fut.senders) /\ e.arrival = fut.deadline
      <4>1. CASE Pending(p) /\ awaiting[p] = fut
        BY <2>1, <3>2, <3>3, <4>1 DEF ClockInv, TimersScheduled, TimerScheduled
      <4>2. CASE \E l \in InLinks(p, fut.senders) : ArmTimer(l, fut.deadline)
        <5>. DEFINE Timer(l) ==
               [arrival |-> fut.deadline, seq |-> seq, link |-> l, kind |-> "Timer", number |-> 0]
        <5>1. PICK l \in InLinks(p, fut.senders) : ArmTimer(l, fut.deadline)
          BY <4>2
        <5>2. Timer(l) \in events'
          BY <5>1 DEF ArmTimer, ScheduleTimer
        <5>3. Timer(l).kind = "Timer" /\ Timer(l).link = l /\ Timer(l).arrival = fut.deadline
          OBVIOUS
        <5>. QED  BY <5>2, <5>3
      <4>. QED  BY <1>1, <3>2, <4>1, <4>2 DEF PollEvents
    <3>. QED  BY <3>1, <3>4 DEF TimerScheduled, InLinks
  <2>. QED  BY <2>2, <2>3 DEF TimersScheduled
<1>7. ResumesOnArrival'
  <2>1. ASSUME NEW q \in Party \ {p}, Pending(q)', NEW l \in AwaitedLinks(q)',
               NEW i \in 1..Len(msg_queues'[l])
        PROVE  msg_queues'[l][i].arrival = clocks[q]
    <3>1. Pending(q) /\ l \in AwaitedLinks(q)
      BY <1>3, <2>1 DEF Pending, AwaitedLinks, InLinks
    <3>2. l \in Link /\ l[2] # p
      BY <3>1, TaskTypes
    <3>3. msg_queues'[l] = msg_queues[l]
      BY <1>3, <3>2
    <3>. QED  BY <3>1, <3>3 DEF ClockInv, ResumesOnArrival
  <2>2. ASSUME Pending(p)', NEW l \in AwaitedLinks(p)'
        PROVE  msg_queues'[l] = <<>>
    <3>1. Suspended(p, fut)
      BY <1>2, <2>2, TaskTypes DEF Resolved, Pending
    <3>2. PICK s \in fut.senders : l = <<s, p>>
      BY <2>2, <3>1 DEF Suspended, AwaitedLinks, InLinks
    <3>. QED  BY <3>1, <3>2 DEF Suspended
  <2>. QED  BY <1>1, <2>1, <2>2 DEF ResumesOnArrival
<1>8. RunningUnfinished' /\ DeadlockGenuine'
  BY <1>1 DEF ClockInv, RunningUnfinished, DeadlockGenuine
<1>. QED  BY <1>5, <1>6, <1>7, <1>8 DEF ClockInv

LEMMA SendClock ==
  ASSUME TypeOK, TaskInv, ClockInv,
         NEW p \in Party, NEW to \in Party, NEW delay \in Delays, Send(p, to, delay)
  PROVE  ClockInv'
<1>1. /\ current = p /\ status = "running"
      /\ UNCHANGED <<clocks, msg_queues, ready_queue, current, finished, awaiting, status>>
      /\ PushPacket(<<p, to>>, delay)
  BY DEF Send, Operates, PushPacket
<1>2. Runnable(p)
  BY <1>1 DEF TaskInv, PolledTaskRuns, Runnable
<1>3. VirtualTimeMonotone'
  <2>1. ASSUME NEW e \in events', NEW q \in Party
        PROVE  clocks[q] <= e.arrival
    <3>1. CASE e \in events
      BY <3>1 DEF ClockInv, VirtualTimeMonotone
    <3>2. CASE e \notin events
      <4>1. e.arrival = ArrivalTime(<<p, to>>, delay)
        BY <1>1, <3>2 DEF PushPacket
      <4>2. /\ clocks[p] \in Nat /\ clocks[q] \in Nat /\ delay \in Nat
            /\ last_arrivals[<<p, to>>] \in Nat
        BY SimulatorAssumption DEF TypeOK, Link
      <4>3. clocks[p] <= e.arrival
        BY <4>1, <4>2 DEF ArrivalTime, Later
      <4>4. clocks[q] <= clocks[p]
        BY <1>2 DEF ClockInv, VirtualTimeMonotone
      <4>5. e.arrival \in Nat
        BY <4>1, <4>2 DEF ArrivalTime, Later
      <4>. QED  BY <4>2, <4>3, <4>4, <4>5
    <3>. QED  BY <3>1, <3>2
  <2>2. \A q \in Party : Runnable(q)' => Runnable(q)
    BY <1>1 DEF Runnable, Live, InReadyQueue
  <2>. QED  BY <1>1, <2>1, <2>2 DEF ClockInv, VirtualTimeMonotone
<1>4. TimersScheduled'
  <2>1. events \subseteq events'
    BY <1>1 DEF PushPacket
  <2>. QED
    BY <1>1, <2>1
    DEF ClockInv, TimersScheduled, TimerScheduled, Pending, Timed, InLinks, InReadyQueue
<1>5. ResumesOnArrival'
  BY <1>1 DEF ClockInv, ResumesOnArrival, Pending, AwaitedLinks, InLinks
<1>6. RunningUnfinished' /\ DeadlockGenuine'
  BY <1>1 DEF ClockInv, RunningUnfinished, DeadlockGenuine
<1>. QED  BY <1>3, <1>4, <1>5, <1>6 DEF ClockInv

LEMMA DeliverClock ==
  ASSUME TypeOK, TypeOK', TaskInv, TaskInv', ClockInv, NEW e \in events, DeliversEvent(e)
  PROVE  ClockInv'
<1>. DEFINE r == e.link[2]
<1>1. /\ e.link \in Link /\ r \in Party /\ e.arrival \in Nat
      /\ current = NoParty /\ ready_queue = <<>> /\ status = "running"
      /\ NoParty \notin Party
  BY TaskTypes DEF TypeOK, ScheduledEvent, DeliversEvent, IsIdle
<1>2. /\ events' = events \ {e} /\ ready_queue' = Wake(e)
      /\ \A l \in Link : l # e.link => msg_queues'[l] = msg_queues[l]
      /\ UNCHANGED <<current, finished, awaiting, status>>
  BY <1>1 DEF DeliversEvent, DeliverNext, EventsAfter, TypeOK
<1>3. \A p \in Party : ~InReadyQueue(p)
  BY <1>1 DEF InReadyQueue
<1>4. \A f \in events : e.arrival <= f.arrival
  <2>1. ASSUME NEW f \in events PROVE e.arrival <= f.arrival
    <3>1. f = e \/ Before(e, f)
      BY DEF DeliversEvent, DeliverNext, IsNext
    <3>2. f.arrival \in Nat
      BY DEF TypeOK, ScheduledEvent
    <3>. QED  BY <1>1, <3>1, <3>2 DEF Before
  <2>. QED  BY <2>1
<1>5. /\ clocks'[r] = e.arrival
      /\ \A p \in Party \ {r} : clocks'[p] = clocks[p]
      /\ \A p \in Party : clocks[p] <= e.arrival /\ clocks'[p] <= e.arrival
  <2>1. \A p \in Party : clocks[p] <= e.arrival /\ clocks[p] \in Nat
    BY DEF ClockInv, VirtualTimeMonotone, TypeOK
  <2>2. clocks' = [clocks EXCEPT ![r] = Later(@, e.arrival)]
    BY DEF DeliversEvent, DeliverNext, ClockAfter
  <2>3. clocks'[r] = Later(clocks[r], e.arrival)
    BY <1>1, <2>2 DEF TypeOK
  <2>4. clocks'[r] = e.arrival
    BY <1>1, <2>1, <2>3 DEF Later
  <2>5. \A p \in Party \ {r} : clocks'[p] = clocks[p]
    BY <2>2 DEF TypeOK
  <2>. QED  BY <1>1, <2>1, <2>4, <2>5
<1>6. /\ \A p \in Party : Pending(p)' <=> Pending(p)
      /\ \A p \in Party : AwaitedLinks(p)' = AwaitedLinks(p)
  BY <1>2 DEF Pending, AwaitedLinks, InLinks
<1>7. ASSUME NEW p \in Party, InReadyQueue(p)'
      PROVE  p = r
  <2>1. ready_queue' = <<>> \/ ready_queue' = <<r>>
    BY <1>1, <1>2 DEF Wake
  <2>. QED  BY <1>7, <2>1 DEF InReadyQueue
<1>8. VirtualTimeMonotone'
  <2>1. ASSUME NEW f \in events', NEW p \in Party
        PROVE  clocks'[p] <= f.arrival
    <3>1. /\ f \in events /\ e.arrival <= f.arrival
          /\ f.arrival \in Nat /\ clocks'[p] \in Nat
      BY <1>2, <1>4 DEF TypeOK, ScheduledEvent
    <3>2. clocks'[p] <= e.arrival
      BY <1>5
    <3>. QED  BY <1>1, <3>1, <3>2
  <2>2. ASSUME NEW p \in Party, NEW q \in Party, Runnable(p)'
        PROVE  clocks'[q] <= clocks'[p]
    <3>1. p = r
      BY <1>1, <1>2, <1>7, <2>2 DEF Runnable
    <3>. QED  BY <1>5, <3>1
  <2>. QED  BY <2>1, <2>2 DEF VirtualTimeMonotone
<1>9. TimersScheduled'
  <2>. SUFFICES ASSUME NEW p \in Party, Pending(p)', Timed(awaiting[p])'
                PROVE  TimerScheduled(p, awaiting[p])'
    BY DEF TimersScheduled
  <2>1. Pending(p) /\ Timed(awaiting[p])
    BY <1>2, <1>6 DEF Timed
  <2>2. PICK f \in events : /\ f.kind = "Timer" /\ f.link \in AwaitedLinks(p)
                            /\ f.arrival = awaiting[p].deadline
    BY <1>3, <2>1 DEF ClockInv, TimersScheduled, TimerScheduled, AwaitedLinks
  <2>3. CASE f # e
    BY <1>2, <2>2, <2>3 DEF TimerScheduled, AwaitedLinks, InLinks
  <2>4. CASE f = e
    <3>1. e.link \in parked
      BY <1>3, <2>1, <2>2, <2>4 DEF TaskInv, NoLostWakeup
    <3>2. ready_queue' = <<r>> /\ p = r
      BY <1>1, <1>2, <2>2, <2>4, <3>1, TaskTypes DEF Wake
    <3>3. InReadyQueue(p)'
      BY <3>2 DEF InReadyQueue
    <3>4. clocks'[p] = awaiting'[p].deadline
      BY <1>2, <1>5, <2>2, <2>4, <3>2
    <3>. QED  BY <3>3, <3>4 DEF TimerScheduled
  <2>. QED  BY <2>3, <2>4
<1>10. ResumesOnArrival'
  <2>. SUFFICES ASSUME NEW p \in Party, Pending(p)', NEW l \in AwaitedLinks(p)',
                       NEW i \in 1..Len(msg_queues'[l])
                PROVE  msg_queues'[l][i].arrival = clocks'[p]
    BY DEF ResumesOnArrival
  <2>1. Pending(p) /\ l \in AwaitedLinks(p) /\ l \in Link /\ l[2] = p
    BY <1>6, TaskTypes
  <2>2. msg_queues[l] = <<>>
    BY <1>3, <2>1 DEF TaskInv, NoLostWakeup, ReadySenders, AwaitedLinks, InLinks
  <2>3. l = e.link /\ e.kind = "Delivery"
    <3>1. l = e.link
      BY <1>2, <2>1, <2>2
    <3>2. e.kind # "Delivery" => msg_queues' = msg_queues
      BY DEF DeliversEvent, DeliverNext
    <3>. QED  BY <2>2, <3>1, <3>2
  <2>4. msg_queues'[l] = Append(<<>>, [number |-> e.number, arrival |-> e.arrival])
    BY <2>1, <2>2, <2>3 DEF DeliversEvent, DeliverNext, TypeOK
  <2>5. msg_queues'[l] = <<[number |-> e.number, arrival |-> e.arrival]>>
    BY <2>4
  <2>6. i = 1 /\ msg_queues'[l][1].arrival = e.arrival
    BY <2>5
  <2>. QED  BY <1>5, <2>1, <2>3, <2>6
<1>11. RunningUnfinished' /\ DeadlockGenuine'
  BY <1>1, <1>2 DEF ClockInv, RunningUnfinished, DeadlockGenuine
<1>. QED  BY <1>8, <1>9, <1>10, <1>11 DEF ClockInv

\* Nothing is scheduled and nothing is ready: each live task is suspended in a receive
\* without a timer, and the links it awaits are drained.
LEMMA DeadlockClock ==
  ASSUME TypeOK, TaskInv, LinkInv, ClockInv, Deadlock
  PROVE  ClockInv'
<1>1. /\ current = NoParty /\ ready_queue = <<>> /\ status = "running" /\ events = {}
      /\ status' = "deadlocked"
      /\ UNCHANGED <<msg_queues, events, clocks, sent, received, ready_queue, current, finished,
                     awaiting>>
  BY DEF Deadlock, IsIdle, switchboardVars
<1>2. \A p \in Party : ~InReadyQueue(p)
  BY <1>1 DEF InReadyQueue
<1>3. ASSUME NEW p \in Party \ finished
      PROVE  /\ awaiting[p].kind \in {"Recv", "RecvAny"}
             /\ \A l \in AwaitedLinks(p) : sent[l] = received[l]
  <2>1. Pending(p)
    BY <1>1, <1>2, TaskTypes DEF TaskInv, UnstartedReady, Live
  <2>2. ~Timed(awaiting[p])
    BY <1>1, <1>2, <2>1 DEF ClockInv, TimersScheduled, TimerScheduled
  <2>3. awaiting[p].kind \in {"Recv", "RecvAny"}
    <3>1. awaiting[p] \in Future
      BY DEF TypeOK
    <3>. QED  BY <2>1, <2>2, <3>1 DEF Future, Pending, Timed
  <2>4. ASSUME NEW l \in AwaitedLinks(p)
        PROVE  sent[l] = received[l]
    <3>1. l \in Link /\ msg_queues[l] = <<>>
      BY <1>2, <2>1, TaskTypes DEF TaskInv, NoLostWakeup, ReadySenders, AwaitedLinks, InLinks
    <3>2. InFlight(l) = {}
      BY <1>1 DEF InFlight
    <3>3. Len(msg_queues[l]) = 0 /\ sent[l] \in Nat /\ received[l] \in Nat
      BY <3>1 DEF TypeOK
    <3>4. /\ received[l] <= sent[l]
          /\ \A k \in Nat : ~(received[l] < k /\ k <= sent[l])
      BY <3>1, <3>2, <3>3 DEF LinkInv, LinkOK
    <3>. QED  BY <3>3, <3>4
  <2>. QED  BY <2>3, <2>4
<1>4. VirtualTimeMonotone' /\ TimersScheduled' /\ ResumesOnArrival'
  BY <1>1
  DEF ClockInv, VirtualTimeMonotone, TimersScheduled, TimerScheduled, ResumesOnArrival, Pending,
      Timed, AwaitedLinks, InLinks, InReadyQueue, Runnable, Live
<1>5. RunningUnfinished'
  BY <1>1 DEF RunningUnfinished
<1>6. DeadlockGenuine'
  <2>1. finished # Party
    BY <1>1 DEF ClockInv, RunningUnfinished
  <2>. QED  BY <1>1, <1>3, <2>1 DEF DeadlockGenuine, AwaitedLinks, InLinks
<1>. QED  BY <1>4, <1>5, <1>6 DEF ClockInv

LEMMA StandstillClock ==
  ASSUME ClockInv, Standstill
  PROVE  ClockInv'
<1>1. VirtualTimeMonotone'
  BY DEF ClockInv, VirtualTimeMonotone, Standstill
<1>2. TimersScheduled'
  BY DEF ClockInv, TimersScheduled, TimerScheduled, Standstill, Pending, Timed, InLinks
<1>3. ResumesOnArrival'
  BY DEF ClockInv, ResumesOnArrival, Standstill, Pending, AwaitedLinks, InLinks
<1>4. RunningUnfinished' /\ DeadlockGenuine'
  BY DEF ClockInv, RunningUnfinished, DeadlockGenuine, Standstill, AwaitedLinks, InLinks
<1>. QED  BY <1>1, <1>2, <1>3, <1>4 DEF ClockInv

LEMMA ClockStep ==
  TypeOK /\ TypeOK' /\ TaskInv /\ TaskInv' /\ LinkInv /\ ClockInv /\ [Next]_vars => ClockInv'
BY ClockCases, PollClock, SendClock, DeliverClock, DeadlockClock, StandstillClock

LEMMA ClockInvariant == Spec => []ClockInv
BY ClockInit, ClockStep, TypeCorrect, TaskInvariant, LinkInvariant, PTL DEF Spec

-----------------------------------------------------------------------------
\* Virtual time never runs backwards: the clock that deliver_next sets was not ahead
\* of the event, so its `max` never takes the old value.
THEOREM TimeMonotone == Spec => []VirtualTimeMonotone
<1>1. ClockInv => VirtualTimeMonotone
  BY DEF ClockInv
<1>. QED  BY <1>1, ClockInvariant, PTL

\* No timed receive sleeps through its deadline, whatever stale timers do.
THEOREM TimersArmed == Spec => []TimerArmed
<1>1. TypeOK /\ ClockInv => TimerArmed
  <2>. SUFFICES ASSUME TypeOK, ClockInv, NEW p \in Party, Pending(p), Timed(awaiting[p])
                PROVE  /\ clocks[p] <= awaiting[p].deadline
                       /\ InReadyQueue(p)
                          \/ \E e \in events : /\ e.link \in AwaitedLinks(p)
                                               /\ e.arrival <= awaiting[p].deadline
    BY DEF TimerArmed
  <2>1. clocks[p] \in Nat /\ awaiting[p].deadline \in Nat
    BY DEF TypeOK, Future
  <2>2. TimerScheduled(p, awaiting[p])
    BY DEF ClockInv, TimersScheduled
  <2>3. CASE InReadyQueue(p) /\ clocks[p] = awaiting[p].deadline
    BY <2>1, <2>3
  <2>4. CASE \E e \in events : e.link \in AwaitedLinks(p) /\ e.arrival = awaiting[p].deadline
    BY <2>1, <2>4 DEF ClockInv, VirtualTimeMonotone
  <2>. QED  BY <2>2, <2>3, <2>4 DEF TimerScheduled, AwaitedLinks
<1>. QED  BY <1>1, TypeCorrect, ClockInvariant, PTL

\* A suspended receive finds its packet at the instant the packet arrived, whatever
\* its clock was moved by meanwhile.
THEOREM ArrivalTimely == Spec => []ResumesOnArrival
<1>1. ClockInv => ResumesOnArrival
  BY DEF ClockInv
<1>. QED  BY <1>1, ClockInvariant, PTL

\* The executor's deadlock panic is never spurious: those who are left wait, without
\* a timeout, for packets that nobody has sent.
THEOREM DeadlocksGenuine == Spec => []DeadlockGenuine
<1>1. ClockInv => DeadlockGenuine
  BY DEF ClockInv
<1>. QED  BY <1>1, ClockInvariant, PTL

=============================================================================
