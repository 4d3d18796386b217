# A verification project for scl-rs

scl-rs is a Rust toolkit for multiparty computation: field and curve arithmetic,
secret sharing, a `Network` trait with a TCP backend and a deterministic
simulator, and protocols written as `async` functions over that trait. This
directory models the parts of it whose correctness depends on order, time and
interleaving, checks the models with TLC and proves the central ones with TLAPS.
Paths below are relative to the repository.

## The system

| Component | State it keeps | Operations | What makes it hard | What makes it correct |
|---|---|---|---|---|
| Switchboard (`src/net/simulation/switchboard/mod.rs`) | queues and parked wakers per link, heap of scheduled events, clock per party, last arrival per link, sequence counter | `send`, `schedule_timer`, `deliver_next`, `try_recv*`, `park*` | size-dependent delays, ties, stale timers, stale wakers | links FIFO and lossless; virtual time monotone; no wake-up lost or left over |
| Receive futures (`switchboard/recv.rs`) | a link or list of senders, a deadline fixed at the first poll | `poll` of `Recv`, `RecvAny`, `RecvTimeout`, `RecvAnyTimeout` | re-polls after spurious wake-ups, one timer for many links | a timed receive resolves; a receive resolves at the instant its packet arrives |
| Executor (`executor.rs`) | task slots, ready queue | the loop, `wake` | duplicate or late ids, deadlock detection | ready ids are unique and live; the deadlock panic is genuine; every run ends |
| Party driver (`simulator.rs`, `network.rs`) | one task per party | `simulate`, `drive_party_to_completion`, `SimNetwork` | a protocol error panics the whole run | as above |
| Traces, events, hooks (`simulation/mod.rs`, `event.rs`, `hook.rs`, the tree in `simulator.rs`) | event list per party, counters of a hook | `record_event`, `TriggeredHook::run`, `ProtocolBandwidthTree::parse`, `write_folded` | nesting of begin/end on error paths, receipts recorded later than deliveries, reports over a prefix of a run | well nested, timestamps monotone, hook and tree agree on every byte, both ends of a link recorded the same |
| Channel delays (`simulation/channel.rs`) | none | `message_delay`, `channel_config`, `build` | segments, losses, instant self-links | no packet is faster than its size allows |
| Packets (`net/mod.rs`) | a list of encoded, labelled elements | `write*`, `size`, `composition`, `pop`, `read` | labels are optional and not sent | size and breakdown the same at both ends |
| TCP backend (`net/tcp.rs`, `net/channel.rs`) | one writer and one reader per peer, loop-back channel | `create`, `send_to`, `send_many`, `recv*`, `close` | connect/accept order, closed peers, cancelled receives, partial sends, senders that go on after a failed one | mesh forms, links FIFO up to the first frame cut off, a closed peer surfaces |
| Share protocols (`protocol/share`) | own share, collected shares | `PassiveDealShr`, `PassiveOpenShr`, `PassiveOpenToParty` | packets carry no identity; `recv_any` across protocol boundaries | every receive gets the item it awaits; balanced; no deadlock |
| DN07 protocols (`protocol/passive_shamir`) | shares, king, sorted parties | `PassiveOpenToKing` (batched or not), `PassiveRandShr`, `PassiveRandDoubleShr`, `PassiveTriple`, `PassiveShamirMul` | two sharings on one link told apart by order; king and non-king roles | the same, and opened values agree with the algebra |
| Secret sharing (`ss`) | shares | share, reconstruct, linear operations; for Feldman also `is_valid` | degrees that add up, thresholds, one leader for public constants, parties' points, commitments | every large enough set reconstructs what the computation should give, smaller ones learn nothing, a Feldman share is accepted exactly if its own commitments commit to it |
| Fields, polynomials (`math/ring.rs`, `math/field`, `math/poly.rs`) | none | reduction, product, inversion, sampling, powers, Lagrange | the modulus itself as a word, borrow, extended Euclid with signed words | results are canonical residues; the same as integers modulo p |
| Curve (`math/ec`) | none | projective addition, doubling, scalar multiples, checked decoding | the point at infinity, equal and opposite points, non-adjacent forms | the multiples of the generator form the group of scalars |
| Matrices and vectors (`math/matrix.rs`, `math/vector.rs`) | elements | Vandermonde, transpose, matrix times shares; sums, products | orientation, row-major indices | corrupt dealers cannot cancel the others' randomness |
| Labels and crate root (`abbreviate.rs`, `lib.rs`) | none | none | none | no behaviour; not modelled |

The components meet in two places. A protocol calls its party's network and
awaits it; in a simulation all networks share one switchboard behind a mutex,
the executor polls the tasks one at a time, and events are delivered only when no
task is ready. The same protocol code runs over TCP: what it relies on is the
delivery promise of the `Network` trait, stated here as `FifoLinks`. The simulator is
shown to implement it, and the TCP backend up to the first frame on a link that a
failed send cut off.

## The modules

* `FifoLinks` - abstract: what the `Network` trait promises about a directed
  link. Three counters per link; packet *k* is on its way, queued or consumed
  according to where *k* lies among them. No loss, duplication or reordering, and
  no bound on the delay.
* `Switchboard` - the shared router: its variables carry the names of the fields
  of the Rust `struct`, its operators the steps of its methods. A packet is its
  position on its link (`number`); its size matters only through the delay it
  costs, so a send picks a delay from `Delays`. `sent` and `received` are history.
* `Simulator` - extends `Switchboard` with the executor, the four receive
  futures and one task per party. `current` is the task being polled: while it
  is set only that party acts (`Send`, the receives, `Finish`, `Fail`); when it
  is not, the loop pops the ready queue (`StartTask`, `ResumeTask`) or, when that
  is empty, delivers an event (`DeliverPacket`, `FireTimer`) or panics
  (`Deadlock`). A receive and its first poll are one action, as in the code,
  where nothing can run in between. The protocol is arbitrary: any sequence of
  network operations.
* `Protocols` - the built-in protocols. A protocol is the list of network
  operations its `run` performs in a role, its script (`Deal`, `Open`,
  `OpenToParty`, `OpenToKing`, `DealAndCollect`, `RandDoubleShr`); a session is a
  list of protocols all parties call in the same order, and the parties run it
  concurrently over links that behave as `FifoLinks` (a packet may be received
  as soon as it is sent or arbitrarily later). `call` and `step` say where a party
  is; `taken` is what the present `run` has collected, a local that `NextCall` drops
  when the protocol returns and the next is called. `Sorted` is the list that the
  DN07 constructors sort. Values are abstracted to the call and the item they
  belong to, which no receive can see.
* `TcpMesh` - how a mesh of TCP connections comes up: one process per party runs
  `create`, whose loop is `phase` and `slot`. `Dial`, `Greet` are
  `connect_as_client`; `Accept`, `Identify` are `accept_connection`; the handshake
  is one joint step of client and server, because neither gets on without the
  other. Retried connection attempts change nothing and are left out; that they
  end is `DialTimeout`. A connection is named by its ends and by the life of the
  client that dialled it, so that a restarted party's second connection is
  another one. `Drop` is every error return and every crash: what `create` held
  (backlog, handshake, writers) is broken for its peers.
* `TcpStreams` - the operations of a connected `TcpNetwork`, one task per party.
  A frame is two halves, length and payload, so that a cut can fall between them;
  `wire` holds halves on their way, `buffer` those that the `FramedRead` holds.
  `StartSend` and then `WriteHead`, `WriteBody`, `SendToSelf` in any order of the
  targets are `try_join_all`; `SendFails` drops the rest, and the party may go on, as
  the code lets it: the writers are still there. `Torn` is a frame with a head and no
  body; `cut`, which is history, says which frame of a link was the first to be left
  so. What is sent behind it makes the stream `Tangled`: the codec takes it for the
  rest of the torn frame, and `MisreadStep` lets the receive return a packet that was
  never sent, or an error, using up any part of the buffer; the link is `astray` from
  then on. A receive starts, is
  polled until something is there (`PollFrom`, `PollAny`, `PruneEnded`), or times
  out. `PollAny` lets a poll of the `StreamMap` start anywhere, stop at the first
  answer, and remove the ended streams it passed. `Close` is one step, whatever
  subset of writers it got to; `Drop` is the drop of the network or the death of
  its process, and may reset a connection, losing what is on its way.
* `Trace` - extends `Simulator` with what a party records. Every action is one of
  `Simulator` together with its events: `StartParty`, `Complete` and `Panic` are
  `drive_party_to_completion`, `Execute` and `Return` the two halves of
  `Protocol::execute` around `run`, `SendPacket`, `ReceivePacket` and
  `ResumeReceive` the operations of `SimNetwork`. `Record` is `record_event` with a
  `MetricHook` registered; `Indent` is the indentation that the `Display` of a
  trace keeps. `packets`, the packet behind each number of `Switchboard`, and
  `spent`, the bytes sent under each stack of calls, are history.
* `Bandwidth` - the accounts of the bytes a party sends. `Calls` lists the calls a
  trace tells of in the order they begin, each with the chain of protocols that
  led to it, by a fold over the trace that keeps the open ones; `Report` are those
  that sent something. It models no code: it says what the code's report should
  list, in a form without recursion, so that it can be reasoned about.
* `TraceReports` - the report as the code makes it: `Parse`, the recursive descent
  of `ProtocolBandwidthTree::parse` with what it leaves of the trace to its
  caller, and `Fold`, the pre-order walk of `write_folded`.
* `Channels` and `Packets` - the delay of a message on a link, and what writing a
  packet builds (`Label` are the labels that protocols write). `Trace` composes them: the size of a packet decides its delay.
* `Ring`, `Mersenne`, `Polynomials` - `pow`; `Mersenne61` in words of
  `BitSize + 3` bits (64 for 61); evaluation and Lagrange interpolation over
  any field. A field is handed to a module as operators (`RAdd`, `RMul`, ...).
* `ShamirSharing`, `AdditiveSharing`, `Matrices`, `PassiveShamir` - the two linear
  schemes, what matrices and vectors do with shares, and what the passive Shamir
  protocols compute from all parties' inputs: one operator per protocol, where
  `Protocols` has its packets. A random generator is a sequence of words, a
  parameter of every operator that draws.
* `Secp256k1Scalar`, `Secp256k1Prime`, `Secp256k1`, `FeldmanSharing` - the curve with
  its prime, order and generator as parameters, and verifiable shares over it.
  Modular arithmetic of 256-bit words is the big-integer library's and is taken
  as arithmetic modulo the parameter.
* `SharedValue` - composes these: two registers with a sharing each, dealt by any
  scheme; every local operation of `LinearShare`, the local product of Shamir
  shares, the preparation of triples (`RandomShares` twice, `RandomDoubles`,
  `Triples`) and a batch of two multiplications that spends them. A register also
  keeps `secret`, the value as integers modulo p have it, which is what the
  properties compare the shares with. `Spoil` hands a party another verifiable
  share than it was dealt: a changed value, a commitment missing, moved or off
  the curve, or value and commitments changed together so that they fit each other.
  A Feldman dealing has any degree, as in the code, which does not compare it with
  the number of parties.
* `MCSimulator`, `MCProtocols`, `MCTcpStreams`, `MCSharedValue`, `MCTrace` - instances
  for TLC.
* `SimulatorProofs` and `TaskProofs` - theorems about `Simulator`; `TraceProofs` -
  about `Trace`; `BandwidthProofs` - about `Bandwidth`; `MeshProofs` - about
  `TcpMesh`; `StreamProofs` - about `TcpStreams`; `ProtocolProofs` - about
  `Protocols`. `FoldLemmas` - lemmas about `FoldLeft` with any operator.

Operators commented `Fault:` are wrong variants of the definition that follows
them, each a plausible bug; no specification uses them. They show that the
properties can tell: put in place of the right definition, each makes TLC report
a violation.

## What the runs check

* `simulator` (`MCSimulator.cfg`): two parties (party 1 first in the vector, so
  that vector order and sender order differ), three operations each, delays 0
  and 2, timeouts 0 and 2; about 1.7 million states. `LinkOrder`: queued and
  in-flight packets of a link are exactly those sent and not received, in order.
  `VirtualTimeMonotone`: no event lies in a clock's past, and no party is behind
  the clock at which another is about to run; this is the claim by which
  `deliver_next` justifies moving the clock for stale timers, and it makes the
  `max` there redundant. `NoLostWakeup`, `NoStaleWaker`, `ReadyTasksLive`:
  wakers and ready queue. `TimerArmed`: a suspended timed receive has a wake-up
  due. `ResumesOnArrival`: a receive resumes at the packet's arrival time.
  `DeadlockGenuine`: the panic is raised only when every unfinished party waits
  without a timeout for packets nobody sent. `LinksSpec`: the links implement
  `FifoLinks`.
* `simulator_live` (`MCSimulatorLive.cfg`): two operations each, under
  `WF_vars(Next)`. `TimedReceiveResolves`, `RunEnds`.
* `timeout_tie` (`MCSimulatorTie.cfg`): refutes `PacketWinsTie`, the comment on
  `try_recv_with_deadline`; see the findings.
* `protocols` (`MCProtocols.cfg`): three parties, all 256 sessions of two
  protocols with named senders (every party as dealer and king) followed by an
  opening; about 190 thousand states. `RightPacket`, `OneShareFromEach`,
  `NothingQueued`, `EveryoneContributes`, and `AllFinish` as liveness.
* `openings_mixed` (`MCProtocolsMixed.cfg`): an opening followed by any protocol.
  `NoWrongSecret`: an opening may take a packet of the next protocol, but with
  Shamir shares it then fails, so a protocol that returns has used its own packets;
  deadlock is not checked, because a party that
  failed leaves the others waiting.
* `openings_twice` (`MCProtocolsTwice.cfg`): refutes `OneShareFromEach` for two
  openings in a row; see the findings.

* `tcp_mesh` (`TcpMesh.cfg`): three parties, each of which may be started twice;
  about 37 thousand states. `MeshSymmetric`: a party that is ready has a connection
  to every other one, and two ready parties hold the two ends of one live
  connection. `FiledByPeer`: under the right id. `MeshCompletes`: if nothing
  fails, everybody gets ready, whatever the order of starts. `DialResolves`: a
  dialled connection is served or dropped.
* `tcp_streams` (`MCTcpStreams.cfg`): three parties; about 400 thousand states.
  `ClosedAfterAll`: `ConnectionClosed` is reported only after everything sent was
  received, if nothing was sent behind a cut frame; a cut frame alone never passes for
  a clean end. `LinksSpec`: up to the first frame on a link that a failed send cut
  off, the links implement `FifoLinks` - no packet before it is skipped, repeated
  or put together from halves of two - with `arrived` counting whole frames in
  the buffer. Frames behind the cut are not counted: nothing is promised of them.
  `GarbageOnlyBehindCut`: a reader loses track of its stream only there, never for a
  timed-out receive, a reset, or a frame cut off behind which nothing follows.
* `tcp_streams_live` (`MCTcpStreamsLive.cfg`): two parties, loop-back sends
  included. `ForgottenAfterAll`: `recv_any` removes the stream of a peer
  that has left only after everything sent was received (cuts excepted, as in
  `ClosedAfterAll`), whatever that peer does
  later (it may have closed, be forgotten, and then reset the connection by
  dropping it with unread input); and `DepartureNoticed`: a receive from a named
  peer returns when the peer closes or dies. That these links are FIFO up to a cut, the
  loop-back ones included, is the theorem `StreamsRefined`.
* `tcp_recv_any_hang` (`MCTcpStreamsHang.cfg`): refutes `AllClosedSurfaces`; see the
  findings.

* `sharing` (`MCSharedValue.cfg`): three parties, integers modulo 7 and a curve of
  order 31; about 12 thousand states. `TypeOK`: every value is a canonical residue.
  `SecretRecovered`: after any two operations, or after multiplying with triples,
  every set of parties the scheme lets reconstruct gets the right value.
  `SharesHide`: what as many parties as the degree hold is consistent with every
  secret, before and after operations. `FeldmanSound`: `is_valid` accepts a
  share exactly if it is the value, at its owner's point, of the polynomial that the
  commitments it carries commit to; a changed share is accepted only with changed
  commitments. A set with a share that is not accepted is refused; of the shares as
  they were dealt, enough give the secret and fewer an error; and such a share
  survives the wire unless a coefficient is zero. Nothing is claimed of a set that
  mixes commitments; see the observations.
  `RandomnessCorrelated`: both halves of a double sharing hide one value and the
  third of a triple the product of the others. `ExtractionKeepsRandomness`: no
  choice of the honest dealers' secrets is lost in the extraction. Deadlock is not
  checked: a computation stops after `MaxOps` operations.
* `trace` (`MCTrace.cfg`): two parties; about 615 thousand states. `TracesNest`: at
  every moment the open scopes of a trace, and the depth it is printed at, are
  the calls its party is in, whatever failed before; time never runs backwards in
  a trace; `Start`, `Output` and `Stop` are where they belong.
  `BandwidthAccounted`: the hook, and the calls that the traces tell of, agree with
  what was sent, in total and under every stack of calls, at every moment of a
  run. `ReportListsCalls`: the lines that the code folds out of its call tree are
  those calls, one by one and in order, also of a trace that is cut short.
  `TransfersMatch`: the receipts of a link are the first sends of it, in order,
  with the same size and breakdown, and never sooner than the delay allows.

**Bounds.** `MaxOps` bounds the operations of a party's protocol and with it
events, packets and time. Three operations per party are enough for a stale timer
or a stale waker of one receive to meet the next receive of the same party while
packets and timers of the other are in flight, with ties at equal instants: delay
0 gives arrivals at the sender's instant, delay 2 and timeout 2 collide. Two
parties have four links, self-links included, and a receive from any party parks
on two of them. Three parties are needed for shares to be mixed up in an opening,
since it takes a fast and a slow peer. Parties are not symmetric: ids order the
choice of `recv_any`, and the vector orders the first polls. In `TcpMesh`,
`MaxLives` is how often a party is started: two lets a dead connection and its
successor sit in one backlog, and three parties let the dead one take the slot of
another peer. In `TcpStreams`, `Targets` are the sets of targets that sends may
have, `MaxSends` and `MaxReceives` the operations of each party: two sends on a
link leave a torn frame in front of a whole one if anything is torn, two receives
let one resume what a timed-out one began; the third party is there to fail a
concurrent send half-way, so that the second send goes behind the frame it cut off.
`Closers` are the parties that may close (two of three in `tcp_streams`); all may
drop or crash.

In `sharing` a field of 7 elements is the smallest Mersenne field with more
elements than three parties' points and the secret's; its words of 6 bits have
values below, at and above the modulus, and products that need the high word.
`Generators` hold such words, so that a dealing also meets a zero coefficient.
The curve over the integers modulo 43 has prime order and the same equation
(b = 7); its scalars have 5 bits, enough for every digit and carry of the
non-adjacent form, and small enough that sums meet equal, opposite and infinite
points. `Degrees` reach from 1, one below the number of parties, to one that a
dealing refuses; degree 1 products have degree 2, degree 2 products cannot be
reconstructed by anybody. `Lists` has parties that list each other alike and
parties that do not. In `trace`, `MaxCalls` lets one party execute two
sub-protocols, in a row or nested, around two operations; the large packet has
elements written in each of the four ways, spans two segments and is slower than
the empty one sent after it.

**Fairness.** The executor is a sequential loop, so `WF_vars(Next)` says that it
does not stop while it can go on; nothing is assumed about which task it picks.
In `Protocols` each party is weakly fair: a send does not block, and both
backends wake a receive whose packet has arrived. In `TcpMesh` every party is
started once, a running `create` goes on when it can, and the timeout of a dial
fires; crashes and restarts are at liberty, and nothing makes a party accept
that waits for a peer which is gone for good: the code has no timeout there, so
`MeshCompletes` is stated up to a failure. In `TcpStreams` the runtime polls a task
that can go on (`SendStep`, `PollStep`), timers fire, and bytes arrive; nothing
makes a protocol start an operation, close or end, and nothing makes a tangled
stream yield anything (`MisreadStep` is not fair: the codec may wait for bytes that
never come). Sockets take whatever is
written (no backpressure).

## What is proved

For all parties, orders of the vector, delays, timeouts and any number of
operations, from `PartyAssumption` and `SimulatorAssumption`:

* `TypeCorrect`: `Spec => []TypeOK`.
* `LinksInOrder`: `Spec => []LinkOrder`. `LinkOrder` is not inductive: that a
  send keeps the order needs that its arrival is clamped to the last arrival of
  the link, which bounds every arrival in flight there, and that its sequence
  number is fresh; that a delivery pops the packet the receiver is due needs that
  the numbers in flight are unique and have no gap. `LinkInv` adds these facts.
  Its proof splits a step by what it does to the links: push a packet, deliver an
  event, consume a packet, or nothing (`LinkCases`).
* `LinksRefined`: `Spec => LinksSpec`, with the refinement mapping
  `arrived[l] = received[l] + Len(msg_queues[l])`, from the same invariant.

* `WakersFresh`, `WakeupsKept`, `QueueSound` (`TaskProofs`): `[]NoStaleWaker`,
  `[]NoLostWakeup`, `[]ReadyTasksLive`. They hold together or not at all; `TaskInv`
  conjoins them with what ties them: the task being polled has not ended and is not
  suspended, a live task that is neither suspended nor polled is in the ready
  queue, a receive accepts one sender or all of them, and a woken receive from one
  sender has no waker left. The last is why `Recv` and `RecvTimeout` need not
  unpark when they resolve and the any-receives must. A poll is treated once,
  for first polls and re-polls alike (`PollStep`); a delivery finds the ready queue
  empty, so it queues a task once (`DeliverStep`).
* `TimeMonotone`, `TimersArmed`, `ArrivalTimely`, `DeadlocksGenuine`
  (`TaskProofs`): `[]VirtualTimeMonotone`, `[]TimerArmed`, `[]ResumesOnArrival`,
  `[]DeadlockGenuine`. `TimerArmed` is not inductive, since a stale timer may be the
  event that satisfies it and then fire too early; `TimersScheduled` says that
  the receive's own timer is in the heap until it has woken the task at the deadline
  itself. A deadlock is genuine because an empty heap leaves no such timer and,
  with `LinkInv`, no packet between sender and receiver.

The dependencies are `TypeOK`, then `LinkInv` and `TaskInv` independently, then
`ClockInv` on all three. So every safety property of the run `simulator` is proved.

For traced runs, from the same assumptions and `TraceAssumption`: for every valid
configuration of the network, every set of packets, labels and protocols, and calls
nested, repeated and failing to any depth:

* `TracedRunsSimulate` (`TraceProofs`): `TraceSpec => Spec`. A step of a traced run
  is a step of `Simulator` or a stutter, because recording constrains nothing and
  the delay of a packet is one of `Delays`. So the invariants above hold of traced
  runs, and the proofs below build on them.
* `TracesTellLives` (`TraceProofs`): `[]TracesNest`. `NestInv` adds the types of what
  is recorded, and what ties a trace to the executor: it is empty exactly until
  the first poll of its party's task (`Begun`, `Unbegun`), which is why `Start` is
  its first event and no other. That the times in it never go back rests on
  the `max` by which `deliver_next` moves a clock (`ClockAfter`); that nothing
  follows `Stop` needs that a task which has ended is not polled, which is `TaskInv`. A receipt is an event
  because the packet it names was sent: `Logged` and `LinkInv`.
* `EndsAgree` (`TraceProofs`): `[]TransfersMatch`. `MatchInv` follows a packet from
  one end to the other: the sender's trace describes every packet sent, and none
  is due later than the last arrival of its link (`SendsMatch`); a packet in
  flight arrives no sooner than it, and every packet before it, is due
  (`FlightsDue`); a queued one is due by its recipient's clock (`QueueDue`); so is
  one received, by the time of its receipt (`ReceiptsMatch`). Each part
  is inherited from the one before, and the first from the clamp: a small packet
  behind a large one arrives when the large one does, not sooner.
* `AccountsAgree` (`BandwidthProofs`): `[]BandwidthAccounted`. The report reads the
  trace only; that it credits the right chain needs that the calls it has open
  are those the party is running, each listed with the chain down to it (`OpenOK`).
  `Accounted` compares listed calls and history chain by chain, the calls of a
  repeated protocol added up. `BandwidthInv` conjoins both for every party with
  the hook's counts and their total.

What is read from a trace is folded from it, and a step appends to the trace, so
these proofs need what a fold makes of one more element. The provers can use no
theorem that takes an operator as a parameter, neither the library's about
induction nor one about `FoldLeft`. `FoldLemmas` therefore has the folded operator
as a CONSTANT and is instantiated once for each of the folds (`ScopeFold`,
`CallFold`, ...), and induction is over the set of numbers, or of sequences, that
have a property (`SetInduction`, `SeqInduction`).

For every number of parties and of restarts, from `MeshAssumption` and
`NoConnectionAssumption`:

* `MeshTypes`, `FiledRight`, `MeshConnected` (`MeshProofs`): `[]TypeOK`,
  `[]FiledByPeer`, `[]MeshSymmetric`, so every safety property of the run
  `tcp_mesh`. The first two follow from `Ends`, which says whose connections the
  backlog, the handshake and the slots hold. `MeshSymmetric` is not inductive: a
  server may hold connections of several lives of one client, take up a stale one
  after the client has died, and replace it later. `Order` adds what makes this
  end well: a client dials a server once in each life (`DialledBefore`); a server
  holds a client's connections in the order of its lives, in the slot, the
  handshake and the backlog (`InOrder`), so what replaces a connection is always
  newer; the connection a client waits on is live exactly as long as the server
  has it (`DiallingMatched`); and once it has greeted the server, either
  the server has taken that very connection and nobody has dropped it, or the
  connection is broken and the server holds nothing from that client (`Matched`).
  A server that is ready holds something from everybody, so only the first case
  is left. All the ends of `create` that drop what a party holds are one lemma
  each (`DropEnds`, `DropOrder`).

For every number of parties, sends and receives, from `StreamsAssumption`:

* `StreamTypes`, `ClosedMeansAll`, `ForgottenMeansAll`, `GarbageBehindCut`,
  `StreamsRefined` (`StreamProofs`): `[]TypeOK`, `[]ClosedAfterAll`,
  `[]ForgottenAfterAll`, `[]GarbageOnlyBehindCut` and `Spec => LinksSpec`, so every safety property of `tcp_streams` and
  `tcp_streams_live`. A frame is two halves, and number *n*'s halves have the places
  `2n - 1` and `2n`. `InSequence`: the halves of a link, first those in the buffer
  and then those on the wire, have consecutive places, beginning after the frames
  received; where a frame has been cut off this holds up to its head, and only later
  frames stand behind it (`At`). `AllTaken`: together they reach as far as the sender wrote (`Full`), an
  even place unless a head has no body yet, or never gets one; behind a cut frame,
  at least to its head. `CutInv`: a reader that is not astray has not got past the cut,
  and one that is has had something sent behind it. `WriterInv`: only a party that has ended closes or loses
  a connection. So a link with nothing behind a cut, whose stream has ended
  cleanly and whose buffer holds no whole frame, has delivered everything (`EndedExhausted`), and stays so
  (`ExhaustedKept`): nobody writes on it again. The refinement counts a frame as
  arrived when both halves are in the buffer, and none from the first cut on: the cut
  frame is the last one begun when it is cut and can never arrive (`RefineFails`), and
  a reader goes astray only when it has returned everything before it
  (`RefineMisread`).

For every set of parties, every order of them and every set of sessions, from
`SessionAssumption`:

* `ProtocolTypes`, `OwnPacketsOnly`, `NetworkLeftEmpty`, `NobodyLeavesEarly`
  (`ProtocolProofs`): `[]TypeOK`, `[]NoWrongSecret`, `[]NothingQueued`,
  `[]EveryoneContributes`, in all sessions, also where openings come first and
  parties are calls apart. `NamedReceives`: in all sessions, a protocol whose
  receives name their sender gets exactly the packets it waits for.
* `EveryReceiptRight`, `OneShareEach`: `[]RightPacket`, `[]OneShareFromEach` for
  sessions in which no opening is followed by another call (`OpeningsLast`, which
  the sessions of the run `protocols` satisfy). Without that condition both are
  false, as `openings_twice` shows.

The argument has a part about scripts and a part about states. Scripts
(`ScriptOps`, `NamedScripts`, `OpeningScripts`, `CollectorScript`): in a protocol
with named receives, a party awaits from another exactly what the other sends it;
two items share a link only as the halves of a double sharing, in one order on
both sides; in an opening, each other party sends one share. States
(`ProtocolInv`): a link carries what its sender's operations have sent, in the
order of calls and halves (`SentInOrder`, `SentAsPerformed`); a party has taken
everything that is sent to it in the calls it has left (`PastTaken`); in its present
call it has taken what it has awaited and nothing of a later call (`NamedInv`); or,
in an opening, its receipts are exactly what it took since the call began
(`OpeningInv`). None is inductive alone. A receive by name is right because what
comes before the awaited packet on the link belongs to a past call, and has been
taken, or is the other half, and has been awaited (`NamedReceive`). An opening
that returns is right because as many shares as there are other parties came
from different parties, none from itself, hence one from each (`FullSetOfSenders`,
by counting), and the first that comes from each is that of this call
(`CollectedShare`); so the next call begins on clean links (`CallComplete`). That is
where the check for equal senders in the reconstruction is needed.

So every safety property of `Simulator`, `TcpMesh`, `TcpStreams` and `Protocols` that a
run checks is proved, and of `Trace` and `Bandwidth`. Only model-checked:

* `ReportListsCalls`, which is about the code's recursive descent: the prover takes no
  module with a `RECURSIVE` operator. It is what ties the code's report to the
  calls that `AccountsAgree` is about.
* The properties of `SharedValue`: its arithmetic is recursive (Lagrange sums,
  extended Euclid) or on bits, and would need induction over data.
* All liveness, which rests on fairness and `ENABLED`, out of the prover's reach.

## Findings

* A timed receive that is polled before its peer sends reports `Timeout` although
  the packet arrives exactly at the deadline: its timer was scheduled first and
  pops first. The comment at `switchboard/mod.rs:228-230` says the packet wins.
* Two `PassiveOpenShr` in a row (three parties or more) can take two shares of a
  fast peer for one opening, against `protocol/share/open.rs:21-23`.
* `recv_any` over TCP waits for ever when every remote peer has closed, because the
  stream map it polls contains the party's own loop-back stream, which never
  ends. The comment at `net/tcp.rs:652-653` says that a peer which shuts down must
  surface as `ConnectionClosed` rather than hang; that holds for `recv_from` only.

## Observations

Seen while modelling, and not the subject of a run of their own:

* A Feldman sharing whose polynomial has a zero coefficient (a sharing of zero, for
  instance) is valid where it is dealt, but its shares cannot be received:
  the commitment is the point at infinity, which `try_from` refuses on decoding
  (`math/ec/secp256k1.rs:82-84`). `FeldmanSound` states it as the only case.
* `secret_from_shares` of Feldman shares (`ss/feldman.rs:130-154`) checks each share
  against the commitments it carries and does not compare the commitments of
  different shares. A share changed together with its commitments (the value plus one,
  the first commitment plus the generator) is accepted, and a set that mixes it with
  shares as dealt gives a wrong secret without an error. A caller who has the
  dealer's commitments must compare them himself; `FeldmanSS` has no accessor for
  them, but compares as a whole.
* After a `send_many` that failed because one peer is gone, the streams to the other
  peers may end in a torn frame, and the writers stay in place
  (`net/tcp.rs:303-313`). A party that sends again puts whole frames behind it; the
  receiver's codec takes their first bytes for the rest of the torn frame and
  returns packets that were never sent, or errors. Nothing in the code or its
  documentation says that a network is not to be used after a failed send.
* `Mersenne61::random_non_zero` (`math/field/mersenne61.rs:53-60`) accepts the word
  that equals the modulus and returns zero for it.
* `Mersenne61`'s `Div` (`mersenne61.rs:110-116`) computes `rhs / self`; the
  other two fields compute `self / rhs`.
* The product of a matrix and a scalar, `Mul<&T> for Matrix<T>`
  (`math/matrix.rs:432-450`), runs its column index over the rows: it is right
  for square matrices only.
* The constructors of the passive protocols sort the parties, with the remark that
  this aligns the columns of the extraction with the dealers. Each party builds its
  matrix from its own list, so any order would do; what matters is that the
  matrix and the collection use the same one.

## Plan

In order of importance; each with its MC module and runs.

1. Done: `FifoLinks`, `Switchboard`, `Simulator`; proofs of types, link order and
   refinement (`SimulatorProofs`).
2. Done: `Protocols`.
3. Done: `TaskProofs`; the remaining safety properties of the
   simulator as theorems.
4. Done: `TcpMesh`, `TcpStreams`.
5. Done: `Trace` with `Channels` and `Packets`.
6. Done: `SharedValue` with the sharing schemes, fields, the curve and what the
   passive protocols compute.
7. Done: `MeshProofs` and `StreamProofs`, the safety properties of the TCP backend
   and its refinement of `FifoLinks` as theorems.
8. Done: `ProtocolProofs`, the safety properties of `Protocols`.
9. Done: `TraceProofs`, `BandwidthProofs` and `FoldLemmas`, the safety properties of
   traced runs and of what is read from their traces; `TraceReports`, the code's
   own reading, apart from them.
10. Left: the algebra of `SharedValue` for every field, by induction over
    polynomials; `ReportListsCalls` as a theorem, by induction over traces.

## Not modelled

* `Div` of the fields and `random_non_zero`: no operation of the schemes or the
  protocols uses them (see the observations).
* The other matrix and vector operations (sums, products, identity, scalar
  multiples, dot products): they have no caller in the protocols.
* The arguments that the constructors of the passive protocols refuse: each run is
  constructed with arguments they accept; likewise the length check of
  `LinearShare::secret_from_shares` for additive shares.
* The encoding of values and reading them back from a packet, labels, the text of
  events and errors, the configuration file.
* TLS (a party is who it says it is), the size limit of a frame, backpressure of
  sockets, and the inherent `TcpNetwork::recv`, whose loop no protocol calls.
* The arithmetic inside the big-integer library, and floating point: delays are in
  whole ticks, rounded up, where the code rounds to a nanosecond.
