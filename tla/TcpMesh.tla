------------------------------ MODULE TcpMesh ------------------------------
(***************************************************************************)
(* How the parties of a real network connect to each other:                *)
(* TcpNetwork::create (src/net/tcp.rs) with accept_connection and          *)
(* connect_as_client (src/net/channel.rs), one process per party.          *)
(*                                                                         *)
(* Party p visits the slots 0..N-1 in order.  It dials the party of a      *)
(* lower slot, makes a loop-back channel for its own, and for each higher  *)
(* one accepts a connection, which may come from any party: who it is, the *)
(* client says after the TLS handshake.  Dialling is retried until a       *)
(* timeout; the handshake and the accept have none.  The kernel completes  *)
(* a TCP connection into the backlog as soon as the server listens.        *)
(*                                                                         *)
(* A process may crash at any time and be started again.                   *)
(***************************************************************************)
EXTENDS Naturals, Sequences

CONSTANTS
  N,              \* the number of parties, peer_ips.len()
  MaxLives,       \* bound: how often a party is started
  NoConnection    \* an empty slot, or no handshake

ASSUME MeshAssumption == N \in Nat \ {0} /\ MaxLives \in Nat \ {0}

Party == 0..N - 1

\* A connection is named by its ends and by which life of the client dialled it.
Connection == [client : Party, server : Party, life : 1..MaxLives]

ASSUME NoConnectionAssumption == NoConnection \notin Connection

VARIABLES
  phase,          \* where p's create() stands
  slot,           \* slot[p]: the loop variable of create()
  life,           \* life[p]: how often p has been started
  backlog,        \* backlog[p]: connections p's listener has not accepted
  handshake,      \* handshake[p]: the connection p is shaking hands on
  writers,        \* writers[p][q]: p's connection to q, in `writers` and `readers`
  greeted,        \* connections on which the client has sent its party id
  broken          \* connections dropped by one of their ends

vars == <<phase, slot, life, backlog, handshake, writers, greeted, broken>>

Phases == {"off", "loop", "dialling", "accepting", "ready", "failed"}

Init ==
  /\ phase = [p \in Party |-> "off"]
  /\ slot = [p \in Party |-> 0]
  /\ life = [p \in Party |-> 0]
  /\ backlog = [p \in Party |-> <<>>]
  /\ handshake = [p \in Party |-> NoConnection]
  /\ writers = [p \in Party |-> [q \in Party |-> NoConnection]]
  /\ greeted = {}
  /\ broken = {}

\* The listener lives as long as create() runs.
Listening(p) == phase[p] \in {"loop", "dialling", "accepting"}

\* Fault: the listener outlives create(), and whoever is in its backlog waits.
KeepBacklog(p) == {}

Backlogged(p) == {backlog[p][i] : i \in 1..Len(backlog[p])}

\* Fault: the slots that are still empty are dropped as well.
HeldOrEmpty(p) == Backlogged(p) \cup {handshake[p]} \cup {writers[p][q] : q \in Party \ {p}}

\* Everything that the end of p's create(), or process, drops.
Held(p) ==
  (Backlogged(p) \cup {handshake[p]} \cup {writers[p][q] : q \in Party \ {p}}) \ {NoConnection}

-----------------------------------------------------------------------------
(***************************************************************************)
(* The ends of create().                                                   *)
(***************************************************************************)
\* create() returns an error, or the process dies: all that p holds is dropped.
Drop(p) ==
  /\ phase' = [phase EXCEPT ![p] = "failed"]
  /\ broken' = broken \cup Held(p)
  /\ backlog' = [backlog EXCEPT ![p] = <<>>]
  /\ handshake' = [handshake EXCEPT ![p] = NoConnection]
  /\ writers' = [writers EXCEPT ![p] = [q \in Party |-> NoConnection]]
  /\ UNCHANGED <<slot, life, greeted>>

\* bind: the listener is up.
Start(p) ==
  /\ phase[p] = "off" \/ (phase[p] = "failed" /\ life[p] > 0)
  /\ life[p] < MaxLives
  /\ phase' = [phase EXCEPT ![p] = "loop"]
  /\ slot' = [slot EXCEPT ![p] = 0]
  /\ life' = [life EXCEPT ![p] = @ + 1]
  /\ UNCHANGED <<backlog, handshake, writers, greeted, broken>>

Crash(p) ==
  /\ phase[p] \notin {"off", "failed"}
  /\ Drop(p)

\* Fault: create() trusts its loop and does not check that all parties are present.
AnyPresent(p) == TRUE

AllPresent(p) == \A q \in Party : q = p \/ writers[p][q] # NoConnection

\* The listener is dropped, and with it what nobody accepted.
Complete(p) ==
  /\ phase[p] = "loop" /\ slot[p] = N
  /\ AllPresent(p)
  /\ phase' = [phase EXCEPT ![p] = "ready"]
  /\ broken' = broken \cup Backlogged(p)
  /\ backlog' = [backlog EXCEPT ![p] = <<>>]
  /\ UNCHANGED <<slot, life, handshake, writers, greeted>>

\* PartyNotFound: two accepts reported the same remote id.
PeerMissing(p) ==
  /\ phase[p] = "loop" /\ slot[p] = N
  /\ ~AllPresent(p)
  /\ Drop(p)

-----------------------------------------------------------------------------
(***************************************************************************)
(* The slots of the loop.                                                  *)
(***************************************************************************)
LoopBack(p) ==
  /\ phase[p] = "loop" /\ slot[p] = p
  /\ slot' = [slot EXCEPT ![p] = @ + 1]
  /\ UNCHANGED <<phase, life, backlog, handshake, writers, greeted, broken>>

\* Fault: every party dials all the others.
DialsAll(p) == phase[p] = "loop" /\ slot[p] < N /\ slot[p] # p

Dials(p) == phase[p] = "loop" /\ slot[p] < p

\* connect: the kernel puts the connection into the server's backlog.
Dial(p) ==
  LET c == [client |-> p, server |-> slot[p], life |-> life[p]] IN
  /\ Dials(p)
  /\ Listening(slot[p])
  /\ backlog' = [backlog EXCEPT ![slot[p]] = Append(@, c)]
  /\ handshake' = [handshake EXCEPT ![p] = c]
  /\ phase' = [phase EXCEPT ![p] = "dialling"]
  /\ UNCHANGED <<slot, life, writers, greeted, broken>>

\* The timeout may fire between two retries, though the server listens by now.
DialTimeout(p) ==
  /\ Dials(p)
  /\ Drop(p)

\* The server takes part in the handshake; the client sends its id and goes on.
Greet(p) ==
  /\ phase[p] = "dialling"
  /\ phase[slot[p]] = "accepting" /\ handshake[slot[p]] = handshake[p]
  /\ greeted' = greeted \cup {handshake[p]}
  /\ writers' = [writers EXCEPT ![p][slot[p]] = handshake[p]]
  /\ handshake' = [handshake EXCEPT ![p] = NoConnection]
  /\ phase' = [phase EXCEPT ![p] = "loop"]
  /\ slot' = [slot EXCEPT ![p] = @ + 1]
  /\ UNCHANGED <<life, backlog, broken>>

\* The server has dropped the connection, accepted or not.
DialError(p) ==
  /\ phase[p] = "dialling" /\ handshake[p] \in broken
  /\ Drop(p)

Accept(p) ==
  /\ phase[p] = "loop" /\ p < slot[p] /\ slot[p] < N
  /\ backlog[p] # <<>>
  /\ handshake' = [handshake EXCEPT ![p] = Head(backlog[p])]
  /\ backlog' = [backlog EXCEPT ![p] = Tail(@)]
  /\ phase' = [phase EXCEPT ![p] = "accepting"]
  /\ UNCHANGED <<slot, life, writers, greeted, broken>>

\* Fault: the connection is filed under the slot of the loop.
FiledUnderSlot(p) == slot[p]

\* The connection is filed under the id its client has sent.
RemoteId(p) == handshake[p].client

\* The id is read; a client that has died since may go unnoticed.
Identify(p) ==
  /\ phase[p] = "accepting" /\ handshake[p] \in greeted
  /\ writers' = [writers EXCEPT ![p][RemoteId(p)] = handshake[p]]
  /\ broken' = broken \cup ({writers[p][RemoteId(p)]} \ {NoConnection})
  /\ handshake' = [handshake EXCEPT ![p] = NoConnection]
  /\ phase' = [phase EXCEPT ![p] = "loop"]
  /\ slot' = [slot EXCEPT ![p] = @ + 1]
  /\ UNCHANGED <<life, backlog, greeted>>

\* The client died during the handshake, or in the backlog.
AcceptError(p) ==
  /\ phase[p] = "accepting" /\ handshake[p] \in broken
  /\ Drop(p)

-----------------------------------------------------------------------------
\* What the code of a running create() does.
CreateStep(p) ==
  \/ Complete(p) \/ PeerMissing(p) \/ LoopBack(p)
  \/ Dial(p) \/ Greet(p) \/ DialError(p)
  \/ Accept(p) \/ Identify(p) \/ AcceptError(p)

Next == \E p \in Party : Start(p) \/ Crash(p) \/ DialTimeout(p) \/ CreateStep(p)

Spec == Init /\ [][Next]_vars

\* Every party is started once, sockets make progress, and the dialling timeout fires.
FairSpec ==
  /\ Spec
  /\ \A p \in Party :
       /\ WF_vars(phase[p] = "off" /\ Start(p))
       /\ WF_vars(CreateStep(p))
       /\ WF_vars(DialTimeout(p))

-----------------------------------------------------------------------------
(***************************************************************************)
(* Properties.                                                             *)
(***************************************************************************)
TypeOK ==
  /\ phase \in [Party -> Phases]
  /\ slot \in [Party -> 0..N]
  /\ life \in [Party -> 0..MaxLives]
  /\ backlog \in [Party -> Seq(Connection)]
  /\ handshake \in [Party -> Connection \cup {NoConnection}]
  /\ writers \in [Party -> [Party -> Connection \cup {NoConnection}]]
  /\ greeted \subseteq Connection
  /\ broken \subseteq Connection

\* What create() promises (its check that all parties are present, tcp.rs:216-221): a
\* party that is ready has a connection to every other, and if that one is ready
\* too, both hold the two ends of one live connection, however often either of them or
\* a third party had died and come back while it was set up.
MeshSymmetric ==
  \A p, q \in Party : p # q /\ phase[p] = "ready" =>
    /\ writers[p][q] # NoConnection
    /\ phase[q] = "ready" => writers[p][q] = writers[q][p] /\ writers[p][q] \notin broken

\* A connection is filed under the party at its other end (tcp.rs:173-175: "each slot
\* is filled by the `remote_id` the accept reports rather than by loop order").
FiledByPeer ==
  \A p, q \in Party : writers[p][q] # NoConnection =>
    {writers[p][q].client, writers[p][q].server} = {p, q}

\* No circle of parties that wait for each other to accept: unless something fails,
\* the mesh is complete in the end, in whatever order the parties come up.
MeshCompletes == <>(\A p \in Party : phase[p] = "ready")
                 \/ <>(\E p \in Party : phase[p] = "failed")

\* A dialling party never hangs: though the handshake has no timeout, the server gets
\* to it, or the connection is dropped.
DialResolves == \A p \in Party : (phase[p] = "dialling") ~> (phase[p] # "dialling")

=============================================================================
