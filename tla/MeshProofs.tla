---------------------------- MODULE MeshProofs ----------------------------
(***************************************************************************)
(* Proofs about TcpMesh, for every number of parties and of restarts: its  *)
(* types, that a connection is filed under the party at its other end, and *)
(* that two parties which are ready hold the two ends of one live          *)
(* connection.                                                             *)
(*                                                                         *)
(* The last needs to know what happens to the connections of earlier       *)
(* lives.  A server may hold several connections of one client, but only   *)
(* in the order in which they were dialled (InOrder), each life of the     *)
(* client dials a server once (DialledBefore), and a client that has       *)
(* greeted a server holds either what the server has taken up last or a    *)
(* broken connection to a server that holds nothing from it (Matched).     *)
(***************************************************************************)
EXTENDS TcpMesh, SequenceTheorems, TLAPS

-----------------------------------------------------------------------------
(***************************************************************************)
(* The inductive invariant.                                                *)
(***************************************************************************)
\* The connections p's listener has queued, by their position.
Queue(p) == 1..Len(backlog[p])

\* Who runs no create() has no connection and no backlog.
IdleHoldsNothing ==
  \A p \in Party :
    /\ phase[p] \in {"off", "failed", "ready"} => backlog[p] = <<>>
    /\ phase[p] \in {"off", "failed"} => \A q \in Party : writers[p][q] = NoConnection
    /\ phase[p] = "ready" => AllPresent(p)
    /\ phase[p] # "off" => life[p] > 0

\* A handshake is the client's while it dials, the server's while it accepts.
HandshakeEnds ==
  \A p \in Party :
    /\ phase[p] \notin {"dialling", "accepting"} => handshake[p] = NoConnection
    /\ phase[p] = "dialling" =>
         /\ slot[p] < p
         /\ handshake[p] = [client |-> p, server |-> slot[p], life |-> life[p]]
    /\ phase[p] = "accepting" =>
         /\ slot[p] < N
         /\ handshake[p] \in Connection
         /\ handshake[p].server = p
         /\ p < handshake[p].client

BacklogEnds ==
  \A p \in Party : \A i \in Queue(p) :
    backlog[p][i].server = p /\ p < backlog[p][i].client

\* A connection p has dialled is of its present life, and of a slot it has passed.
WritersEnds ==
  \A p, q \in Party : writers[p][q] # NoConnection =>
    \/ /\ q < p /\ q < slot[p]
       /\ writers[p][q] = [client |-> p, server |-> q, life |-> life[p]]
    \/ /\ p < q
       /\ writers[p][q].client = q
       /\ writers[p][q].server = p

\* c was dialled, in an earlier life of its client or in a slot the client has reached.
Dialled(c) ==
  \/ c.life < life[c.client]
  \/ /\ c.life = life[c.client]
     /\ \/ c.server < slot[c.client]
        \/ c.server = slot[c.client] /\ phase[c.client] = "dialling"
        \/ phase[c.client] = "failed"

\* The end of c that p holds as its server.
Taken(p, c) ==
  \/ phase[p] = "accepting" /\ handshake[p] = c
  \/ p < c.client /\ writers[p][c.client] = c

Queued(p, c) == \E i \in Queue(p) : backlog[p][i] = c

DialledBefore ==
  \A c \in Connection :
    (c \in broken \/ \E p \in Party : Taken(p, c) \/ Queued(p, c)) => Dialled(c)

\* Of two connections of one client, c is of an earlier life.
Older(c, d) == c.client = d.client => c.life < d.life

\* A server holds the connections of one client in the order they were dialled.
InOrder ==
  \A p \in Party :
    /\ \A i, j \in Queue(p) : i < j => Older(backlog[p][i], backlog[p][j])
    /\ phase[p] = "accepting" => \A i \in Queue(p) : Older(handshake[p], backlog[p][i])
    /\ \A q \in Party : p < q /\ writers[p][q] # NoConnection =>
         /\ \A i \in Queue(p) : Older(writers[p][q], backlog[p][i])
         /\ phase[p] = "accepting" => Older(writers[p][q], handshake[p])

\* What p, dialling, waits on is live as long as the server has it.
DiallingMatched ==
  \A p \in Party : phase[p] = "dialling" =>
    (Taken(slot[p], handshake[p]) \/ Queued(slot[p], handshake[p])) <=> handshake[p] \notin broken

\* What p has greeted q on is live and q has taken it, or q has nothing from p.
Matched ==
  \A p, q \in Party : q < p /\ writers[p][q] # NoConnection =>
    \/ Taken(q, writers[p][q]) /\ writers[p][q] \notin broken
    \/ /\ writers[p][q] \in broken
       /\ \A c \in Connection : c.client = p => ~Taken(q, c) /\ ~Queued(q, c)

Ends == IdleHoldsNothing /\ HandshakeEnds /\ BacklogEnds /\ WritersEnds

Order == DialledBefore /\ InOrder /\ DiallingMatched /\ Matched

-----------------------------------------------------------------------------
(***************************************************************************)
(* Types and ends of connections.                                          *)
(***************************************************************************)
LEMMA PartyRange == \A p \in Party : p \in Nat /\ p < N
BY MeshAssumption DEF Party

LEMMA LowerParty == \A p \in Party, n \in Nat : n < p => n \in Party
BY MeshAssumption DEF Party

LEMMA EndsInit == Init => TypeOK /\ Ends
BY MeshAssumption, EmptySeq
   DEF Init, TypeOK, Phases, Ends, IdleHoldsNothing, HandshakeEnds, BacklogEnds, Queue, WritersEnds

\* The connections that a party drops are connections.
LEMMA HeldTypes ==
  ASSUME TypeOK, NEW p \in Party
  PROVE  Held(p) \subseteq Connection /\ Backlogged(p) \subseteq Connection
<1>1. Backlogged(p) \subseteq Connection
  BY ElementOfSeq DEF Backlogged, TypeOK
<1>. QED  BY <1>1 DEF Held, TypeOK

LEMMA DropEnds ==
  ASSUME TypeOK, Ends, NEW p \in Party, Drop(p), life[p] > 0
  PROVE  TypeOK' /\ Ends'
<1>. USE DEF Drop
<1>1. TypeOK'
  BY HeldTypes, EmptySeq DEF TypeOK, Phases
<1>2. IdleHoldsNothing'
  BY EmptySeq DEF TypeOK, Ends, IdleHoldsNothing, AllPresent
<1>3. HandshakeEnds'
  BY DEF TypeOK, Ends, HandshakeEnds
<1>4. BacklogEnds'
  BY DEF TypeOK, Ends, BacklogEnds, Queue
<1>5. WritersEnds'
  BY DEF TypeOK, Ends, WritersEnds
<1>. QED  BY <1>1, <1>2, <1>3, <1>4, <1>5 DEF Ends

LEMMA StartEnds ==
  ASSUME TypeOK, Ends, NEW p \in Party, Start(p)
  PROVE  TypeOK' /\ Ends'
<1>. USE MeshAssumption DEF Start
<1>1. TypeOK'
  BY DEF TypeOK, Phases
<1>2. IdleHoldsNothing'
  BY DEF TypeOK, Ends, IdleHoldsNothing, AllPresent
<1>3. HandshakeEnds'
  BY DEF TypeOK, Ends, HandshakeEnds
<1>4. BacklogEnds'
  BY DEF TypeOK, Ends, BacklogEnds, Queue
<1>5. WritersEnds'
  BY DEF TypeOK, Ends, IdleHoldsNothing, WritersEnds
<1>. QED  BY <1>1, <1>2, <1>3, <1>4, <1>5 DEF Ends

LEMMA CompleteEnds ==
  ASSUME TypeOK, Ends, NEW p \in Party, Complete(p)
  PROVE  TypeOK' /\ Ends'
<1>. USE DEF Complete
<1>1. TypeOK'
  BY HeldTypes, EmptySeq DEF TypeOK, Phases
<1>2. IdleHoldsNothing'
  BY DEF TypeOK, Ends, IdleHoldsNothing, AllPresent
<1>3. HandshakeEnds'
  BY DEF TypeOK, Ends, HandshakeEnds
<1>4. BacklogEnds'
  BY DEF TypeOK, Ends, BacklogEnds, Queue
<1>5. WritersEnds'
  BY DEF TypeOK, Ends, WritersEnds
<1>. QED  BY <1>1, <1>2, <1>3, <1>4, <1>5 DEF Ends

LEMMA LoopBackEnds ==
  ASSUME TypeOK, Ends, NEW p \in Party, LoopBack(p)
  PROVE  TypeOK' /\ Ends'
<1>. USE PartyRange, MeshAssumption DEF LoopBack
<1>1. TypeOK'
  BY DEF TypeOK
<1>2. IdleHoldsNothing'
  BY DEF TypeOK, Ends, IdleHoldsNothing, AllPresent
<1>3. HandshakeEnds'
  BY DEF TypeOK, Ends, HandshakeEnds
<1>4. BacklogEnds'
  BY DEF TypeOK, Ends, BacklogEnds, Queue
<1>5. WritersEnds'
  BY DEF TypeOK, Ends, WritersEnds
<1>. QED  BY <1>1, <1>2, <1>3, <1>4, <1>5 DEF Ends

\* The connection p dials while it is in a slot below its own.
Dialling(p) == [client |-> p, server |-> slot[p], life |-> life[p]]

LEMMA DialTypes ==
  ASSUME TypeOK, Ends, NEW p \in Party, Dials(p)
  PROVE  /\ slot[p] \in Party /\ slot[p] < p /\ slot[p] # p
         /\ Dialling(p) \in Connection
         /\ Append(backlog[slot[p]], Dialling(p)) \in Seq(Connection)
<1>1. slot[p] \in Party /\ slot[p] < p /\ slot[p] # p
  <2>1. slot[p] \in Nat /\ slot[p] < p
    BY DEF TypeOK, Dials
  <2>. QED  BY <2>1, LowerParty, PartyRange
<1>2. life[p] \in 1..MaxLives
  BY MeshAssumption DEF TypeOK, Dials, Ends, IdleHoldsNothing
<1>3. Dialling(p) \in Connection
  BY <1>1, <1>2 DEF Dialling, Connection
<1>. QED  BY <1>1, <1>3, AppendProperties DEF TypeOK

\* What a dial leaves in the backlog of the server: one connection more, the last.
LEMMA DialQueues ==
  ASSUME TypeOK, Ends, NEW p \in Party, Dial(p)
  PROVE  /\ \A r \in Party : r # slot[p] => backlog'[r] = backlog[r]
         /\ Len(backlog'[slot[p]]) = Len(backlog[slot[p]]) + 1
         /\ Len(backlog[slot[p]]) \in Nat
         /\ \A i \in 1..Len(backlog[slot[p]]) : backlog'[slot[p]][i] = backlog[slot[p]][i]
         /\ backlog'[slot[p]][Len(backlog[slot[p]]) + 1] = Dialling(p)
<1>1. slot[p] \in Party /\ Dialling(p) \in Connection /\ backlog[slot[p]] \in Seq(Connection)
  BY DialTypes DEF Dial, TypeOK
<1>2. backlog' = [backlog EXCEPT ![slot[p]] = Append(@, Dialling(p))]
  BY DEF Dial, Dialling
<1>. QED  BY <1>1, <1>2, AppendProperties, LenProperties DEF TypeOK

LEMMA DialEnds ==
  ASSUME TypeOK, Ends, NEW p \in Party, Dial(p)
  PROVE  TypeOK' /\ Ends'
<1>0. Dials(p) /\ Listening(slot[p])
  BY DEF Dial
<1>. USE DialTypes, <1>0
<1>1. TypeOK'
  BY DEF TypeOK, Phases, Dial, Dialling
<1>2. IdleHoldsNothing'
  BY DialQueues DEF Dial, Dials, Listening, TypeOK, Ends, IdleHoldsNothing, AllPresent
<1>3. HandshakeEnds'
  BY DEF Dial, Dials, TypeOK, Ends, HandshakeEnds
<1>4. BacklogEnds'
  <2>. SUFFICES ASSUME NEW r \in Party, NEW i \in Queue(r)'
                PROVE  backlog'[r][i].server = r /\ r < backlog'[r][i].client
    BY DEF BacklogEnds
  <2>1. CASE r # slot[p]
    BY <2>1, DialQueues DEF Ends, BacklogEnds, Queue
  <2>2. CASE r = slot[p] /\ i \in Queue(r)
    BY <2>2, DialQueues DEF Ends, BacklogEnds, Queue
  <2>3. CASE r = slot[p] /\ i \notin Queue(r)
    <3>1. i = Len(backlog[slot[p]]) + 1
      BY <2>3, DialQueues DEF Queue
    <3>2. backlog'[r][i] = Dialling(p)
      BY <2>3, <3>1, DialQueues
    <3>. QED  BY <2>3, <3>2, DialTypes, <1>0 DEF Dialling
  <2>. QED  BY <2>1, <2>2, <2>3
<1>5. WritersEnds'
  BY DEF Dial, Dials, TypeOK, Ends, WritersEnds
<1>. QED  BY <1>1, <1>2, <1>3, <1>4, <1>5 DEF Ends

LEMMA GreetEnds ==
  ASSUME TypeOK, Ends, NEW p \in Party, Greet(p)
  PROVE  TypeOK' /\ Ends'
<1>. USE PartyRange, MeshAssumption
<1>0. /\ slot[p] \in Party /\ slot[p] < p /\ slot[p] # p
      /\ handshake[p] = Dialling(p)
      /\ handshake[p] \in Connection
  <2>1. slot[p] < p /\ handshake[p] = Dialling(p)
    BY DEF Greet, Ends, HandshakeEnds, Dialling
  <2>2. slot[p] \in Party
    BY <2>1 DEF TypeOK, Party
  <2>3. handshake[p] # NoConnection
    BY <2>2, NoConnectionAssumption DEF Greet, Ends, HandshakeEnds
  <2>. QED  BY <2>1, <2>2, <2>3 DEF TypeOK
<1>1. TypeOK'
  BY <1>0 DEF TypeOK, Phases, Greet
<1>2. IdleHoldsNothing'
  BY <1>0 DEF Greet, TypeOK, Ends, IdleHoldsNothing, AllPresent
<1>3. HandshakeEnds'
  BY <1>0 DEF Greet, TypeOK, Ends, HandshakeEnds
<1>4. BacklogEnds'
  BY DEF Greet, TypeOK, Ends, BacklogEnds, Queue
<1>5. WritersEnds'
  <2>. SUFFICES ASSUME NEW r \in Party, NEW q \in Party, writers'[r][q] # NoConnection
                PROVE  \/ /\ q < r /\ q < slot'[r]
                          /\ writers'[r][q] = [client |-> r, server |-> q, life |-> life'[r]]
                       \/ /\ r < q
                          /\ writers'[r][q].client = q
                          /\ writers'[r][q].server = r
    BY DEF WritersEnds
  <2>1. life' = life /\ slot'[r] \in Nat /\ slot[r] \in Nat /\ slot[r] <= slot'[r]
    BY DEF Greet, TypeOK
  <2>2. CASE r = p /\ q = slot[p]
    BY <1>0, <2>1, <2>2 DEF Greet, TypeOK, Dialling
  <2>3. CASE ~(r = p /\ q = slot[p])
    <3>1. writers'[r][q] = writers[r][q]
      BY <1>0, <2>3 DEF Greet, TypeOK
    <3>. QED  BY <2>1, <3>1 DEF Ends, WritersEnds
  <2>. QED  BY <2>2, <2>3
<1>. QED  BY <1>1, <1>2, <1>3, <1>4, <1>5 DEF Ends

\* What an accept leaves in the backlog: all but the first.
LEMMA AcceptQueues ==
  ASSUME TypeOK, Ends, NEW p \in Party, Accept(p)
  PROVE  /\ \A r \in Party : r # p => backlog'[r] = backlog[r]
         /\ Len(backlog[p]) \in Nat /\ Len(backlog[p]) > 0
         /\ Len(backlog'[p]) = Len(backlog[p]) - 1
         /\ \A i \in 1..Len(backlog[p]) - 1 : backlog'[p][i] = backlog[p][i + 1]
         /\ handshake'[p] = backlog[p][1]
         /\ backlog[p][1] \in Connection
         /\ backlog'[p] \in Seq(Connection)
<1>1. backlog[p] \in Seq(Connection) /\ backlog[p] # <<>>
  BY DEF Accept, TypeOK
<1>2. /\ Len(backlog[p]) \in Nat /\ Len(backlog[p]) > 0
      /\ backlog[p][1] \in Connection
  BY <1>1, EmptySeq, LenProperties, ElementOfSeq
<1>3. /\ Tail(backlog[p]) \in Seq(Connection)
      /\ Len(Tail(backlog[p])) = Len(backlog[p]) - 1
      /\ \A i \in 1..Len(backlog[p]) - 1 : Tail(backlog[p])[i] = backlog[p][i + 1]
      /\ Head(backlog[p]) = backlog[p][1]
  BY <1>1, HeadTailProperties
<1>. QED  BY <1>2, <1>3 DEF Accept, TypeOK

LEMMA AcceptEnds ==
  ASSUME TypeOK, Ends, NEW p \in Party, Accept(p)
  PROVE  TypeOK' /\ Ends'
<1>1. TypeOK'
  BY AcceptQueues DEF TypeOK, Phases, Accept
<1>2. IdleHoldsNothing'
  BY DEF Accept, TypeOK, Ends, IdleHoldsNothing, AllPresent
<1>3. HandshakeEnds'
  BY AcceptQueues DEF Accept, TypeOK, Ends, HandshakeEnds, BacklogEnds, Queue
<1>4. BacklogEnds'
  <2>. SUFFICES ASSUME NEW r \in Party, NEW i \in Queue(r)'
                PROVE  backlog'[r][i].server = r /\ r < backlog'[r][i].client
    BY DEF BacklogEnds
  <2>1. CASE r # p
    BY <2>1, AcceptQueues DEF Ends, BacklogEnds, Queue
  <2>2. CASE r = p
    <3>1. i + 1 \in Queue(p) /\ backlog'[r][i] = backlog[p][i + 1]
      BY <2>2, AcceptQueues DEF Queue
    <3>. QED  BY <2>2, <3>1 DEF Ends, BacklogEnds
  <2>. QED  BY <2>1, <2>2
<1>5. WritersEnds'
  BY DEF Accept, TypeOK, Ends, WritersEnds
<1>. QED  BY <1>1, <1>2, <1>3, <1>4, <1>5 DEF Ends

LEMMA IdentifyEnds ==
  ASSUME TypeOK, Ends, NEW p \in Party, Identify(p)
  PROVE  TypeOK' /\ Ends'
<1>. USE PartyRange, MeshAssumption
<1>0. /\ handshake[p] \in Connection /\ handshake[p].server = p
      /\ handshake[p].client \in Party /\ p < handshake[p].client
      /\ RemoteId(p) = handshake[p].client
      /\ slot[p] < N
  BY DEF Identify, TypeOK, Ends, HandshakeEnds, Connection, RemoteId
<1>1. TypeOK'
  <2>1. writers[p][RemoteId(p)] \in Connection \cup {NoConnection}
    <3>1. RemoteId(p) \in Party
      BY <1>0
    <3>2. writers[p] \in [Party -> Connection \cup {NoConnection}]
      BY DEF TypeOK
    <3>. QED  BY <3>1, <3>2
  <2>2. slot' \in [Party -> 0..N] /\ phase' \in [Party -> Phases]
    BY <1>0 DEF TypeOK, Phases, Identify
  <2>3. writers' \in [Party -> [Party -> Connection \cup {NoConnection}]]
    BY <1>0 DEF TypeOK, Identify
  <2>. QED  BY <2>1, <2>2, <2>3 DEF TypeOK, Identify
<1>2. IdleHoldsNothing'
  BY <1>0 DEF Identify, TypeOK, Ends, IdleHoldsNothing, AllPresent
<1>3. HandshakeEnds'
  BY DEF Identify, TypeOK, Ends, HandshakeEnds
<1>4. BacklogEnds'
  BY DEF Identify, TypeOK, Ends, BacklogEnds, Queue
<1>5. WritersEnds'
  <2>. SUFFICES ASSUME NEW r \in Party, NEW q \in Party, writers'[r][q] # NoConnection
                PROVE  \/ /\ q < r /\ q < slot'[r]
                          /\ writers'[r][q] = [client |-> r, server |-> q, life |-> life'[r]]
                       \/ /\ r < q
                          /\ writers'[r][q].client = q
                          /\ writers'[r][q].server = r
    BY DEF WritersEnds
  <2>1. life' = life /\ slot'[r] \in Nat /\ slot[r] \in Nat /\ slot[r] <= slot'[r]
    BY DEF Identify, TypeOK
  <2>2. CASE r = p /\ q = RemoteId(p)
    <3>1. writers'[r][q] = handshake[p]
      BY <1>0, <2>2 DEF Identify, TypeOK
    <3>. QED  BY <1>0, <2>2, <3>1
  <2>3. CASE ~(r = p /\ q = RemoteId(p))
    <3>1. writers'[r][q] = writers[r][q]
      BY <2>3 DEF Identify, TypeOK
    <3>. QED  BY <2>1, <3>1 DEF Ends, WritersEnds
  <2>. QED  BY <2>2, <2>3
<1>. QED  BY <1>1, <1>2, <1>3, <1>4, <1>5 DEF Ends

-----------------------------------------------------------------------------
(***************************************************************************)
(* The order of the connections of one client.                             *)
(***************************************************************************)
LEMMA ConnectionEnds ==
  \A c \in Connection : c # NoConnection /\ c.client \in Party /\ c.server \in Party /\ c.life \in Nat
BY NoConnectionAssumption DEF Connection

\* What p holds as a server was dialled by a higher party.
LEMMA ServerEnds ==
  ASSUME TypeOK, Ends, NEW p \in Party, NEW c \in Connection, Taken(p, c) \/ Queued(p, c)
  PROVE  c.server = p /\ p < c.client
<1>1. CASE Queued(p, c)
  BY <1>1 DEF Queued, Ends, BacklogEnds
<1>2. CASE Taken(p, c)
  <2>1. CASE phase[p] = "accepting" /\ handshake[p] = c
    BY <2>1 DEF Ends, HandshakeEnds
  <2>2. CASE p < c.client /\ writers[p][c.client] = c
    <3>1. c.client \in Party /\ writers[p][c.client] # NoConnection
      BY <2>2, ConnectionEnds
    <3>2. ~(c.client < p)
      BY <2>2, <3>1, PartyRange
    <3>3. writers[p][c.client].server = p
      BY <3>1, <3>2 DEF Ends, WritersEnds
    <3>. QED  BY <2>2, <3>3
  <2>. QED  BY <1>2, <2>1, <2>2 DEF Taken
<1>. QED  BY <1>1, <1>2

LEMMA BackloggedQueued ==
  ASSUME TypeOK, NEW p \in Party
  PROVE  \A c : c \in Backlogged(p) <=> Queued(p, c)
BY DEF Backlogged, Queued, Queue

\* p holds a connection as its server, or has dialled it in this life.
LEMMA HeldEnds ==
  ASSUME TypeOK, Ends, NEW p \in Party, NEW c \in Held(p)
  PROVE  \/ Taken(p, c) \/ Queued(p, c)
         \/ c.client = p /\ c.life = life[p]
<1>0. c \in Connection /\ c # NoConnection
  BY HeldTypes DEF Held
<1>1. CASE c \in Backlogged(p)
  BY <1>1, BackloggedQueued
<1>2. CASE c = handshake[p]
  <2>1. phase[p] \in {"dialling", "accepting"}
    BY <1>0, <1>2 DEF Ends, HandshakeEnds
  <2>2. CASE phase[p] = "accepting"
    BY <1>2, <2>2 DEF Taken
  <2>3. CASE phase[p] = "dialling"
    <3>1. c = [client |-> p, server |-> slot[p], life |-> life[p]]
      BY <1>2, <2>3 DEF Ends, HandshakeEnds
    <3>. QED  BY <3>1
  <2>. QED  BY <2>1, <2>2, <2>3
<1>3. ASSUME NEW q \in Party, c = writers[p][q]
      PROVE  Taken(p, c) \/ (c.client = p /\ c.life = life[p])
  <2>1. CASE c = [client |-> p, server |-> q, life |-> life[p]]
    BY <2>1
  <2>2. CASE p < q /\ c.client = q
    BY <1>3, <2>2 DEF Taken
  <2>. QED  BY <1>0, <1>3, <2>1, <2>2 DEF Ends, WritersEnds
<1>. QED  BY <1>1, <1>2, <1>3 DEF Held

LEMMA ServerHolds ==
  ASSUME TypeOK, Ends, NEW p \in Party, NEW c \in Connection, Taken(p, c) \/ Queued(p, c)
  PROVE  c \in Held(p)
<1>1. CASE Queued(p, c)
  BY <1>1, BackloggedQueued, ConnectionEnds DEF Held
<1>2. CASE Taken(p, c)
  BY <1>2, ConnectionEnds, PartyRange DEF Taken, Held
<1>. QED  BY <1>1, <1>2

\* The two kinds of connections that a client holds are of its present life.
LEMMA DiallingEnds ==
  ASSUME TypeOK, Ends, NEW p \in Party, phase[p] = "dialling"
  PROVE  /\ handshake[p] \in Connection /\ handshake[p].client = p
         /\ handshake[p].server = slot[p] /\ handshake[p].life = life[p]
         /\ slot[p] \in Party
<1>1. /\ handshake[p] = [client |-> p, server |-> slot[p], life |-> life[p]]
      /\ slot[p] < p
      /\ life[p] > 0
  BY DEF Ends, HandshakeEnds, IdleHoldsNothing
<1>2. slot[p] \in Nat /\ life[p] \in 1..MaxLives
  BY <1>1 DEF TypeOK
<1>3. slot[p] \in Party
  BY <1>1, <1>2, LowerParty
<1>. QED  BY <1>1, <1>2, <1>3 DEF Connection

LEMMA WriterEnds ==
  ASSUME TypeOK, Ends, NEW p \in Party, NEW q \in Party, q < p, writers[p][q] # NoConnection
  PROVE  /\ writers[p][q] \in Connection /\ writers[p][q].client = p
         /\ writers[p][q].server = q /\ writers[p][q].life = life[p]
         /\ q < slot[p]
<1>1. writers[p][q] \in Connection
  BY DEF TypeOK
<1>2. ~(p < q)
  BY PartyRange
<1>3. /\ q < slot[p]
      /\ writers[p][q] = [client |-> p, server |-> q, life |-> life[p]]
  BY <1>2 DEF Ends, WritersEnds
<1>. QED  BY <1>1, <1>3

\* What has been dialled is of no later life than its client.
LEMMA DialledLife ==
  ASSUME TypeOK, NEW c \in Connection, Dialled(c)
  PROVE  c.life <= life[c.client]
BY ConnectionEnds DEF Dialled, TypeOK

-----------------------------------------------------------------------------
(***************************************************************************)
(* One step, part by part: what a server holds, then the invariant.        *)
(***************************************************************************)
LEMMA OrderInit == Init => Order
BY ConnectionEnds
   DEF Init, Order, DialledBefore, InOrder, DiallingMatched, Matched, Taken, Queued, Queue

LEMMA DropHolds ==
  ASSUME TypeOK, Ends, NEW p \in Party, Drop(p)
  PROVE  /\ \A r \in Party, c \in Connection :
              /\ Taken(r, c)' <=> r # p /\ Taken(r, c)
              /\ Queued(r, c)' <=> r # p /\ Queued(r, c)
         /\ \A c \in Connection : Dialled(c) => Dialled(c)'
         /\ \A c \in Connection : c.client = p /\ c.life = life[p] => Dialled(c)'
<1>1. ASSUME NEW r \in Party, NEW c \in Connection
      PROVE  Taken(r, c)' <=> r # p /\ Taken(r, c)
  BY ConnectionEnds DEF Drop, TypeOK, Taken
<1>2. ASSUME NEW r \in Party, NEW c \in Connection
      PROVE  Queued(r, c)' <=> r # p /\ Queued(r, c)
  BY DEF Drop, TypeOK, Queued, Queue
<1>3. ASSUME NEW c \in Connection
      PROVE  /\ Dialled(c) => Dialled(c)'
             /\ c.client = p /\ c.life = life[p] => Dialled(c)'
  BY ConnectionEnds DEF Drop, TypeOK, Dialled
<1>. QED  BY <1>1, <1>2, <1>3

LEMMA DropOrder ==
  ASSUME TypeOK, Ends, Order, NEW p \in Party, Drop(p)
  PROVE  Order'
<1>0. broken' = broken \cup Held(p)
  BY DEF Drop
<1>1. DialledBefore'
  <2>. SUFFICES ASSUME NEW c \in Connection,
                       c \in broken' \/ \E r \in Party : Taken(r, c)' \/ Queued(r, c)'
                PROVE  Dialled(c)'
    BY DEF DialledBefore
  <2>1. CASE c \in Held(p)
    BY <2>1, HeldEnds, DropHolds DEF Order, DialledBefore
  <2>2. CASE c \notin Held(p)
    BY <1>0, <2>2, DropHolds DEF Order, DialledBefore
  <2>. QED  BY <2>1, <2>2
<1>2. InOrder'
  <2>1. \A r \in Party : r # p =>
          UNCHANGED <<phase[r], backlog[r], handshake[r], writers[r]>>
    BY DEF Drop, TypeOK
  <2>2. /\ backlog'[p] = <<>> /\ phase'[p] = "failed"
        /\ \A q \in Party : writers'[p][q] = NoConnection
    BY DEF Drop, TypeOK
  <2>. QED  BY <2>1, <2>2 DEF Order, InOrder, Queue, Older
\* A live connection to a third party is none that p holds.
<1>3. ASSUME NEW r \in Party, NEW q \in Party, NEW c \in Connection,
             r # p, q # p, c.client = r, c.server = q
      PROVE  c \in broken' <=> c \in broken
  BY <1>0, <1>3, HeldEnds, ServerEnds
<1>4. DiallingMatched'
  <2>. SUFFICES ASSUME NEW r \in Party, phase'[r] = "dialling"
                PROVE  (\/ Taken(slot[r], handshake[r])'
                        \/ Queued(slot[r], handshake[r])') <=> handshake'[r] \notin broken'
    BY DEF DiallingMatched
  <2>1. /\ r # p /\ phase[r] = "dialling"
        /\ slot'[r] = slot[r] /\ handshake'[r] = handshake[r]
    BY DEF Drop, TypeOK
  <2>2. handshake[r] \in Connection /\ handshake[r].client = r /\ handshake[r].server = slot[r]
        /\ slot[r] \in Party
    BY <2>1, DiallingEnds
  <2>3. (Taken(slot[r], handshake[r]) \/ Queued(slot[r], handshake[r])) <=> handshake[r] \notin broken
    BY <2>1 DEF Order, DiallingMatched
  <2>4. CASE slot[r] = p
    BY <1>0, <2>1, <2>2, <2>3, <2>4, ServerHolds, DropHolds
  <2>5. CASE slot[r] # p
    BY <1>3, <2>1, <2>2, <2>3, <2>5, DropHolds
  <2>. QED  BY <2>4, <2>5
<1>5. Matched'
  <2>. SUFFICES ASSUME NEW r \in Party, NEW q \in Party, q < r, writers'[r][q] # NoConnection
                PROVE  \/ Taken(q, writers[r][q])' /\ writers'[r][q] \notin broken'
                       \/ /\ writers'[r][q] \in broken'
                          /\ \A c \in Connection : c.client = r => ~Taken(q, c)' /\ ~Queued(q, c)'
    BY DEF Matched
  <2>1. r # p /\ writers'[r][q] = writers[r][q]
    BY DEF Drop, TypeOK
  <2>2. writers[r][q] \in Connection /\ writers[r][q].client = r /\ writers[r][q].server = q
    BY <2>1, WriterEnds
  <2>3. \/ Taken(q, writers[r][q]) /\ writers[r][q] \notin broken
        \/ /\ writers[r][q] \in broken
           /\ \A c \in Connection : c.client = r => ~Taken(q, c) /\ ~Queued(q, c)
    BY <2>1 DEF Order, Matched
  <2>4. CASE q = p
    BY <1>0, <2>1, <2>2, <2>3, <2>4, ServerHolds, DropHolds
  <2>5. CASE q # p
    BY <1>3, <2>1, <2>2, <2>3, <2>5, DropHolds
  <2>. QED  BY <2>4, <2>5
<1>. QED  BY <1>1, <1>2, <1>4, <1>5 DEF Order

\* Start, LoopBack and Greet leave the servers' ends of the connections as they are.
LEMMA QuietHolds ==
  ASSUME TypeOK, Ends, DialledBefore, NEW p \in Party, Start(p) \/ LoopBack(p) \/ Greet(p)
  PROVE  /\ \A r \in Party, c \in Connection :
              /\ Taken(r, c)' <=> Taken(r, c)
              /\ Queued(r, c)' <=> Queued(r, c)
         /\ \A c \in Connection : Dialled(c) => Dialled(c)'
         /\ UNCHANGED <<backlog, broken>>
         /\ \A r \in Party : /\ phase'[r] = "accepting" <=> phase[r] = "accepting"
                             /\ phase'[r] = "dialling" => phase[r] = "dialling" /\ r # p
                             /\ r # p \/ phase[r] = "accepting" =>
                                  handshake'[r] = handshake[r] /\ slot'[r] = slot[r]
         /\ \A r, q \in Party : r < q => writers'[r][q] = writers[r][q]
<1>. USE PartyRange
<1>1. CASE Start(p)
  <2>1. \A c \in Connection : Dialled(c) => Dialled(c)'
    BY <1>1, ConnectionEnds DEF Start, TypeOK, Dialled
  <2>. QED  BY <1>1, <2>1 DEF Start, TypeOK, Taken, Queued, Queue
<1>2. CASE LoopBack(p)
  <2>1. \A c \in Connection : Dialled(c) => Dialled(c)'
    BY <1>2, ConnectionEnds DEF LoopBack, TypeOK, Dialled
  <2>. QED  BY <1>2, <2>1 DEF LoopBack, TypeOK, Taken, Queued, Queue
<1>3. CASE Greet(p)
  <2>0. slot[p] \in Party /\ slot[p] < p
    BY <1>3, DiallingEnds DEF Greet, Ends, HandshakeEnds
  <2>1. \A c \in Connection : Dialled(c) => Dialled(c)'
    BY <1>3, ConnectionEnds DEF Greet, TypeOK, Dialled
  <2>2. \A r, q \in Party : r < q => writers'[r][q] = writers[r][q]
    BY <1>3, <2>0 DEF Greet, TypeOK
  <2>3. \A r \in Party : /\ phase'[r] = "accepting" <=> phase[r] = "accepting"
                         /\ phase'[r] = "dialling" => phase[r] = "dialling" /\ r # p
                         /\ r # p \/ phase[r] = "accepting" =>
                              handshake'[r] = handshake[r] /\ slot'[r] = slot[r]
    BY <1>3 DEF Greet, TypeOK
  <2>4. UNCHANGED <<backlog, broken>>
    BY <1>3 DEF Greet
  <2>. QED  BY <2>1, <2>2, <2>3, <2>4, ConnectionEnds DEF Taken, Queued, Queue
<1>. QED  BY <1>1, <1>2, <1>3

LEMMA QuietOrder ==
  ASSUME TypeOK, Ends, Order, NEW p \in Party, Start(p) \/ LoopBack(p) \/ Greet(p)
  PROVE  DialledBefore' /\ InOrder' /\ DiallingMatched'
<1>. USE QuietHolds DEF Order
<1>1. DialledBefore'
  BY DEF DialledBefore
<1>2. InOrder'
  <2>1. /\ backlog' = backlog
        /\ \A r \in Party : phase'[r] = "accepting" =>
             phase[r] = "accepting" /\ handshake'[r] = handshake[r]
        /\ \A r, q \in Party : r < q => writers'[r][q] = writers[r][q]
    OBVIOUS
  <2>2. InOrder
    BY DEF Order
  <2>. HIDE QuietHolds DEF Order
  <2>. QED  BY <2>1, <2>2 DEF InOrder, Queue, Older
<1>3. DiallingMatched'
  BY DiallingEnds DEF DiallingMatched
<1>. QED  BY <1>1, <1>2, <1>3

LEMMA StayMatched ==
  ASSUME TypeOK, Ends, Order, NEW p \in Party, Start(p) \/ LoopBack(p)
  PROVE  Matched'
<1>1. writers' = writers
  BY DEF Start, LoopBack
<1>. QED  BY <1>1, QuietHolds, WriterEnds DEF Order, Matched

\* The client has greeted while the server was accepting this very connection.
LEMMA GreetMatched ==
  ASSUME TypeOK, Ends, Order, NEW p \in Party, Greet(p)
  PROVE  Matched'
<1>. SUFFICES ASSUME NEW r \in Party, NEW q \in Party, q < r, writers'[r][q] # NoConnection
              PROVE  \/ Taken(q, writers[r][q])' /\ writers'[r][q] \notin broken'
                     \/ /\ writers'[r][q] \in broken'
                        /\ \A c \in Connection : c.client = r => ~Taken(q, c)' /\ ~Queued(q, c)'
  BY DEF Matched
<1>1. CASE r = p /\ q = slot[p]
  <2>1. handshake[p] \in Connection /\ writers'[r][q] = handshake[p]
    BY <1>1, DiallingEnds DEF Greet, TypeOK
  <2>2. Taken(q, handshake[p])
    BY <1>1 DEF Greet, Taken
  <2>3. handshake[p] \notin broken
    BY <1>1, <2>2 DEF Greet, Order, DiallingMatched
  <2>. QED  BY <2>1, <2>2, <2>3, QuietHolds DEF Order
<1>2. CASE ~(r = p /\ q = slot[p])
  <2>1. writers'[r][q] = writers[r][q]
    BY <1>2, DiallingEnds DEF Greet, TypeOK
  <2>. QED  BY <2>1, QuietHolds, WriterEnds DEF Order, Matched
<1>. QED  BY <1>1, <1>2

LEMMA CompleteHolds ==
  ASSUME TypeOK, Ends, NEW p \in Party, Complete(p)
  PROVE  /\ \A r \in Party, c \in Connection :
              /\ Taken(r, c)' <=> Taken(r, c)
              /\ Queued(r, c)' <=> r # p /\ Queued(r, c)
         /\ \A c \in Connection : Dialled(c) => Dialled(c)'
         /\ \A c \in Connection : c \in broken' <=> c \in broken \/ Queued(p, c)
<1>1. \A c \in Connection : Dialled(c) => Dialled(c)'
  BY ConnectionEnds DEF Complete, TypeOK, Dialled
<1>2. \A c \in Connection : c \in broken' <=> c \in broken \/ Queued(p, c)
  BY BackloggedQueued DEF Complete
<1>3. \A r \in Party, c \in Connection :  Queued(r, c)' <=> r # p /\ Queued(r, c)
  BY DEF Complete, TypeOK, Queued, Queue
<1>. QED  BY <1>1, <1>2, <1>3 DEF Complete, TypeOK, Taken

\* What a server has taken is not queued as well.
LEMMA TakenOnce ==
  ASSUME TypeOK, Ends, Order, NEW p \in Party, NEW c \in Connection, Taken(p, c)
  PROVE  ~Queued(p, c)
<1>1. ASSUME NEW i \in Queue(p), backlog[p][i] = c PROVE FALSE
  BY <1>1, ConnectionEnds DEF Order, InOrder, Older, Taken
<1>. QED  BY <1>1 DEF Queued

LEMMA CompleteOrder ==
  ASSUME TypeOK, Ends, Order, NEW p \in Party, Complete(p)
  PROVE  Order'
<1>. USE CompleteHolds
<1>1. DialledBefore'
  BY DEF Order, DialledBefore
<1>2. InOrder'
  BY DEF Complete, TypeOK, Order, InOrder, Queue
<1>3. DiallingMatched'
  <2>. SUFFICES ASSUME NEW r \in Party, phase'[r] = "dialling"
                PROVE  (\/ Taken(slot[r], handshake[r])'
                        \/ Queued(slot[r], handshake[r])') <=> handshake'[r] \notin broken'
    BY DEF DiallingMatched
  <2>1. phase[r] = "dialling" /\ slot' = slot /\ handshake' = handshake
    BY DEF Complete, TypeOK
  <2>2. handshake[r] \in Connection /\ handshake[r].server = slot[r] /\ slot[r] \in Party
    BY <2>1, DiallingEnds
  <2>3. (Taken(slot[r], handshake[r]) \/ Queued(slot[r], handshake[r])) <=> handshake[r] \notin broken
    BY <2>1 DEF Order, DiallingMatched
  <2>. QED  BY <2>1, <2>2, <2>3, TakenOnce, ServerEnds
<1>4. Matched'
  <2>. SUFFICES ASSUME NEW r \in Party, NEW q \in Party, q < r, writers[r][q] # NoConnection
                PROVE  \/ Taken(q, writers[r][q])' /\ writers[r][q] \notin broken'
                       \/ /\ writers[r][q] \in broken'
                          /\ \A c \in Connection : c.client = r => ~Taken(q, c)' /\ ~Queued(q, c)'
    BY DEF Matched, Complete
  <2>2. writers[r][q] \in Connection /\ writers[r][q].server = q /\ writers' = writers
    BY WriterEnds DEF Complete
  <2>. QED  BY <2>2, TakenOnce, ServerEnds DEF Order, Matched
<1>. QED  BY <1>1, <1>2, <1>3, <1>4 DEF Order

LEMMA DialHolds ==
  ASSUME TypeOK, Ends, NEW p \in Party, Dial(p)
  PROVE  /\ Dialling(p) \in Connection /\ slot[p] \in Party /\ slot[p] < p
         /\ \A r \in Party, c \in Connection :
              /\ Taken(r, c)' <=> Taken(r, c)
              /\ Queued(r, c)' <=> Queued(r, c) \/ (r = slot[p] /\ c = Dialling(p))
         /\ \A c \in Connection : Dialled(c) => Dialled(c)'
         /\ \A c \in Connection : c = Dialling(p) => Dialled(c)'
         /\ \A c \in Connection :
              Dialled(c) /\ c.client = p /\ c.server = slot[p] => c.life < life[p]
         /\ broken' = broken
<1>0. Dialling(p) \in Connection /\ slot[p] \in Party /\ slot[p] < p
  BY DialTypes DEF Dial
<1>1. ASSUME NEW r \in Party, NEW c \in Connection
      PROVE  Taken(r, c)' <=> Taken(r, c)
  BY DEF Dial, Dials, TypeOK, Taken
<1>2. ASSUME NEW r \in Party, NEW c \in Connection
      PROVE  Queued(r, c)' <=> Queued(r, c) \/ (r = slot[p] /\ c = Dialling(p))
  <2>1. CASE r # slot[p]
    BY <2>1, DialQueues DEF Queued, Queue
  <2>2. CASE r = slot[p]
    <3>1. Queue(r)' = Queue(r) \cup {Len(backlog[slot[p]]) + 1}
      BY <2>2, DialQueues DEF Queue
    <3>. QED  BY <2>2, <3>1, DialQueues DEF Queued, Queue
  <2>. QED  BY <2>1, <2>2
<1>3. \A c \in Connection : Dialled(c) => Dialled(c)'
  BY ConnectionEnds, PartyRange DEF Dial, Dials, TypeOK, Dialled
<1>4. ASSUME NEW c \in Connection, c = Dialling(p)
      PROVE  Dialled(c)'
  <2>1. c.client = p /\ c.server = slot[p] /\ c.life = life[p]
    BY <1>4 DEF Dialling
  <2>2. life' = life /\ slot' = slot /\ phase'[p] = "dialling"
    BY DEF Dial, TypeOK
  <2>. QED  BY <2>1, <2>2 DEF Dialled
<1>5. \A c \in Connection :
        Dialled(c) /\ c.client = p /\ c.server = slot[p] => c.life < life[p]
  BY <1>0, ConnectionEnds, PartyRange DEF Dial, Dials, Dialled
<1>. QED  BY <1>0, <1>1, <1>2, <1>3, <1>4, <1>5 DEF Dial

LEMMA DialOrder ==
  ASSUME TypeOK, Ends, Order, NEW p \in Party, Dial(p)
  PROVE  Order'
<1>1. DialledBefore'
  BY DialHolds DEF Order, DialledBefore
\* The server holds nothing from this life of the client, so the new one comes last.
<1>2. \A c \in Connection :
        Taken(slot[p], c) \/ Queued(slot[p], c) => Older(c, Dialling(p))
  <2>. SUFFICES ASSUME NEW c \in Connection, Taken(slot[p], c) \/ Queued(slot[p], c), c.client = p
                PROVE  c.life < life[p]
    BY DEF Older, Dialling
  <2>. QED  BY DialHolds, ServerEnds DEF Order, DialledBefore
<1>3. InOrder'
  <2>. PICK s \in Party : s = slot[p]
    BY DialHolds
  <2>. PICK last \in Nat : last = Len(backlog[s]) + 1
    BY LenProperties DEF TypeOK
  <2>1. /\ Dialling(p) \in Connection
        /\ Queue(s)' = Queue(s) \cup {last}
        /\ \A i \in Queue(s) : i < last /\ i \in Nat
        /\ \A i \in Queue(s) : backlog'[s][i] = backlog[s][i] /\ backlog[s][i] \in Connection
        /\ backlog'[s][last] = Dialling(p)
    <3>1. /\ Len(backlog'[s]) = last
          /\ \A i \in 1..last - 1 : backlog'[s][i] = backlog[s][i]
          /\ backlog'[s][last] = Dialling(p)
          /\ Queue(s) = 1..last - 1
      BY DialQueues DEF Queue
    <3>2. Queue(s)' = Queue(s) \cup {last}
      BY <3>1 DEF Queue
    <3>3. \A i \in Queue(s) : backlog[s][i] \in Connection
      BY ElementOfSeq DEF Queue, TypeOK
    <3>. QED  BY <3>1, <3>2, <3>3, DialHolds
  <2>2. /\ writers' = writers
        /\ \A r \in Party : /\ phase'[r] = "accepting" <=> phase[r] = "accepting"
                            /\ phase[r] = "accepting" => handshake'[r] = handshake[r]
    BY DEF Dial, Dials, TypeOK
  <2>3. \A r \in Party : r # s => backlog'[r] = backlog[r] /\ Queue(r)' = Queue(r)
    BY DialQueues DEF Queue
  <2>4. \A i \in Queue(s) : Older(backlog[s][i], Dialling(p))
    BY <1>2, <2>1 DEF Queued
  <2>5. phase[s] = "accepting" => Older(handshake[s], Dialling(p))
    BY <1>2, <2>1 DEF Taken, Ends, HandshakeEnds
  <2>6. \A q \in Party : s < q /\ writers[s][q] # NoConnection => Older(writers[s][q], Dialling(p))
    <3>. SUFFICES ASSUME NEW q \in Party, s < q, writers[s][q] # NoConnection
                  PROVE  Older(writers[s][q], Dialling(p))
      OBVIOUS
    <3>1. writers[s][q] \in Connection /\ writers[s][q].client = q
      <4>1. writers[s][q] \in Connection
        BY DEF TypeOK
      <4>2. ~(q < s)
        BY PartyRange
      <4>. QED  BY <4>1, <4>2 DEF Ends, WritersEnds
    <3>. QED  BY <1>2, <2>1, <3>1 DEF Taken
  <2>7. InOrder
    BY DEF Order
  <2>. SUFFICES ASSUME NEW r \in Party
                PROVE  /\ \A i, j \in Queue(r)' : i < j => Older(backlog'[r][i], backlog'[r][j])
                       /\ phase'[r] = "accepting" =>
                            \A i \in Queue(r)' : Older(handshake'[r], backlog'[r][i])
                       /\ \A q \in Party : r < q /\ writers'[r][q] # NoConnection =>
                            /\ \A i \in Queue(r)' : Older(writers'[r][q], backlog'[r][i])
                            /\ phase'[r] = "accepting" => Older(writers'[r][q], handshake'[r])
    BY DEF InOrder, Older
  <2>8. CASE r # s
    BY <2>2, <2>3, <2>7, <2>8 DEF InOrder
  <2>9. CASE r = s
    <3>1. \A i, j \in Queue(s)' : i < j => Older(backlog'[s][i], backlog'[s][j])
      <4>. SUFFICES ASSUME NEW i \in Queue(s)', NEW j \in Queue(s)', i < j
                    PROVE  Older(backlog'[s][i], backlog'[s][j])
        OBVIOUS
      <4>2. i \in Queue(s)
        BY <2>1
      <4>3. CASE j = last
        BY <2>1, <2>4, <4>2, <4>3
      <4>4. CASE j \in Queue(s)
        BY <2>1, <2>7, <4>2, <4>4 DEF InOrder
      <4>. QED  BY <2>1, <4>3, <4>4
    <3>2. phase'[s] = "accepting" => \A i \in Queue(s)' : Older(handshake'[s], backlog'[s][i])
      BY <2>1, <2>2, <2>5, <2>7 DEF InOrder
    <3>3. ASSUME NEW q \in Party, s < q, writers'[s][q] # NoConnection
          PROVE  /\ \A i \in Queue(s)' : Older(writers'[s][q], backlog'[s][i])
                 /\ phase'[s] = "accepting" => Older(writers'[s][q], handshake'[s])
      BY <2>1, <2>2, <2>6, <2>7, <3>3 DEF InOrder
    <3>. QED  BY <2>9, <3>1, <3>2, <3>3
  <2>. QED  BY <2>8, <2>9
<1>4. DiallingMatched'
  <2>. SUFFICES ASSUME NEW r \in Party, phase'[r] = "dialling"
                PROVE  (\/ Taken(slot[r], handshake[r])'
                        \/ Queued(slot[r], handshake[r])') <=> handshake'[r] \notin broken'
    BY DEF DiallingMatched
  <2>1. CASE r = p
    <3>1. handshake'[p] = Dialling(p) /\ slot' = slot
      BY DEF Dial, Dialling, TypeOK
    <3>2. Dialling(p) \notin broken
      <4>1. Dialling(p).client = p /\ Dialling(p).server = slot[p] /\ Dialling(p).life = life[p]
        BY DEF Dialling
      <4>2. ~(life[p] < life[p])
        BY DEF TypeOK
      <4>. QED  BY <4>1, <4>2, DialHolds DEF Order, DialledBefore
    <3>. QED  BY <2>1, <3>1, <3>2, DialHolds
  <2>2. CASE r # p
    <3>1. phase[r] = "dialling" /\ slot' = slot /\ handshake'[r] = handshake[r]
      BY <2>2 DEF Dial, TypeOK
    <3>2. handshake[r] \in Connection /\ handshake[r].client = r /\ slot[r] \in Party
      BY <3>1, DiallingEnds
    <3>3. handshake[r] # Dialling(p)
      BY <2>2, <3>2 DEF Dialling
    <3>. QED  BY <3>1, <3>2, <3>3, DialHolds DEF Order, DiallingMatched
  <2>. QED  BY <2>1, <2>2
<1>5. Matched'
  <2>. SUFFICES ASSUME NEW r \in Party, NEW q \in Party, q < r, writers[r][q] # NoConnection
                PROVE  \/ Taken(q, writers[r][q])' /\ writers[r][q] \notin broken'
                       \/ /\ writers[r][q] \in broken'
                          /\ \A c \in Connection : c.client = r => ~Taken(q, c)' /\ ~Queued(q, c)'
    BY DEF Matched, Dial
  <2>1. /\ writers[r][q] \in Connection /\ q < slot[r] /\ writers' = writers
    BY WriterEnds DEF Dial
  <2>2. ~(r = p /\ q = slot[p])
    BY <2>1, DialHolds, PartyRange
  <2>3. \A c \in Connection : c.client = r => (Queued(q, c)' <=> Queued(q, c))
    <3>1. Dialling(p).client = p
      BY DEF Dialling
    <3>. QED  BY <2>2, <3>1, DialHolds
  <2>. QED  BY <2>1, <2>3, DialHolds DEF Order, Matched
<1>. QED  BY <1>1, <1>3, <1>4, <1>5 DEF Order

LEMMA AcceptHolds ==
  ASSUME TypeOK, Ends, NEW p \in Party, Accept(p)
  PROVE  /\ backlog[p][1] \in Connection /\ 1 \in Queue(p) /\ Queued(p, backlog[p][1])
         /\ \A r \in Party, c \in Connection :
              /\ Taken(r, c)' <=> Taken(r, c) \/ (r = p /\ c = backlog[p][1])
              /\ Queued(r, c)' => Queued(r, c)
              /\ Queued(r, c) => Queued(r, c)' \/ (r = p /\ c = backlog[p][1])
         /\ \A c \in Connection : Dialled(c) => Dialled(c)'
         /\ broken' = broken
<1>1. backlog[p][1] \in Connection /\ 1 \in Queue(p) /\ Queued(p, backlog[p][1])
  BY AcceptQueues DEF Queue, Queued
<1>2. ASSUME NEW r \in Party, NEW c \in Connection
      PROVE  Taken(r, c)' <=> Taken(r, c) \/ (r = p /\ c = backlog[p][1])
  BY AcceptQueues DEF Accept, TypeOK, Taken
<1>3. ASSUME NEW r \in Party, NEW c \in Connection
      PROVE  /\ Queued(r, c)' => Queued(r, c)
             /\ Queued(r, c) => Queued(r, c)' \/ (r = p /\ c = backlog[p][1])
  <2>1. CASE r # p
    BY <2>1, AcceptQueues DEF Queued, Queue
  <2>2. CASE r = p
    <3>1. \A i \in 1..Len(backlog[p]) - 1 : i + 1 \in Queue(p)
      BY AcceptQueues DEF Queue
    <3>2. ASSUME NEW i \in Queue(p), i # 1
          PROVE  i - 1 \in 1..Len(backlog[p]) - 1 /\ backlog'[p][i - 1] = backlog[p][i]
      <4>1. i - 1 \in 1..Len(backlog[p]) - 1 /\ (i - 1) + 1 = i
        BY <3>2, AcceptQueues DEF Queue
      <4>. QED  BY <4>1, AcceptQueues
    <3>3. Queue(p)' = 1..Len(backlog[p]) - 1
      BY AcceptQueues DEF Queue
    <3>4. Queued(p, c)' => Queued(p, c)
      BY <3>1, <3>3, AcceptQueues DEF Queued
    <3>5. ASSUME NEW i \in Queue(p), backlog[p][i] = c, c # backlog[p][1]
          PROVE  Queued(p, c)'
      BY <3>2, <3>3, <3>5 DEF Queued
    <3>. QED  BY <2>2, <3>4, <3>5 DEF Queued
  <2>. QED  BY <2>1, <2>2
<1>4. \A c \in Connection : Dialled(c) => Dialled(c)'
  BY ConnectionEnds DEF Accept, TypeOK, Dialled
<1>. QED  BY <1>1, <1>2, <1>3, <1>4 DEF Accept

LEMMA AcceptInOrder ==
  ASSUME TypeOK, Ends, InOrder, NEW p \in Party, Accept(p)
  PROVE  InOrder'
<1>1. /\ writers' = writers
      /\ \A r \in Party : r # p =>
           UNCHANGED <<phase[r], backlog[r], handshake[r]>>
      /\ handshake'[p] = backlog[p][1]
  BY AcceptQueues DEF Accept, TypeOK
<1>2. \A i \in Queue(p)' : /\ i + 1 \in Queue(p) /\ 1 < i + 1
                           /\ backlog'[p][i] = backlog[p][i + 1]
  BY AcceptQueues DEF Queue
<1>3. \A i, j \in Queue(p)' : i < j => i + 1 < j + 1
  BY DEF Queue
<1>4. 1 \in Queue(p)
  BY AcceptHolds
<1>. SUFFICES ASSUME NEW r \in Party
              PROVE  /\ \A i, j \in Queue(r)' : i < j => Older(backlog'[r][i], backlog'[r][j])
                     /\ phase'[r] = "accepting" =>
                          \A i \in Queue(r)' : Older(handshake'[r], backlog'[r][i])
                     /\ \A q \in Party : r < q /\ writers'[r][q] # NoConnection =>
                          /\ \A i \in Queue(r)' : Older(writers'[r][q], backlog'[r][i])
                          /\ phase'[r] = "accepting" => Older(writers'[r][q], handshake'[r])
  BY DEF InOrder, Older
<1>5. CASE r # p
  BY <1>1, <1>5 DEF InOrder, Queue
<1>6. CASE r = p
  <2>1. \A i, j \in Queue(p)' : i < j => Older(backlog'[p][i], backlog'[p][j])
    BY <1>2, <1>3 DEF InOrder
  <2>2. \A i \in Queue(p)' : Older(handshake'[p], backlog'[p][i])
    BY <1>1, <1>2, <1>4 DEF InOrder
  <2>3. ASSUME NEW q \in Party, p < q, writers'[p][q] # NoConnection
        PROVE  /\ \A i \in Queue(p)' : Older(writers'[p][q], backlog'[p][i])
               /\ Older(writers'[p][q], handshake'[p])
    BY <1>1, <1>2, <1>4, <2>3 DEF InOrder
  <2>. QED  BY <1>6, <2>1, <2>2, <2>3
<1>. QED  BY <1>5, <1>6

LEMMA AcceptOrder ==
  ASSUME TypeOK, Ends, Order, NEW p \in Party, Accept(p)
  PROVE  Order'
<1>1. DialledBefore'
  BY AcceptHolds DEF Order, DialledBefore
<1>2. InOrder'
  BY AcceptInOrder DEF Order
<1>3. DiallingMatched'
  <2>. SUFFICES ASSUME NEW r \in Party, phase'[r] = "dialling"
                PROVE  (\/ Taken(slot[r], handshake[r])'
                        \/ Queued(slot[r], handshake[r])') <=> handshake'[r] \notin broken'
    BY DEF DiallingMatched
  <2>1. phase[r] = "dialling" /\ slot' = slot /\ handshake'[r] = handshake[r]
    BY DEF Accept, TypeOK
  <2>2. handshake[r] \in Connection /\ slot[r] \in Party
    BY <2>1, DiallingEnds
  <2>. QED  BY <2>1, <2>2, AcceptHolds DEF Order, DiallingMatched
<1>4. Matched'
  <2>. SUFFICES ASSUME NEW r \in Party, NEW q \in Party, q < r, writers[r][q] # NoConnection
                PROVE  \/ Taken(q, writers[r][q])' /\ writers[r][q] \notin broken'
                       \/ /\ writers[r][q] \in broken'
                          /\ \A c \in Connection : c.client = r => ~Taken(q, c)' /\ ~Queued(q, c)'
    BY DEF Matched, Accept
  <2>1. writers[r][q] \in Connection /\ writers' = writers
    BY WriterEnds DEF Accept
  <2>. QED  BY <2>1, AcceptHolds DEF Order, Matched
<1>. QED  BY <1>1, <1>2, <1>3, <1>4 DEF Order

LEMMA IdentifyHolds ==
  ASSUME TypeOK, Ends, Order, NEW p \in Party, Identify(p)
  PROVE  /\ handshake[p] \in Connection
         /\ RemoteId(p) = handshake[p].client /\ RemoteId(p) \in Party /\ p < RemoteId(p)
         /\ \A r \in Party, c \in Connection :
              /\ Taken(r, c)' => Taken(r, c)
              /\ Taken(r, c) /\ c # writers[p][RemoteId(p)] => Taken(r, c)'
              /\ Queued(r, c)' <=> Queued(r, c)
         /\ \A c \in Connection : Dialled(c) => Dialled(c)'
         /\ \A c \in Connection :
              c \in broken' <=> c \in broken \/ c = writers[p][RemoteId(p)]
         /\ \A c \in Connection : c = writers[p][RemoteId(p)] =>
              Taken(p, c) /\ c.life < life[c.client]
<1>1. /\ handshake[p] \in Connection /\ RemoteId(p) \in Party
      /\ RemoteId(p) = handshake[p].client /\ p < RemoteId(p)
  BY ConnectionEnds DEF Identify, Ends, HandshakeEnds, RemoteId
<1>2. ASSUME NEW r \in Party, NEW c \in Connection
      PROVE  /\ Taken(r, c)' => Taken(r, c)
             /\ Taken(r, c) /\ c # writers[p][RemoteId(p)] => Taken(r, c)'
  <2>1. CASE r # p
    BY <2>1 DEF Identify, TypeOK, Taken
  <2>2. CASE r = p
    <3>1. phase[p] = "accepting" /\ phase'[p] = "loop"
      BY DEF Identify, TypeOK
    <3>2. \A q \in Party : writers'[p][q] = IF q = RemoteId(p) THEN handshake[p] ELSE writers[p][q]
      BY <1>1 DEF Identify, TypeOK
    <3>. QED  BY <1>1, <2>2, <3>1, <3>2, ConnectionEnds DEF Taken
  <2>. QED  BY <2>1, <2>2
<1>3. \A r \in Party, c \in Connection : Queued(r, c)' <=> Queued(r, c)
  BY DEF Identify, Queued, Queue
<1>4. \A c \in Connection : Dialled(c) => Dialled(c)'
  <2>1. /\ life' = life /\ phase[p] = "accepting"
        /\ \A r \in Party : slot[r] \in Nat /\ slot'[r] \in Nat /\ slot[r] <= slot'[r]
        /\ \A r \in Party : r # p => slot'[r] = slot[r] /\ phase'[r] = phase[r]
    BY DEF Identify, TypeOK
  <2>. SUFFICES ASSUME NEW c \in Connection, Dialled(c) PROVE Dialled(c)'
    OBVIOUS
  <2>2. c.client \in Party /\ c.server \in Nat
    BY ConnectionEnds, PartyRange
  <2>3. CASE c.client # p
    BY <2>1, <2>2, <2>3 DEF Dialled
  <2>4. CASE c.client = p
    <3>1. \/ c.life < life[p]
          \/ c.life = life[p] /\ c.server < slot'[p]
      BY <2>1, <2>2, <2>4 DEF Dialled
    <3>. QED  BY <2>1, <2>4, <3>1 DEF Dialled
  <2>. QED  BY <2>3, <2>4
<1>5. \A c \in Connection :
        c \in broken' <=> c \in broken \/ c = writers[p][RemoteId(p)]
  BY ConnectionEnds DEF Identify
\* A second connection of the same client: the first is of an earlier life.
<1>6. ASSUME NEW c \in Connection, c = writers[p][RemoteId(p)]
      PROVE  Taken(p, c) /\ c.life < life[c.client]
  <2>1. c # NoConnection /\ ~(RemoteId(p) < p)
    BY <1>1, ConnectionEnds, PartyRange
  <2>2. c.client = RemoteId(p)
    BY <1>1, <1>6, <2>1 DEF Ends, WritersEnds
  <2>3. c.life < handshake[p].life
    BY <1>1, <1>6, <2>1, <2>2 DEF Identify, Order, InOrder, Older
  <2>4. handshake[p].life <= life[RemoteId(p)]
    BY <1>1, DialledLife DEF Identify, Taken, Order, DialledBefore
  <2>5. c.life \in Nat /\ handshake[p].life \in Nat /\ life[RemoteId(p)] \in Nat
    BY <1>1, ConnectionEnds DEF TypeOK
  <2>. QED  BY <1>1, <1>6, <2>2, <2>3, <2>4, <2>5 DEF Taken
<1>. QED  BY <1>1, <1>2, <1>3, <1>4, <1>5, <1>6

LEMMA IdentifyOrder ==
  ASSUME TypeOK, Ends, Order, NEW p \in Party, Identify(p)
  PROVE  Order'
<1>1. DialledBefore'
  BY IdentifyHolds DEF Order, DialledBefore
<1>2. InOrder'
  <2>1. /\ backlog' = backlog
        /\ phase[p] = "accepting"
        /\ \A r \in Party : phase'[r] = "accepting" =>
             r # p /\ phase[r] = "accepting" /\ handshake'[r] = handshake[r]
        /\ \A r, q \in Party :
             writers'[r][q] = IF r = p /\ q = RemoteId(p) THEN handshake[p] ELSE writers[r][q]
    BY IdentifyHolds DEF Identify, TypeOK
  <2>2. InOrder
    BY DEF Order
  <2>. QED  BY <2>1, <2>2 DEF InOrder, Queue, Older
<1>3. DiallingMatched'
  <2>. SUFFICES ASSUME NEW r \in Party, phase'[r] = "dialling"
                PROVE  (\/ Taken(slot[r], handshake[r])'
                        \/ Queued(slot[r], handshake[r])') <=> handshake'[r] \notin broken'
    BY DEF DiallingMatched
  <2>1. phase[r] = "dialling" /\ slot'[r] = slot[r] /\ handshake'[r] = handshake[r]
    BY DEF Identify, TypeOK
  <2>2. /\ handshake[r] \in Connection /\ slot[r] \in Party
        /\ handshake[r].client = r /\ handshake[r].life = life[r]
    BY <2>1, DiallingEnds
  <2>3. handshake[r] # writers[p][RemoteId(p)]
    <3>1. ~(life[r] < life[r])
      BY DEF TypeOK
    <3>. QED  BY <2>2, <3>1, IdentifyHolds
  <2>. QED  BY <2>1, <2>2, <2>3, IdentifyHolds DEF Order, DiallingMatched
<1>4. Matched'
  <2>. SUFFICES ASSUME NEW r \in Party, NEW q \in Party, q < r, writers'[r][q] # NoConnection
                PROVE  \/ Taken(q, writers[r][q])' /\ writers'[r][q] \notin broken'
                       \/ /\ writers'[r][q] \in broken'
                          /\ \A c \in Connection : c.client = r => ~Taken(q, c)' /\ ~Queued(q, c)'
    BY DEF Matched
  <2>1. writers'[r][q] = writers[r][q]
    <3>1. ~(r = p /\ q = RemoteId(p))
      BY IdentifyHolds, PartyRange
    <3>. QED  BY <3>1 DEF Identify, TypeOK
  <2>2. /\ writers[r][q] \in Connection
        /\ writers[r][q].client = r /\ writers[r][q].life = life[r]
    BY <2>1, WriterEnds
  <2>3. writers[r][q] # writers[p][RemoteId(p)]
    <3>1. ~(life[r] < life[r])
      BY DEF TypeOK
    <3>. QED  BY <2>2, <3>1, IdentifyHolds
  <2>. QED  BY <2>1, <2>2, <2>3, IdentifyHolds DEF Order, Matched
<1>. QED  BY <1>1, <1>2, <1>3, <1>4 DEF Order

-----------------------------------------------------------------------------
(***************************************************************************)
(* The theorems.                                                           *)
(***************************************************************************)
LEMMA MeshStep ==
  ASSUME TypeOK, Ends, Order, [Next]_vars
  PROVE  TypeOK' /\ Ends' /\ Order'
<1>1. ASSUME NEW p \in Party, Drop(p), phase[p] # "off"
      PROVE  TypeOK' /\ Ends' /\ Order'
  <2>1. life[p] > 0
    BY <1>1 DEF Ends, IdleHoldsNothing
  <2>. QED  BY <1>1, <2>1, DropEnds, DropOrder
<1>2. ASSUME NEW p \in Party, Start(p) PROVE TypeOK' /\ Ends' /\ Order'
  BY <1>2, StartEnds, QuietOrder, StayMatched DEF Order
<1>3. ASSUME NEW p \in Party, Crash(p) PROVE TypeOK' /\ Ends' /\ Order'
  BY <1>1, <1>3 DEF Crash
<1>4. ASSUME NEW p \in Party, DialTimeout(p) PROVE TypeOK' /\ Ends' /\ Order'
  BY <1>1, <1>4 DEF DialTimeout, Dials
<1>5. ASSUME NEW p \in Party, Complete(p) PROVE TypeOK' /\ Ends' /\ Order'
  BY <1>5, CompleteEnds, CompleteOrder
<1>6. ASSUME NEW p \in Party, PeerMissing(p) PROVE TypeOK' /\ Ends' /\ Order'
  BY <1>1, <1>6 DEF PeerMissing
<1>7. ASSUME NEW p \in Party, LoopBack(p) PROVE TypeOK' /\ Ends' /\ Order'
  BY <1>7, LoopBackEnds, QuietOrder, StayMatched DEF Order
<1>8. ASSUME NEW p \in Party, Dial(p) PROVE TypeOK' /\ Ends' /\ Order'
  BY <1>8, DialEnds, DialOrder
<1>9. ASSUME NEW p \in Party, Greet(p) PROVE TypeOK' /\ Ends' /\ Order'
  BY <1>9, GreetEnds, QuietOrder, GreetMatched DEF Order
<1>10. ASSUME NEW p \in Party, DialError(p) PROVE TypeOK' /\ Ends' /\ Order'
  BY <1>1, <1>10 DEF DialError
<1>11. ASSUME NEW p \in Party, Accept(p) PROVE TypeOK' /\ Ends' /\ Order'
  BY <1>11, AcceptEnds, AcceptOrder
<1>12. ASSUME NEW p \in Party, Identify(p) PROVE TypeOK' /\ Ends' /\ Order'
  BY <1>12, IdentifyEnds, IdentifyOrder
<1>13. ASSUME NEW p \in Party, AcceptError(p) PROVE TypeOK' /\ Ends' /\ Order'
  BY <1>1, <1>13 DEF AcceptError
<1>14. CASE UNCHANGED vars
  <2>1. TypeOK'
    BY <1>14 DEF vars, TypeOK
  <2>2. Ends'
    BY <1>14 DEF vars, Ends, IdleHoldsNothing, AllPresent, HandshakeEnds, BacklogEnds, Queue,
                 WritersEnds
  <2>3. Order'
    BY <1>14 DEF vars, Order, DialledBefore, Dialled, Taken, Queued, Queue, InOrder,
                 DiallingMatched, Matched
  <2>. QED  BY <2>1, <2>2, <2>3
<1>. QED
  BY <1>2, <1>3, <1>4, <1>5, <1>6, <1>7, <1>8, <1>9, <1>10, <1>11, <1>12, <1>13, <1>14
     DEF Next, CreateStep

\* The inductive invariant.
LEMMA MeshInvariant == Spec => [](TypeOK /\ Ends /\ Order)
<1>1. Init => TypeOK /\ Ends /\ Order
  BY EndsInit, OrderInit
<1>2. TypeOK /\ Ends /\ Order /\ [Next]_vars => (TypeOK /\ Ends /\ Order)'
  BY MeshStep
<1>. QED  BY <1>1, <1>2, PTL DEF Spec

\* Connections stay connections: every slot, backlog and handshake of create() holds
\* what a client dialled, whatever crashes and restarts.
THEOREM MeshTypes == Spec => []TypeOK
BY MeshInvariant, PTL

\* However many parties come up, die and come back in whatever order, create() files a
\* connection under the party at its other end, and never under the loop's slot.
THEOREM FiledRight == Spec => []FiledByPeer
<1>1. TypeOK /\ Ends => FiledByPeer
  <2>. SUFFICES ASSUME Ends, NEW p \in Party, NEW q \in Party, writers[p][q] # NoConnection
                PROVE  {writers[p][q].client, writers[p][q].server} = {p, q}
    BY DEF FiledByPeer
  <2>1. CASE writers[p][q] = [client |-> p, server |-> q, life |-> life[p]]
    BY <2>1
  <2>2. CASE writers[p][q].client = q /\ writers[p][q].server = p
    BY <2>2
  <2>. QED  BY <2>1, <2>2 DEF Ends, WritersEnds
<1>. QED  BY <1>1, MeshInvariant, PTL

\* Two parties whose create() has returned hold the two ends of one connection that
\* neither has dropped, for any number of parties and of restarts during set-up.
THEOREM MeshConnected == Spec => []MeshSymmetric
<1>1. ASSUME TypeOK, Ends, Order,
             NEW p \in Party, NEW q \in Party, p < q, phase[p] = "ready", phase[q] = "ready"
      PROVE  writers[p][q] = writers[q][p] /\ writers[p][q] \notin broken
  <2>1. writers[p][q] # NoConnection /\ writers[q][p] # NoConnection
    BY <1>1, PartyRange DEF Ends, IdleHoldsNothing, AllPresent
  <2>2. writers[p][q] \in Connection /\ writers[p][q].client = q
    <3>1. ~(q < p)
      BY <1>1, PartyRange
    <3>2. writers[p][q].client = q
      BY <1>1, <2>1, <3>1 DEF Ends, WritersEnds
    <3>3. writers[p][q] \in Connection
      BY <1>1, <2>1 DEF TypeOK
    <3>. QED  BY <3>2, <3>3
  <2>3. Taken(p, writers[p][q])
    BY <1>1, <2>2 DEF Taken
  <2>4. Taken(p, writers[q][p]) /\ writers[q][p] \notin broken
    BY <1>1, <2>1, <2>2, <2>3 DEF Order, Matched
  <2>5. writers[q][p].client = q
    BY <1>1, <2>1, WriterEnds
  <2>. QED  BY <1>1, <2>4, <2>5 DEF Taken
<1>2. ASSUME TypeOK, Ends, Order PROVE MeshSymmetric
  <2>1. \A p, q \in Party : p # q => p < q \/ q < p
    BY PartyRange
  <2>2. \A p, q \in Party : p # q /\ phase[p] = "ready" => writers[p][q] # NoConnection
    BY <1>2 DEF Ends, IdleHoldsNothing, AllPresent
  <2>. QED  BY <1>1, <1>2, <2>1, <2>2 DEF MeshSymmetric
<1>. QED  BY <1>2, MeshInvariant, PTL

=============================================================================
