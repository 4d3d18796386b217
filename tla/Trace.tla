-------------------------------- MODULE Trace --------------------------------
(***************************************************************************)
(* The traces of a simulated run: the events a party records while its     *)
(* protocols run (Protocol::execute, drive_party_to_completion,            *)
(* Switchboard::record_event), the hook that counts bytes as they are sent *)
(* (hook.rs) and the indentation of a printed trace (Display for           *)
(* SimulationTrace).  The report rebuilt from a trace is TraceReports.     *)
(*                                                                         *)
(* Every action is one of module Simulator together with the events it     *)
(* records; the delay of a packet is the one its size costs on the link.   *)
(* A party's protocol is arbitrary: it may also execute sub-protocols,     *)
(* each of which returns a value or an error, and the caller of one that   *)
(* failed may go on or fail in turn.                                       *)
(***************************************************************************)
EXTENDS Simulator, Packets, Channels

CONSTANTS
  Config,         \* the channel configuration of the simulated network
  PacketChoices,  \* the packets a protocol may send
  RootProtocol,   \* the id of the protocol given to simulate()
  SubProtocols,   \* the ids of the protocols it may execute
  Simulation,     \* the id of the synthetic root, "<simulation>"
  MaxCalls        \* bound: MaxCalls[p] protocols executed by party p

ProtocolId == {RootProtocol, Simulation} \cup SubProtocols

ASSUME TraceAssumption ==
  /\ IsValidConfig(Config)
  /\ PacketChoices \subseteq Seq(Element)
  /\ \A l \in Link, packet \in PacketChoices :
       MessageDelay(ChannelConfig(Config, l), Size(packet)) \in Delays
  /\ MaxCalls \in [Party -> Nat \ {0}]

VARIABLES
  packets,        \* packets[l]: the packets sent on l, in order
  calls,          \* calls[p]: the protocols p is running, outermost first
  traces,         \* traces[p]: the events p recorded
  metric,         \* the counters of a MetricHook registered for the run
  spent           \* history: spent[p][c]: bytes p sent to others while calls[p] = c

traceVars == <<packets, calls, traces, metric, spent>>

Delay(l, packet) == MessageDelay(ChannelConfig(Config, l), Size(packet))

-----------------------------------------------------------------------------
(***************************************************************************)
(* Events.  The variants Killed, Cancelled, CloseChannel and Sleep are     *)
(* never recorded.  All carry the virtual time of the party.               *)
(***************************************************************************)
Start(p) == [type |-> "Start", timestamp |-> clocks[p]]

Stop(p) == [type |-> "Stop", timestamp |-> clocks[p]]

Output(p) == [type |-> "Output", timestamp |-> clocks[p]]

ProtocolBegin(p, id) ==
  [type |-> "ProtocolBegin", timestamp |-> clocks[p], protocol_name |-> id]

ProtocolEnd(p, id) ==
  [type |-> "ProtocolEnd", timestamp |-> clocks[p], protocol_name |-> id]

Transfer(type, p, l, packet) ==
  [type |-> type, timestamp |-> clocks[p], link |-> l, size |-> Size(packet),
   content_count |-> Composition(packet)]

SendData(p, l, packet) == Transfer("SendData", p, l, packet)

ReceiveData(p, l, packet) == Transfer("ReceiveData", p, l, packet)

Loopback(l) == l[1] = l[2]

-----------------------------------------------------------------------------
(***************************************************************************)
(* MetricHook, and record_event: append to the party's trace, then run the *)
(* hooks whose trigger is the type of the event.                           *)
(***************************************************************************)
NoBytes == [total |-> 0, by |-> <<>>]

\* A party has no entry until it first sends to another.
BytesBy(m, p) == IF p \in DOMAIN m.by THEN m.by[p] ELSE 0

\* Fault: what a party sends to itself is counted.
CountsLoopback(event) == event.type = "SendData"

Counts(event) == event.type = "SendData" /\ ~Loopback(event.link)

MetricHook(m, event) ==
  IF ~Counts(event) THEN m ELSE
    LET sender == event.link[1]
    IN  [total |-> m.total + event.size,
         by |-> [p \in DOMAIN m.by \cup {sender} |->
                   IF p = sender THEN BytesBy(m, p) + event.size ELSE m.by[p]]]

\* The events are recorded one after the other, within one poll of the task.
Record(p, recorded) ==
  /\ traces' = [traces EXCEPT ![p] = @ \o recorded]
  /\ metric' = FoldLeft(MetricHook, metric, recorded)

-----------------------------------------------------------------------------
(***************************************************************************)
(* The party's task: drive_party_to_completion, Protocol::execute and the  *)
(* operations of SimNetwork.                                               *)
(***************************************************************************)
Calling(p) == Last(calls[p])

Executed(p) == Cardinality({i \in DOMAIN traces[p] : traces[p][i].type = "ProtocolBegin"})

\* The first poll of a task: Start, then the top-level protocol begins.
StartParty(p) ==
  /\ StartTask(p)
  /\ calls' = [calls EXCEPT ![p] = <<RootProtocol>>]
  /\ Record(p, <<Start(p), ProtocolBegin(p, RootProtocol)>>)
  /\ UNCHANGED <<packets, spent>>

\* A running protocol executes a sub-protocol.
Execute(p, id) ==
  /\ status = "running" /\ current = p
  /\ Executed(p) < MaxCalls[p]
  /\ calls' = [calls EXCEPT ![p] = Append(@, id)]
  /\ Record(p, <<ProtocolBegin(p, id)>>)
  /\ UNCHANGED <<packets, spent>>
  /\ UNCHANGED vars

\* Fault: an error is propagated before the end of the protocol is recorded.
EndMarkerOnSuccess(p, result) ==
  IF result = "Ok" THEN <<ProtocolEnd(p, Calling(p))>> ELSE <<>>

\* The end is recorded whatever `run` returned.
EndMarker(p, result) == <<ProtocolEnd(p, Calling(p))>>

\* A sub-protocol returns a value or an error to its caller.
Return(p, result) ==
  /\ status = "running" /\ current = p
  /\ Len(calls[p]) > 1
  /\ calls' = [calls EXCEPT ![p] = Front(@)]
  /\ Record(p, EndMarker(p, result))
  /\ UNCHANGED <<packets, spent>>
  /\ UNCHANGED vars

\* The top-level protocol returns its output: the party is done.
Complete(p) ==
  /\ Finish(p)
  /\ Len(calls[p]) = 1
  /\ calls' = [calls EXCEPT ![p] = <<>>]
  /\ Record(p, EndMarker(p, "Ok") \o <<Output(p), Stop(p)>>)
  /\ UNCHANGED <<packets, spent>>

\* The top-level protocol returns an error: the driver panics.
Panic(p) ==
  /\ Fail(p)
  /\ Len(calls[p]) = 1
  /\ calls' = [calls EXCEPT ![p] = <<>>]
  /\ Record(p, EndMarker(p, "Err"))
  /\ UNCHANGED <<packets, spent>>

Spent(p, bytes) ==
  [c \in DOMAIN spent[p] \cup {calls[p]} |->
     (IF c \in DOMAIN spent[p] THEN spent[p][c] ELSE 0)
       + (IF c = calls[p] THEN bytes ELSE 0)]

\* The event is recorded before the delivery is scheduled.
SendPacket(p, to, packet) ==
  LET l == <<p, to>>
  IN  /\ Send(p, to, Delay(l, packet))
      /\ packets' = [packets EXCEPT ![l] = Append(@, packet)]
      /\ spent' = IF Loopback(l) THEN spent
                                 ELSE [spent EXCEPT ![p] = Spent(p, Size(packet))]
      /\ Record(p, <<SendData(p, l, packet)>>)
      /\ UNCHANGED calls

\* try_recv and its variants record the packet they return, at the clock of the
\* recipient, when the receive finds it: not when it was delivered.
RecordReceipt(p) ==
  /\ IF received' = received
       THEN Record(p, <<>>)
       ELSE \E l \in Link :
              /\ received'[l] # received[l]
              /\ Record(p, <<ReceiveData(p, l, packets[l][received'[l]])>>)
  /\ UNCHANGED <<packets, calls, spent>>

ReceivePacket(p) ==
  /\ \/ \E s \in Party : RecvFrom(p, s)
     \/ RecvFromAny(p)
     \/ \E s \in Party, timeout \in Timeouts : RecvFromWithTimeout(p, s, timeout)
     \/ \E timeout \in Timeouts : RecvAnyWithTimeout(p, timeout)
  /\ RecordReceipt(p)

ResumeReceive(p) == ResumeTask(p) /\ RecordReceipt(p)

\* Delivering a packet, firing a timer and the deadlock panic record nothing.
Silent ==
  /\ \/ \E e \in events : DeliverPacket(e) \/ FireTimer(e)
     \/ Deadlock
     \/ Ended
  /\ UNCHANGED traceVars

-----------------------------------------------------------------------------
TraceInit ==
  /\ Init
  /\ packets = [l \in Link |-> <<>>]
  /\ calls = [p \in Party |-> <<>>]
  /\ traces = [p \in Party |-> <<>>]
  /\ metric = NoBytes
  /\ spent = [p \in Party |-> <<>>]

PartyStep(p) ==
  \/ StartParty(p)
  \/ \E id \in SubProtocols : Execute(p, id)
  \/ \E result \in {"Ok", "Err"} : Return(p, result)
  \/ Complete(p)
  \/ Panic(p)
  \/ \E to \in Party, packet \in PacketChoices : SendPacket(p, to, packet)
  \/ ReceivePacket(p)
  \/ ResumeReceive(p)

TraceNext == Silent \/ \E p \in Party : PartyStep(p)

TraceSpec == TraceInit /\ [][TraceNext]_<<vars, traceVars>>

-----------------------------------------------------------------------------
\* Display: the depth of the lines after an event (saturating_sub on an end).
Indent(depth, event) ==
  CASE event.type = "ProtocolBegin" -> depth + 1
    [] event.type = "ProtocolEnd" -> IF depth = 0 THEN 0 ELSE depth - 1
    [] OTHER -> depth

DisplayDepth(trace) == FoldLeft(Indent, 0, trace)

-----------------------------------------------------------------------------
(***************************************************************************)
(* Properties.                                                             *)
(***************************************************************************)
TransferType == {"SendData", "ReceiveData"}

\* The transfers in a trace by type and link, each list in the order of the trace.
NoTransfers == [type \in TransferType |-> [l \in Link |-> <<>>]]

Transferred(found, event) ==
  IF event.type \in TransferType
    THEN [found EXCEPT ![event.type][event.link] = Append(@, event)]
    ELSE found

Transfers(trace) == FoldLeft(Transferred, NoTransfers, trace)

\* The scopes a trace leaves open: an end closes the innermost one, of its name.
Scopes(open, event) ==
  CASE event.type = "ProtocolBegin" -> Append(open, event.protocol_name)
    [] event.type = "ProtocolEnd" ->
         IF open # <<>> /\ Last(open) = event.protocol_name THEN Front(open)
                                                          ELSE Append(open, "mismatch")
    [] OTHER -> open

OpenScopes(trace) == FoldLeft(Scopes, <<>>, trace)

\* The elements that a breakdown counts.
AddCount(sum, part) == sum + part[2]

Total(parts) == FoldLeft(AddCount, 0, parts)

\* A trace tells the life of its party (Protocol::execute, drive_party_to_completion
\* and the Display of SimulationTrace): Start first, the scopes open in it are the
\* calls the party is in, whether earlier ones returned a value or an error, so that
\* the printed trace is indented by them; virtual time never goes back; and Output
\* and Stop close the trace of a party that finished, and of no other.
TracesNest ==
  \A p \in Party :
    LET trace == traces[p]
    IN  /\ OpenScopes(trace) = calls[p]
        /\ DisplayDepth(trace) = Len(calls[p])
        /\ \A i, j \in DOMAIN trace :
             i < j => trace[i].timestamp <= trace[j].timestamp
        /\ \A i \in DOMAIN trace :
             /\ trace[i].timestamp <= clocks[p]
             /\ trace[i].type = "Start" <=> i = 1
             /\ trace[i].type = "Output" <=> p \in finished /\ i = Len(trace) - 1
             /\ trace[i].type = "Stop" <=> p \in finished /\ i = Len(trace)
        /\ p \in finished => Len(trace) >= 2

\* The traces of the two ends of a link tell the same story (Switchboard::send and
\* try_recv): the packets received are the first ones sent, in order, with the same
\* size and breakdown into labels; the breakdown counts every element, under its
\* label or as unknown; and no packet is received before it, or one sent before it
\* on the link, has travelled for the delay of its size.
TransfersMatch ==
  \A l \in Link :
    LET out == Transfers(traces[l[1]])["SendData"][l]
        in == Transfers(traces[l[2]])["ReceiveData"][l]
    IN  /\ Len(in) <= Len(out)
        /\ \A k \in DOMAIN in :
             /\ in[k].size = out[k].size
             /\ in[k].content_count = out[k].content_count
             /\ \A i \in 1..k :
                  in[k].timestamp >= out[i].timestamp
                    + MessageDelay(ChannelConfig(Config, l), out[i].size)
        /\ \A k \in DOMAIN out :
             LET parts == out[k].content_count
             IN  /\ Total(parts) = Len(packets[l][k])
                 /\ \A i, j \in DOMAIN parts : parts[i][1] = parts[j][1] => i = j

=============================================================================
