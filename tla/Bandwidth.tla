------------------------------ MODULE Bandwidth ------------------------------
(***************************************************************************)
(* The bytes each protocol call of a simulated run sends, three times:     *)
(* counted by the MetricHook while the events are recorded, kept by the    *)
(* model as they are sent, and found afterwards in the traces.  Module     *)
(* TraceReports models how the code finds them there, rebuilding the tree  *)
(* of the calls; here the calls are listed in the order they begin, which  *)
(* is also the order in which the report walks the tree.                   *)
(***************************************************************************)
EXTENDS Trace

\* The calls found so far, each with the chain of protocols that led to it and the
\* bytes it sent itself, and those of them that have not ended, innermost last.
NewCall(path) == [path |-> path, bytes |-> 0]

RootCall == [found |-> <<NewCall(<<Simulation>>)>>, open |-> <<1>>]

Begins(list, event) ==
  LET caller == list.found[Last(list.open)]
  IN  [found |-> Append(list.found, NewCall(Append(caller.path, event.protocol_name))),
       open |-> Append(list.open, Len(list.found) + 1)]

Sends(list, event) ==
  [list EXCEPT !.found[Last(list.open)].bytes = @ + event.size]

\* When the outermost call has ended the rest of the trace is not read.
Called(list, event) ==
  CASE list.open # <<>> /\ event.type = "ProtocolBegin" -> Begins(list, event)
    [] list.open # <<>> /\ event.type = "ProtocolEnd" -> [list EXCEPT !.open = Front(@)]
    [] list.open # <<>> /\ event.type = "SendData" /\ ~Loopback(event.link) -> Sends(list, event)
    [] OTHER -> list

Calls(trace) == FoldLeft(Called, RootCall, trace)

\* A line of the report: a call that sent bytes itself.
AddLine(lines, call) == IF call.bytes > 0 THEN Append(lines, call) ELSE lines

Lines(found) == FoldLeft(AddLine, <<>>, found)

Report(p) == Lines(Calls(traces[p]).found)

-----------------------------------------------------------------------------
\* An account gives bytes to keys; a key it does not name has none.
AmountAt(account, key) == IF key \in DOMAIN account THEN account[key] ELSE 0

AddTo(account, line) ==
  [key \in DOMAIN account \cup {line.path} |->
     AmountAt(account, key) + (IF key = line.path THEN line.bytes ELSE 0)]

\* Repeated calls of a protocol have lines of their own, which a reader adds up.
ByPath(lines) == FoldLeft(AddTo, <<>>, lines)

AddBytes(sum, line) == sum + line.bytes

BytesOf(lines) == FoldLeft(AddBytes, 0, lines)

SumOf(amounts) == FoldLeft(LAMBDA sum, n : sum + n, 0, amounts)

BytesByParty == [i \in DOMAIN PartyOrder |-> BytesBy(metric, PartyOrder[i])]

\* The three accounts of the bytes a party sent agree, at any moment of a run
\* (MetricHook::run, ProtocolBandwidthTree::parse and fold): the lines of the report
\* give each chain of calls exactly the bytes sent to others while it was running,
\* and nothing to any other chain; they add up to the hook's count for the party,
\* which has one from its first send to another on, if only of an empty packet; and
\* the hook's total is the sum of its counts.
BandwidthAccounted ==
  /\ \A p \in Party :
       LET account == ByPath(Report(p))
       IN  /\ \A path \in DOMAIN account :
                \E c \in DOMAIN spent[p] : path = <<Simulation>> \o c
           /\ \A c \in DOMAIN spent[p] :
                AmountAt(account, <<Simulation>> \o c) = spent[p][c]
           /\ BytesOf(Report(p)) = BytesBy(metric, p)
           /\ p \in DOMAIN metric.by <=> DOMAIN spent[p] # {}
  /\ metric.total = SumOf(BytesByParty)

=============================================================================
