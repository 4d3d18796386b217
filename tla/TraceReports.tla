---------------------------- MODULE TraceReports -----------------------------
(***************************************************************************)
(* The bandwidth report of a simulated run (src/net/simulation/            *)
(* simulator.rs): the call tree rebuilt from the trace of a party, and its *)
(* folded lines.                                                           *)
(***************************************************************************)
EXTENDS Bandwidth

(***************************************************************************)
(* ProtocolBandwidthTree: parse walks the events after a ProtocolBegin up  *)
(* to the matching end, or to the end of the trace, and leaves the rest to *)
(* its caller; fold lists the nodes that sent bytes themselves.            *)
(***************************************************************************)
Node(id) == [id |-> id, self_bytes |-> 0, children |-> <<>>]

\* Fault: the end of a protocol is left for its caller, which it ends as well.
LeftForCaller(unread) == unread

\* The end of a protocol is consumed by the call it ends.
AfterEnd(unread) == Tail(unread)

RECURSIVE Parse(_, _)
Parse(node, unread) ==
  IF unread = <<>> THEN [node |-> node, rest |-> <<>>] ELSE
    LET event == Head(unread)
        rest == Tail(unread)
    IN  CASE event.type = "SendData" ->
               Parse(IF Loopback(event.link) THEN node
                       ELSE [node EXCEPT !.self_bytes = @ + event.size], rest)
          [] event.type = "ProtocolBegin" ->
               LET child == Parse(Node(event.protocol_name), rest)
               IN  Parse([node EXCEPT !.children = Append(@, child.node)], child.rest)
          [] event.type = "ProtocolEnd" -> [node |-> node, rest |-> AfterEnd(unread)]
          [] OTHER -> Parse(node, rest)

BandwidthTree(p) == Parse(Node(Simulation), traces[p]).node

RECURSIVE Fold(_, _)
Fold(node, path) ==
  LET here == Append(path, node.id)
  IN  FoldLeft(LAMBDA lines, child : lines \o Fold(child, here),
               IF node.self_bytes > 0 THEN <<[path |-> here, bytes |-> node.self_bytes]>>
                                      ELSE <<>>,
               node.children)

\* write_folded: one line per node that sent bytes itself, outer nodes first.
Folded(p) == Fold(BandwidthTree(p), <<>>)

-----------------------------------------------------------------------------
\* The recursive descent reads a trace, complete or cut short, as the calls that it
\* tells (ProtocolBandwidthTree::parse and fold): each send is counted for the call
\* that made it, whatever was called and returned before it, and the lines of the
\* report list the calls in the order they began.
ReportListsCalls == \A p \in Party : Folded(p) = Report(p)

=============================================================================
