------------------------------- MODULE MCTrace -------------------------------
(***************************************************************************)
(* A small instance of TraceReports.  Party 1 comes first in the vector.   *)
(* A packet with elements of every kind is cut into two segments and takes *)
(* four ticks, the losses being its limit; an empty packet takes one tick. *)
(***************************************************************************)
EXTENDS TraceReports

MCPartyOrder == <<1, 0>>

MCConfig ==
  [net_type |-> "Tcp", bandwidth |-> 500, rtt |-> 2, mss |-> 4,
   loss_term |-> 15, window_size |-> 200]

Large ==
  WriteManyLabeled(WriteLabeled(WriteMany(Write(Empty, 1), <<1, 1>>), 1, "EC elem."),
                   <<1, 1>>, "field elem.")

MCPacketChoices == {Empty, Large}

MCDelays ==
  {MessageDelay(ChannelConfig(MCConfig, l), Size(packet)) :
     l \in Link, packet \in MCPacketChoices}

\* Party 0 may call a protocol twice, or two levels deep; party 1 calls none.
MCMaxCalls == [p \in Party |-> IF p = 0 THEN 3 ELSE 1]

=============================================================================
