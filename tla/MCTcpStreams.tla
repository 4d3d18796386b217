---------------------------- MODULE MCTcpStreams ----------------------------
(***************************************************************************)
(* TcpStreams for TLC.                                                     *)
(***************************************************************************)
EXTENDS TcpStreams, TLC

CONSTANTS p0, p1, p2

\* Three parties: p0 sends twice, to p1 alone or to p1 and p2 at once; p1 receives
\* twice; p2 only drops its network, under p0's feet.  A second send to p1 may follow
\* a first one that p2's end has cut off.
Three == {p0, p1, p2}
ThreeTargets == {{p1}, {p1, p2}}
ThreeClosers == {p0, p1}
ThreeSends == p0 :> 2 @@ p1 :> 0 @@ p2 :> 0
ThreeReceives == p0 :> 0 @@ p1 :> 2 @@ p2 :> 0

\* Two parties: p0 sends, p1 sends and receives; sends to oneself included.
Two == {p0, p1}
TwoTargets == {{p0}, {p1}, {p0, p1}}
TwoClosers == {p0, p1}
TwoSends == p0 :> 1 @@ p1 :> 1
TwoReceives == p0 :> 0 @@ p1 :> 2

=============================================================================
