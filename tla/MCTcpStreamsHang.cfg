\* Two parties: a receive from any, after the remote peer has closed.
SPECIFICATION FairSpec
CONSTANTS
  p0 = p0
  p1 = p1
  p2 = p2
  NoParty = NoParty
  Party <- Two
  Targets <- TwoTargets
  Closers <- TwoClosers
  MaxSends <- TwoSends
  MaxReceives <- TwoReceives
PROPERTIES
  AllClosedSurfaces
\* Everybody may have closed or dropped its network.
CHECK_DEADLOCK FALSE
