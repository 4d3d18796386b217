\* Two parties, with fair tasks and sockets.
SPECIFICATION FairSpec
CONSTANTS
  p0 = p0
  p1 = p1
  p2 = p2
  NoParty = NoParty
  Party <- Two
  Targets <- TwoTargets
  Closers <- TwoClosers
  MaxSends <- TwoSends
  MaxReceives <- TwoReceives
INVARIANTS
  ForgottenAfterAll
PROPERTIES
  DepartureNoticed
\* Everybody may have closed or dropped its network.
CHECK_DEADLOCK FALSE
