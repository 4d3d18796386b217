\* Three parties: a send to two, of which one may be gone.
SPECIFICATION Spec
CONSTANTS
  p0 = p0
  p1 = p1
  p2 = p2
  NoParty = NoParty
  Party <- Three
  Targets <- ThreeTargets
  Closers <- ThreeClosers
  MaxSends <- ThreeSends
  MaxReceives <- ThreeReceives
INVARIANTS
  TypeOK
  ClosedAfterAll
  GarbageOnlyBehindCut
PROPERTIES
  LinksSpec
\* Everybody may have closed or dropped its network.
CHECK_DEADLOCK FALSE
