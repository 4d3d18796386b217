\* Three parties, each of which may die once, at any point, and come back.
SPECIFICATION FairSpec
CONSTANTS
  N = 3
  MaxLives = 2
  NoConnection = NoConnection
INVARIANTS
  TypeOK
  MeshSymmetric
  FiledByPeer
PROPERTIES
  MeshCompletes
  DialResolves
\* Everybody may be ready, or wait for ever for a party that failed for good.
CHECK_DEADLOCK FALSE
