CONSTANTS
  Party = {0, 1, 2}
  BitSize = 3
  Prime = 43
  Order = 31
  OrderBits = 5
  Gen <- MCGen
  T = 1
  King = 1
  Secrets = {0, 5}
  Consts = {3}
  Degrees = {1, 2, 3}
  Generators <- MCGenerators
  PartyGenerators <- MCPartyGenerators
  Lists <- MCLists
  MaxOps = 2

SPECIFICATION Spec

INVARIANTS
  TypeOK
  SecretRecovered
  SharesHide
  FeldmanSound
  RandomnessCorrelated
  ExtractionKeepsRandomness

CHECK_DEADLOCK FALSE
