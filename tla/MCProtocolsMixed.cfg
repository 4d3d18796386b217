CONSTANTS
  Party = {0, 1, 2}
  PartyOrder <- MCPartyOrder
  Sorted <- MCSorted
  Sessions <- OpeningFirst

SPECIFICATION Spec

INVARIANT NoWrongSecret

CHECK_DEADLOCK FALSE
