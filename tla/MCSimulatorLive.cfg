CONSTANTS
  Party = {0, 1}
  PartyOrder <- MCPartyOrder
  Delays = {0, 2}
  Timeouts = {0, 1}
  NoParty = NoParty
  MaxOps = 2

SPECIFICATION FairSpec

PROPERTIES
  TimedReceiveResolves
  RunEnds
