CONSTANTS
  Party = {0, 1}
  PartyOrder <- MCPartyOrder
  Delays = {0, 2}
  Timeouts = {2}
  NoParty = NoParty
  MaxOps = 1

SPECIFICATION Spec

INVARIANT PacketWinsTie
