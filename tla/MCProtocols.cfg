CONSTANTS
  Party = {0, 1, 2}
  PartyOrder <- MCPartyOrder
  Sorted <- MCSorted
  Sessions <- OpeningLast

SPECIFICATION FairSpec

INVARIANTS
  TypeOK
  RightPacket
  OneShareFromEach
  NothingQueued
  EveryoneContributes

PROPERTY AllFinish
