CONSTANTS
  Party = {0, 1, 2}
  PartyOrder <- MCPartyOrder
  Sorted <- MCSorted
  Sessions <- TwoOpenings

SPECIFICATION Spec

INVARIANT OneShareFromEach
