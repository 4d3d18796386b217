CONSTANTS
  Party = {0, 1}
  PartyOrder <- MCPartyOrder
  Delays <- MCDelays
  Timeouts = {1}
  NoParty = NoParty
  MaxOps = 2
  Label = {"EC elem.", "field elem."}
  NoLabel = NoLabel
  UnknownElem = "unknown elem."
  Config <- MCConfig
  PacketChoices <- MCPacketChoices
  RootProtocol = "Root"
  SubProtocols = {"Sub"}
  Simulation = "<simulation>"
  MaxCalls <- MCMaxCalls

SPECIFICATION TraceSpec

INVARIANTS
  TracesNest
  BandwidthAccounted
  ReportListsCalls
  TransfersMatch
