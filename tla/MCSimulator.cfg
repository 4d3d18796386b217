CONSTANTS
  Party = {0, 1}
  PartyOrder <- MCPartyOrder
  Delays = {0, 2}
  Timeouts = {0, 2}
  NoParty = NoParty
  MaxOps = 3

SPECIFICATION Spec

INVARIANTS
  TypeOK
  LinkOrder
  VirtualTimeMonotone
  NoLostWakeup
  NoStaleWaker
  ReadyTasksLive
  TimerArmed
  ResumesOnArrival
  DeadlockGenuine

PROPERTY LinksSpec
