SPECIFICATION FairSpec
CONSTANTS
  HalfSpace = 128
  Config <- MCConfig3
  Priority = 100
  Packets <- MCPackets3
  Commands <- MCCommands
  Signals = {"HUP", "INT", "TERM"}
  MaxSock = 1
  MaxFifo = 2
INVARIANTS
  TypeOK
  TimerDiscipline
  VipsFollowMaster
  AdvertisementIsCurrent
  OwnerIsMaster
  StopIsClean
PROPERTIES
  ResignationIsAnnounced
  HookProtocol
  TermStops
  StopCommandStops
