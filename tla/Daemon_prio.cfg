SPECIFICATION FairSpec
CONSTANTS
  HalfSpace = 128
  Config <- MCConfig2
  Priority = 100
  Packets <- FewPackets
  Commands <- PrioCommands
  Signals = {}
  MaxSock = 1
  MaxFifo = 2
PROPERTIES
  PrioApplies
