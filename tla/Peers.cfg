SPECIFICATION Spec
CONSTANTS
  HalfSpace = 128
  SharedConfigs <- Shared
  Addresses = {3, 4, 130}
  PeerPriorities = {1, 100, 254}
  MaxSummed = 3
INVARIANTS
  PeersAgree
  GreaterStaysMaster
  ChecksumIsExact
  FramesAreAccepted
