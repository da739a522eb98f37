SPECIFICATION Spec
CONSTANTS
  HalfSpace = 128
  SharedConfigs <- Refused
  Addresses = {3, 4}
  PeerPriorities = {1, 100, 254}
  MaxSummed = 3
INVARIANTS
  PeersAccept
