SPECIFICATION Spec
CONSTANTS
  HalfSpace = 128
  SharedConfigs <- OneOfEach
  Addresses = {3, 131, 200}
  PeerPriorities = {1, 100, 254}
  MaxSummed = 3
INVARIANTS
  GreaterStaysMaster
