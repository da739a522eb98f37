SPECIFICATION FairSpec
CONSTANTS
  HalfSpace = 128
  Routers = {1, 2, 3}
  Config <- MCConfigs
  Priority <- MCPriorities
  MaxLoss = 2
  MaxFaults = 1
INVARIANTS
  OutageBounded
  SplitBrainHeals
PROPERTIES
  StableReign
  Converges
  BestWins
