SPECIFICATION FairSpec
CONSTANTS
  MaxStack = 3
INVARIANTS
  TypeOK
  CallsLeaveNoTrace
  OnlyForkFailureKills
  NoStrayOfAStray
  InterfaceFollowsState
PROPERTIES
  TermStops
