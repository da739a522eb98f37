SPECIFICATION FairSpec
CONSTANTS
  NANOUL = 6
  CENTUL = 2
  LongMax = 20
  Delays <- MCDelays
  Boot = 5
  MaxNow = 20
INVARIANTS
  TypeOK
  WaitsForDeadline
PROPERTIES
  IsCountdown
  RefusedOnWholeSeconds
  TimerFires
