SPECIFICATION Spec
CONSTANTS
  HalfSpace = 128
  Vrids <- VridsSet
  Prios <- PriosSet
  Delays <- DelaysSet
  Rfcs <- RfcsSet
  Passwords <- PasswordsSet
  VipCounts = {0, 1, 255, 256, 257}
  MaxOptions = 4
INVARIANTS
  RunningIsConfigured
