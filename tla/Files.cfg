SPECIFICATION Spec
CONSTANTS
  None = None
  Procs = {p1, p2, p3}
SYMMETRY Symmetry
INVARIANTS
  TypeOK
  OneRuns
  InterfaceFollowsMaster
  RunningIsReachable
  RefusedOnlyInCompany
