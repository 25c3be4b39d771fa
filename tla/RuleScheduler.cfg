SPECIFICATION Spec
CONSTANTS
  k1 = k1
  k2 = k2
  Key = {k1, k2}
  Run = {r1, r2, r3}
  NoRun = NoRun
  Snapshots <- TwoRules
  MaxWorkers = 2
  MaxPending = 2
  DefaultQueueLimit = 2
  ThreadStartMayFail = FALSE
SYMMETRY Symmetry
INVARIANTS
  WorkersAccounted
  NoStrandedQueue
  ConcurrencyCap
  HistoryHonest
PROPERTIES
  ShutdownOnlyDrains
  ImplementsAdmission
