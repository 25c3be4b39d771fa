SPECIFICATION Spec
CONSTANTS
  k1 = k1
  k2 = k2
  Key = {k1, k2}
  Run = {r1, r2, r3}
  NoRun = NoRun
  Snapshots <- OneWorker
  MaxWorkers = 1
  MaxPending = 1
  DefaultQueueLimit = 2
  ThreadStartMayFail = TRUE
SYMMETRY Symmetry
INVARIANTS
  WaitingForSomebody
