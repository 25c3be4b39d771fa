SPECIFICATION FairSpec
CONSTANTS
  k1 = k1
  k2 = k2
  Key = {k1}
  Run = {r1, r2, r3}
  NoRun = NoRun
  Snapshots <- OneRule
  MaxWorkers = 2
  MaxPending = 1
  DefaultQueueLimit = 2
  ThreadStartMayFail = FALSE
PROPERTIES
  RunsGetThrough
