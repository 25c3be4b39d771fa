SPECIFICATION FairSpec
CONSTANTS
  Run = {r1, r2}
  Step <- Steps
  Kind <- StepKind
  Main <- Short
  Then <- NoBranches
  Else <- NoBranches
  OnFail <- FailureSteps
  Continuing <- ContinuingSteps
  Retries <- NoRetries
  Timed = {"done"}
  Asserted = {r1}
CHECK_DEADLOCK FALSE
INVARIANT
  QuietAfterDrain
PROPERTY
  ShutdownCompletes
