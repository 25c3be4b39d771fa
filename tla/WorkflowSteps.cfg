SPECIFICATION FairSpec
CONSTANTS
  Run = {r1}
  Step <- Steps
  Kind <- StepKind
  Main <- Branching
  Then <- ThenSteps
  Else <- ElseSteps
  OnFail <- FailureSteps
  Continuing <- ContinuingSteps
  Retries <- ManyRetries
  Timed = {"fetch"}
  Asserted = {}
CHECK_DEADLOCK FALSE
INVARIANTS
  VerdictJustified
  FailureActionsJustified
PROPERTIES
  StoppedActionsGiveUp
  ImplementsPassage
  RunsEnd
