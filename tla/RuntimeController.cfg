SPECIFICATION FairSpec
CONSTANTS
  Caller = {tray, api}
  MaxGenerations = 2
INVARIANTS
  StoppedMeansOver
  StoppedMeansQuiet
  UnloadedIdle
PROPERTIES
  StopIsHeeded
