SPECIFICATION Spec
CONSTANTS
  Caller = {tray, api}
  MaxGenerations = 2
PROPERTIES
  StopIsComplete
