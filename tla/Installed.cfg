SPECIFICATION MCSpec
CONSTANTS
  Rules = {r1, r2}
  Plugins = {x}
  ShippedOff = {x}
  MaxStarts = 2
  MaxRequests = 2
  MaxFaults = 2
  Ids = {"a", "b"}
  Versions = {1, 2}
  IdOf <- MCIdOf
  Loadable = {1}
  Strict = FALSE
  Installers = {i1, i2}
  Tokens = {k1, k2}
  MaxInstalls = 2
  MaxMishaps = 1
  MaxEngineStarts = 2
SYMMETRY Alike
INVARIANTS
  RulesKept
  StillWorks
CHECK_DEADLOCK FALSE
