SPECIFICATION FairSpec
CONSTANTS
  v1 = v1
  v2 = v2
  hotkey = hotkey
  timer = timer
  old = old
  kept = kept
  Version = {v1, v2}
  Invalid = Invalid
  None = None
  Fired = Fired
  Trigger = {hotkey, timer}
  Key = {old, kept}
  TriggersOf <- Needs
  KeysOf <- Rules
  First = v1
  SavedEarly = FALSE
  MaxWrites = 3
  MaxRaises = 2
CHECK_DEADLOCK FALSE
INVARIANTS
  SamePreparedRules
PROPERTIES
  ReloadSettles
  DropsAreFinal
