SPECIFICATION MCSpec
CONSTANTS
  p1 = p1
  p2 = p2
  RuleSets <- MCRuleSets
  Sources = {"a", "b", "c"}
  Poller = "poller"
  MaxTime = 2
  MaxEvents = 3
  Scripts <- MCScripts
  Capacity = 3
  BatchSize = 2
  Slack = 0
  MaxCrashes = 2
  MaxFailures = 2
  Publishers = {p1, p2}
  Streams = {s1}
  QueueSize = 1
  Parts = {"matching", "recording", "streaming", "bindings", "upgrade", "types", "manual",
           "documents", "manifests"}
  MaxReads = 2
  NestedIds = FALSE
  MaxUses = 2
  MaxAssertions = 1
  MaxChanges = 1
INVARIANTS
  
  FiringsJustified
  AbsencesHonest
  NothingLeftUnfired
  
  StreamUnbroken
PROPERTIES
  UpgradeSound
  EndStands
CHECK_DEADLOCK FALSE
