SPECIFICATION MCSpec
CONSTANTS
  Parts = {"worker", "transfers", "commands", "folders", "sessions", "drafts", "answers", "macros",
           "sensors", "clock", "dashboards", "hosts", "loading"}
  Calls = {w1, w2}
  MaxUpdates = 1
  Sessions = {s1, s2}
  Commands = {c1, c2}
  Slots = 1
  MaxReloads = 1
  Clients = {v1, v2}
  StreamSlots = 1
  MaxDeltas = 1
  Keys = {"ctrl"}
  StopKey = "ctrl"
  Buttons = {"left", "right"}
  MaxInputs = 4
  EventLimit = 4
  MaxReplays = 1
  MaxPolls = 4
  MinuteLength = 2
  DayLength = 2
  LastDay = 2
  MaxClockPolls = 5
  Boards = {b1, b2, b3}
  Quitters = {q1}
  Nobody = nobody
  Unheld = unheld
  MaxClaims = 2
  Hosts = {h1, h2}
  Free = free
  MaxToggles = 2
  Workers = {t1}
  Api = api
  Reloader = reloader
  MaxEdits = 1
  MaxFrames = 3
  SizeLimit = 16
  MaxPieces = 3
  PieceLimit = 2
  MaxHops = 1
  MaxWrites = 3
  OutputLimit = 2
  Checkers = {"k1", "k2"}
  Watched = {"d1", "d2"}
  FileIds = {"i", "j"}
  Quiet <- MCQuiet
  MaxObservations = 1
  MaxStamps = 2
  LastMoment = 2
INVARIANTS
  
  ResourcesFreed
  StreamsAnswered
  ContentKept
  
  DashboardsFound
  HostsLeave
  LoadedIsVerified
CHECK_DEADLOCK FALSE
