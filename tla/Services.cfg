SPECIFICATION ServicesSpec

CONSTANTS
  None = None
  NoToken = NoToken
  NoKey = NoKey
  NoHolder = NoHolder
  Sweeper = Sweeper
  Watches = {a1}
  Conversations = {c1, c2}
  Replies = {q1}
  Handoffs = {h1}
  Scanners = {x1, x2}
  BatchSize = 1
  MaxVersion = 1
  Invokes = {x1, x2}
  Controls = {u1}
  Keys = {y1, y2}
  InvokeKinds = {"sse", "call", "job"}
  MaxAttempts = 2
  MaxTasks = 1
  Peers = {p1, p2}
  Calls = {y1, y2}
  MaxClients = 2
  MaxAdapters = 2
  MaxGenerations = 2
  MaxCalls = 2
  Tickets = {y1, y2}
  Attempts = {x1, x2}
  SweepBatch = 1
  MaxSweeps = 2
  OwnAgents = {a1}
  HubAgents = {s1}
  Assistants = {b1}
  Checks = {x1, x2}
  Threshold = 2
  Cooldown = 2
  MaxTime = 3
  Personal = {a1}
  Shared = {s1}
  Editors = {x1, x2}
  NoEditor = NoEditor
  MaxEdits = 3
  DayLength = 4
  WeekLength = 2
  LongMonth = 3
  ShortMonth = 2
  Shortest = 2
  Longest = 4
  Minutes = {1, 3, 5}
  Starts = {9}
  Gaps = {5, 18}
  Folds = {6, 17}
  Horizon = 22
  Never = Never

SYMMETRY Symmetry

INVARIANTS
  ServiceTypesOK
  ExclusiveClaim
  NothingSwallowed
  LiveWhileTracking
  GuardMatchesHolders
  RegistryMatchesRuns
  DeferredCancelSent
  OpenWhileUsed
  AcceptedOnce
  ResultOfOneCheck
  FailuresHappened
  SecretFits
  NextIsFirst

PROPERTIES
  SweepSparesLive

CHECK_DEADLOCK FALSE
