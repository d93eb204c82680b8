SPECIFICATION FrontendSpec

CONSTANTS
  NoRequest = NoRequest
  Kinds = {"sse", "ws"}
  Shapes = {{"text"}, {"text", "end"}, {"status"}, {"status", "ask"}, {"status", "text", "ask"}, {"status", "terminal"}, {"status", "text", "terminal"}}
  Upstream = {0, 3}
  FlushLimit = 2
  CacheLimit = 2
  MaxRuns = 2
  MaxEvents = 3
  Texts = {"x"}
  Thoughts = {"y"}
  Asks = {"q"}
  Bases = {0, 2}
  ChunkLimit = 2
  MaxUpdates = 4
  Tabs = {b1, b2}
  Requests = {r1, r2}
  Grace = 3
  Cooldown = 0
  RetryDelay = 0
  MaxRetries = 2
  MaxSessions = 1
  MaxRotations = 3
  Ops = {r1, r2}
  Runs = {b1, b2}
  Permissions = {q1, q2}
  Repliers = {y1, y2}
  NoPermission = NoPermission
  NoOne = NoOne
  MaxStates = 2
  MaxTurns = 3

SYMMETRY Symmetry

INVARIANTS
  FrontendTypesOK
  StoredOnce
  NothingSkipped
  AckMeansStored
  OneOpenBlock
  SameContent
  ReplayHasCause
  NothingUngranted
  ContinuationSettled

PROPERTIES
  EndedStaysEnded

CHECK_DEADLOCK FALSE
