SPECIFICATION LiveSpec

CONSTANTS
  None = None
  NoToken = NoToken
  NoKey = NoKey
  Watches = {a1}
  Conversations = {c1}
  Replies = {q1}
  Handoffs = {h1}
  Scanners = {x1, x2}
  BatchSize = 2
  MaxVersion = 1
  Invokes = {i1}
  Controls = {u1}
  Keys = {k1}
  InvokeKinds = {"sse", "call", "job"}
  MaxAttempts = 2
  MaxTasks = 1
  Peers = {p1, p2}
  Calls = {e1}
  MaxClients = 2
  MaxAdapters = 2
  MaxGenerations = 2
  MaxCalls = 2

PROPERTIES
  RunningLeaves
  WokenUp
  ControlAnswered
  BackgroundUnregisters
  ShutdownEnds

CHECK_DEADLOCK FALSE
