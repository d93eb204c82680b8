SPECIFICATION RegSpec

CONSTANTS
  NoToken = NoToken
  NoKey = NoKey
  Invokes = {i1, i2}
  Controls = {u1}
  Keys = {k1, k2}
  InvokeKinds = {"sse", "call", "job"}
  MaxAttempts = 1
  MaxTasks = 1

INVARIANTS
  AcceptedCancelSent

CHECK_DEADLOCK FALSE
