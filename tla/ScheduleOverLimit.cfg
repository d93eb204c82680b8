SPECIFICATION Spec

CONSTANTS
  None = None
  Tasks = {t1, t2}
  Runs = {r1, r2}
  Agents = {a1}
  Workers = {w1, w2}
  Dispatchers = {d1}
  Sessions = {s1}
  GlobalLimit = 1
  AgentLimit = 2
  FailureThreshold = 1
  Quota = 2

INVARIANT GlobalLimitObeyed

SYMMETRY Symmetry
