SPECIFICATION FairSpec

CONSTANTS
  None = None
  Tasks = {t1}
  Runs = {r1}
  Agents = {a1}
  Workers = {w1}
  Dispatchers = {d1}
  Sessions = {s1}
  GlobalLimit = 1
  AgentLimit = 1
  FailureThreshold = 1
  Quota = 1

PROPERTIES
  RunEnds
  PendingLeaves
