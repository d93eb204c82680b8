SPECIFICATION CoreSpec

CONSTANTS
  None = None
  Tasks = {t1, t2}
  Runs = {r1, r2}
  Agents = {a1}
  Workers = {w1, w2}
  Dispatchers = {d1, d2}
  Sessions = {s1, s2}
  GlobalLimit = 1
  AgentLimit = 1
  FailureThreshold = 2
  Quota = 1

INVARIANTS
  TypeOK
  OneActiveRun
  OneExecutor
  NoLostSchedule
  QuotaRespected

PROPERTIES
  EndNeverReenables
  ImplementsLedger

SYMMETRY Symmetry
