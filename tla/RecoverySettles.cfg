SPECIFICATION AuthFairSpec

CONSTANTS
  NoRequest = NoRequest
  Tabs = {b1}
  Requests = {r1}
  Grace = 3
  Cooldown = 5
  RetryDelay = 3
  MaxRetries = 3
  MaxSessions = 1
  MaxRotations = 2

PROPERTIES
  RecoverySettles

CHECK_DEADLOCK FALSE
