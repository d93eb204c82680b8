SPECIFICATION FairSpec

CONSTANTS
  None = None
  Watches = {a1, a2}
  Conversations = {c1, c2}
  Replies = {}
  Handoffs = {}
  Scanners = {x1}
  BatchSize = 1
  MaxVersion = 1

PROPERTIES
  WokenUp
