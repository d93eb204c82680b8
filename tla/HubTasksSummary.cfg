SPECIFICATION Spec

CONSTANTS
  None = None
  Watches = {a1}
  Conversations = {c1}
  Replies = {}
  Handoffs = {}
  Scanners = {x1}
  BatchSize = 1
  MaxVersion = 1

PROPERTIES
  SummaryKept
