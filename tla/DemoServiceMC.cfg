SPECIFICATION Spec
CONSTANTS
  c1 = c1
  c2 = c2
  c3 = c3
  Clients = {c1, c2, c3}
  Nobody = nobody
  Sessions <- MCSessions
  MaxTicks = 1
  MaxAlerts = 2
INVARIANTS
  AlertsKept
  AnswersCurrent
  CountersBalanced
PROPERTIES
  Answered
  Exits
