SPECIFICATION Spec
CONSTANTS
  Workers = {w1, w2}
  Source = Source
  Nothing = Nothing
  Documents <- MCDocuments
  NewExprs <- MCNewExprs
  Durations <- MCDurations
  NewDelays <- MCNewDelays
INVARIANTS
  SourceIntact
  AlertsOfPlainFilesLoaded
  OnlySharedTextFollows
CHECK_DEADLOCK FALSE
