SPECIFICATION Spec
CONSTANTS
  N = 2
  Workers = 2
  T = 2
  R = 1
  a = a
  b = b
  c = c
  Names <- Files
  Worlds <- MCLingeringWorlds
  KeepSurvivors = FALSE
  LeftOver = {}
  MaxFaults = 0
  Progress = TRUE
  MeetsThreshold <- MCMeetsThreshold
PROPERTY ContextEndsCommand
CHECK_DEADLOCK FALSE
