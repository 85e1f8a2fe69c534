SPECIFICATION SafeSpec
CONSTANTS
  N = 3
  Workers = 2
  T = 2
  R = 1
  a = a
  b = b
  c = c
  Names <- Files
  Worlds <- MCSharedNameWorlds
  KeepSurvivors = TRUE
  LeftOver = {}
  MaxFaults = 0
  Progress = TRUE
  MeetsThreshold <- MCMeetsThreshold
INVARIANT SurvivorsSaved
