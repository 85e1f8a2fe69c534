SPECIFICATION Spec
CONSTANTS
  N = 3
  Workers = 2
  T = 2
  R = 1
  a = a
  b = b
  c = c
  Names <- Files
  Worlds <- MCWorlds
  KeepSurvivors = TRUE
  LeftOver = {}
  MaxFaults = 1
  Progress = TRUE
  MeetsThreshold <- MCMeetsThreshold
INVARIANTS
  IInv
  VerdictsExact
  NoiseExplained
  KillsAttributable
  PassIsEarned
  ReportComplete
  NothingOutlivesRun
  ProgressConsecutive
  SurvivorsSaved
  OnlySurvivorsSaved
PROPERTIES
  ImplementsContract
  Terminates
