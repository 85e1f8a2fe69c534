SPECIFICATION SafeSpec
CONSTANTS
  N = 2
  p = p
  q = q
  r = r
  NoPath = NoPath
  Paths <- MCPaths
  Requests <- MCRequests
  MeetsThreshold <- MCMeetsThreshold
INVARIANTS
  CommandInv
  ExitZeroEarned
  ExitOneRan
  ReportsDelivered
  OutputsAgree
  BadValuesRefused
