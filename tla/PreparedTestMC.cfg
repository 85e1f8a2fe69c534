SPECIFICATION Spec
CONSTANTS
  Disk <- MCDisk
  Target <- MCTarget
  Suites <- MCSuites
  Matches <- MCMatches
  BadPatterns <- MCBadPatterns
  TestNames <- MCTestNames
  JUnitNames <- MCJUnitNames
INVARIANTS
  PreparedLoadsTheSame
  SuitesSkippedExactly
CHECK_DEADLOCK FALSE
