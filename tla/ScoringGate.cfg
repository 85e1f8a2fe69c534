SPECIFICATION Spec
CONSTANTS
  N = 50
  Thresholds <- MCThresholds
INVARIANTS
  RoundingOnlyNearEquality
  FullScorePasses
CHECK_DEADLOCK FALSE
