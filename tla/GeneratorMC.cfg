SPECIFICATION Spec
CONSTANTS
  None = None
  Documents <- MCDocuments
INVARIANTS
  ChangesOneThing
  GeneratesEveryChange
  NoChangeTwice
CHECK_DEADLOCK FALSE
