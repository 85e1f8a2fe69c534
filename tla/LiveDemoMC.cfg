SPECIFICATION Spec
CONSTANTS
  Scripts = {"verify", "incident"}
  Attempts = 3
INVARIANTS
  PassDemonstrated
PROPERTY Ends
CHECK_DEADLOCK FALSE
