SPECIFICATION Spec
CONSTANTS
  Content <- MCContent
  Hash <- MCHash
  Requests <- MCRequests
INVARIANTS
  SelectionExact
  PreviewComplete
CHECK_DEADLOCK FALSE
