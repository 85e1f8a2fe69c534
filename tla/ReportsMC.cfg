SPECIFICATION Spec
CONSTANTS
  Reports <- MCReportSet
  LineLimit = 4
INVARIANTS
  FilterShowsItsCount
  OutputsOfOneReport
  AnnotationsReadBack
