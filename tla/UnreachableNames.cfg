SPECIFICATION Spec
CONSTANTS
  None = None
  Names <- MCNames
  Values <- MCValues
  Depth <- MCDepth
  Examples <- MCExamples
  IssuerFilters <- MCIssuerFilters
  Documents <- MCDocuments
  Segments <- MCSegments
CHECK_DEADLOCK FALSE
INVARIANTS
  PointersNameFields
