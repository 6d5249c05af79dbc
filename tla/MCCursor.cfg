SPECIFICATION Spec
CONSTANTS
  SizeMax = 1000
  MaxCols = 4
  MaxRows = 4
  MinRows = 0
  MaxIncrement = 10
INVARIANTS RowMajor
PROPERTIES SkippedRows
