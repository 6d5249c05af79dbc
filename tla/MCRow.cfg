SPECIFICATION ListSpec
CONSTANTS
  MaxLength = 5
  Names <- MCNames
  Values <- MCValues
INVARIANTS ShortRestsKept NothingInvented FirstOnesFound
PROPERTIES RowEnds
CHECK_DEADLOCK FALSE
