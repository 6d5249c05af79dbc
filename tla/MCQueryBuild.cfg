SPECIFICATION Spec
CONSTANTS
  Selects <- MCSelects
  Universe <- MCUniverse
  Asks <- MCAsks
  MaxWhere = 2
  MaxRequested = 3
  Others <- MCOthers
INVARIANTS ConstraintsKept SelectHasAll WordsOfDatabase ColumnsOfSection CountAgrees
PROPERTIES EndsIfFew
CHECK_DEADLOCK FALSE
