SPECIFICATION Spec
CONSTANTS
  MaxSections = 2
  Tags = {"section", "select", "from", "where", "other"}
  Variables = {x}
  RowsBefore = FALSE
INVARIANTS SectionsHaveRequired RowsOfOwnSection NoSectionLost
CHECK_DEADLOCK FALSE
