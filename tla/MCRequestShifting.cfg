SPECIFICATION FairSpec
CONSTANTS
  SizeMax = 1000
  NCols = 3
  MinRows = 1
  MaxRows = 3
  MaxUncounted = 2
  Nullable = {1}
  Faults = {"connect", "count", "exec", "size", "bind", "describe"}
  Kinds = {"das", "dds", "data"}
  CheckPoints = {"connect", "query", "getnext", "nextrow", "close"}
  Sent = {0, 1, 2}
  MaxOwners = 2
  RequestFaults = {"unsupported"}
  BesIsStd = TRUE
  Traced = FALSE
  Quiet = FALSE
INVARIANTS RowsAsCounted ValueOfItsRow
PROPERTY ReadEndsWell
