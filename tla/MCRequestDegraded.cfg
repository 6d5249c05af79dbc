SPECIFICATION FairSpec
CONSTANTS
  SizeMax = 1000
  NCols = 3
  MinRows = 0
  MaxRows = 2
  MaxUncounted = 1
  Nullable = {1}
  Faults = {"connect", "count", "exec", "size", "bind", "type", "fetch", "name", "describe"}
  Kinds = {"das", "dds", "data"}
  CheckPoints = {"nextrow", "close"}
  Sent = {0, 2}
  MaxOwners = 2
  RequestFaults = {"response", "type", "unsupported"}
  BesIsStd = FALSE
  Traced = TRUE
  Quiet = TRUE
INVARIANTS IndexInBounds
PROPERTIES EndsUnlessPlaceholders
