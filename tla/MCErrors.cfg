SPECIFICATION FairSpec
CONSTANTS
  Codes <- MCCodes
  ActionsOf <- ODBCActions
  Stops <- ODBCStops
  Settings <- MCSettings
CHECK_DEADLOCK FALSE
INVARIANT ErrorActionsTypeOK
PROPERTY KeepsPolicy
