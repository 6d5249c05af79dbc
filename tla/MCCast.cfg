SPECIFICATION Spec
CONSTANTS
  Variables = {v1, v2, v3}
  Blocks = {b1, b2, b3, b4}
  Byte = 4
  Traced = TRUE
  Null = null
  Buffer = buffer
  Nothing = nothing
INVARIANTS CastTypeOK OneOwner FreedOnce IntegersArrive
CHECK_DEADLOCK FALSE
