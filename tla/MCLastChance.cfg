SPECIFICATION FairSpec
CONSTANTS
  Files = {a}
  MaxVersion = 4
  MaxTime = 3
  TimeDif = 2
  Malformed = {2}
  Undeclared = {2}
  EditsInRead = TRUE
  Direct = FALSE
  Sections <- MCSections
  Loaded <- MCLoaded
  Handling <- MCHandling
INVARIANTS RunTypeOK EachTriedOnce
PROPERTIES FreshOnHandOut CacheSettles Answered
CHECK_DEADLOCK FALSE
