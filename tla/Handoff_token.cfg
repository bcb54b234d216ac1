\* The old child's token may be invalidated.
SPECIFICATION HSpec
CONSTANTS
  Outsiders = {}
  MaxCrashes = 1
  MaxErrors = 1
  MaxStops = 0
  MaxRuns = 0
  TokenMayExpire = TRUE
INVARIANTS NewLoginAfterDeparture
CHECK_DEADLOCK FALSE
