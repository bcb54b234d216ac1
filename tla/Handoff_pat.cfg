\* A crash at the wrong moment.
SPECIFICATION HSpec
CONSTANTS
  Outsiders = {}
  MaxCrashes = 1
  MaxErrors = 0
  MaxStops = 0
  MaxRuns = 0
  TokenMayExpire = FALSE
INVARIANTS OnePat
CHECK_DEADLOCK FALSE
