SPECIFICATION Spec
CONSTANTS
  Backend <- MCBackend
  Default = "composite"
  RateFirst <- MCRateFirst
  NeedsService <- MCRateFirst
  None = None
  MaxWrites = 0
  MaxChanges = 2
  MaxSwitches = 0
  MaxRounds = 1
INVARIANTS
  FlagIsTrue
CHECK_DEADLOCK FALSE
