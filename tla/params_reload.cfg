SPECIFICATION LiveSpec
CONSTANTS
  Backend <- MCBackend
  Default = "simqn"
  RateFirst <- MCRateFirst
  NeedsService <- MCRateFirst
  None = None
  MaxWrites = 1
  MaxChanges = 2
  MaxSwitches = 1
  MaxRounds = 1
INVARIANTS
  TypeOK
  LastChangeApplied
  FlagOfSteadyRound
PROPERTIES
  FileNoticed
CHECK_DEADLOCK FALSE
