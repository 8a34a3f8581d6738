SPECIFICATION LiveSpec
CONSTANTS
  None = None
  Page = {p1}
  Client = {c1}
  Posted <- MCPosted
  Reader = {}
  Param = {"short", "long"}
  Default = "short"
  Backend = {"simqn", "qutip"}
  MaxChanges = 2
  MaxEdits = 1
  MaxFaults = 2
  MaxLoads = 2
INVARIANTS
  TypeOK
  DivergenceIsReported
PROPERTIES
  ConfirmedIsApplied
  DraftIsKept
  CatchesUp
CHECK_DEADLOCK FALSE
