SPECIFICATION Spec
CONSTANTS
  Node <- MCNode
  Driver = "alice"
  None = None
  Faults = {"vici", "input", "restart"}
  MaxInterval = 2
  MaxSas = 2
  MaxRestarts = 1
INVARIANTS
  TypeOK
  NeverStranded
  RetiredIsGone
  NoOrphans
  CleanRotationAgrees
CHECK_DEADLOCK FALSE
