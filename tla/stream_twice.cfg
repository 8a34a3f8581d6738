SPECIFICATION Spec
CONSTANTS
  A = A
  B = B
  Nobody = Nobody
  OfA = {a1, a2}
  OfB = {b1}
  Handler = {h1}
  a1 = a1
  a2 = a2
  b1 = b1
  h1 = h1
  Ksid = {s1}
  s1 = s1
  Kme <- MCKme
  Peer <- MCPeer
  App <- MCApp
  Site <- MCSite
  Allocator = A
  Cap = 2
  MaxStreams = 1
  Contended = TRUE
  Faults <- NoFaults
  MaxIndex = 0
  MaxChunks = 2
  MaxObjects = 2
  MaxLives = 1
  MaxFaults = 0
SYMMETRY Interchangeable
CHECK_DEADLOCK FALSE
INVARIANTS SameBytes
