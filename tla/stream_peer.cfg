SPECIFICATION Spec
CONSTANTS
  A = A
  B = B
  Nobody = Nobody
  OfA = {a1}
  OfB = {b1, b2}
  Handler = {h1}
  a1 = a1
  b1 = b1
  b2 = b2
  h1 = h1
  Ksid = {s1}
  s1 = s1
  Kme <- MCKme
  Peer <- MCPeer
  App <- MCApp
  Site <- MCSite
  Allocator = A
  Cap = 1
  MaxStreams = 1
  Contended = FALSE
  Faults <- PeerFaults
  MaxIndex = 0
  MaxChunks = 1
  MaxObjects = 2
  MaxLives = 1
  MaxFaults = 1
SYMMETRY Interchangeable
CHECK_DEADLOCK FALSE
INVARIANTS TypeOK NothingLost ReadOnce
