SPECIFICATION FairSpec
CONSTANTS
  A = A
  B = B
  Nobody = Nobody
  OfA = {a1}
  OfB = {b1}
  Handler = {h1}
  a1 = a1
  b1 = b1
  h1 = h1
  Ksid = {s1}
  s1 = s1
  Kme <- MCKme
  Peer <- MCPeer
  App <- MCApp
  Site <- MCSite
  Allocator = A
  Cap = 2
  MaxStreams = 1
  Contended = TRUE
  Faults <- NoFaults
  MaxIndex = 1
  MaxChunks = 2
  MaxObjects = 3
  MaxLives = 1
  MaxFaults = 0
CHECK_DEADLOCK FALSE
INVARIANTS ClosedTogether
PROPERTIES CallsReturn
