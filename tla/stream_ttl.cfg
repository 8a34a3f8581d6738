SPECIFICATION Spec
CONSTANTS
  A = A
  B = B
  Nobody = Nobody
  OfA = {a1}
  OfB = {b1}
  Handler = {h1}
  a1 = a1
  b1 = b1
  h1 = h1
  Ksid = {s1}
  s1 = s1
  Kme <- MCKme
  Peer <- MCPeer
  App <- MCApp
  Site <- MCSite
  Allocator = A
  Cap = 2
  MaxStreams = 1
  Contended = FALSE
  Faults <- PeerAndTtl
  MaxIndex = 0
  MaxChunks = 2
  MaxObjects = 2
  MaxLives = 1
  MaxFaults = 3
CHECK_DEADLOCK FALSE
INVARIANTS ClosedHoldsNothing
PROPERTIES
  KeepsPromise
