SPECIFICATION Spec
CONSTANTS
  A = A
  B = B
  Nobody = Nobody
  OfA = {a1}
  OfB = {b1}
  Handler = {h1}
  a1 = a1
  b1 = b1
  h1 = h1
  Ksid = {s1}
  s1 = s1
  Kme <- MCKme
  Peer <- MCPeer
  App <- MCApp
  Site <- MCSite
  Allocator = A
  Cap = 1
  MaxStreams = 1
  Contended = FALSE
  Faults <- PeerAndRestart
  MaxIndex = 1
  MaxChunks = 2
  MaxObjects = 2
  MaxLives = 2
  MaxFaults = 1
CHECK_DEADLOCK FALSE
PROPERTIES ChunkImmutable
