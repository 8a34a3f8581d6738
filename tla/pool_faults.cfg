CONSTANTS
  Alice = Alice
  Bob = Bob
  Kme <- MCKme
  Peer <- MCPeer
  Allocator = Alice
  Low = 1
  Capacity = 3
  Share = 1
  Faults <- EveryFault
  MaxKeys = 2
  MaxRestarts = 1
SPECIFICATION Spec
INVARIANTS NoDoubleHandout RingIndexed DroppedStayOut
CHECK_DEADLOCK FALSE
