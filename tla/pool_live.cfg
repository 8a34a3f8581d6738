CONSTANTS
  Alice = Alice
  Bob = Bob
  Kme <- MCKme
  Peer <- MCPeer
  Allocator = Alice
  Low = 1
  Capacity = 3
  Share = 1
  Faults <- NoFaults
  MaxKeys = 3
  MaxRestarts = 0
SPECIFICATION FairSpec
INVARIANTS TypeOK PeerHoldsLive
PROPERTIES ProducerRefills LockReleased
CHECK_DEADLOCK FALSE
