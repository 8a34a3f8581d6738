SPECIFICATION Spec
CONSTANTS
  None = None
  Client = {c1, c2}
  Posted <- MCPosted
  Reader = {r1, r2}
  Param = {"short", "long"}
  Default = "short"
  Backend = {"simqn"}
  MaxChanges = 2
  MaxFaults = 1
  Saver = {s1, s2}
  Name = {"figure"}
  Payload = {1, 2, 4}
  MaxFiles = 2
  MaxBytes = 3
  MaxUpload = 4
  MaxSaves = 3
  MaxSeconds = 2
  MaxDeletes = 1
  Thread = {t1, t2}
  Route = {"stack", "stats", "rotations", "wg", "protocols", "agility", "logs"}
  Ttl = 2
  Timeout = 2
  Services <- MCServices
  Gated = {"sim"}
  Poller = {p1, p2}
  MaxPolls = 2
  Toolbar = {b1, b2}
  Duration = 3
  Interval = 2
  MinDelay = 1
  MaxRender = 3
  MaxExports = 2
  Fetcher = {f1, f2}
  MaxVersions = 2
  MaxRefreshes = 3
  PoolCapacity = 2
  MaxCycles = 2
  MaxElapsed = 3
  TickGap = 1
  MaxGap = 2
  Low = 1
  Threshold = 1
  Fill = 4
  Need = 2
  Capacity = 3
  RefillAt = 1
  Cover = 2
  MaxDue = 2
  MaxTicks = 2
  Down = Down
  Ksid = {k1}
  Key = 2
  Sizes = {0, 1, 5}
  Asked = {1, 3}
  Rates = {2}
  MaxChunks = 3
  Rate = {20, 22, 23}
  KeyYield = 2
  PoolDrain = 1
  PoolTop = 3
INVARIANTS
  TypeOK
  VerdictIsCurrent
  ExportsAreKept
  CyclesSealOwnKeys
  CyclesAreWhole
  KeysAreAccountedFor
  StackIsTold
  FilesAreDelivered
  EngineFollowsPage
PROPERTIES
  SamplesAreShared
  RouteFollowsFailures
SYMMETRY Savers
CHECK_DEADLOCK FALSE
