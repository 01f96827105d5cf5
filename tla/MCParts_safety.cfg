SPECIFICATION PartsSpec
CONSTANTS
  Files = {f, g}
  Wake = Wake
  Resync = Resync
  QueueCap = 4
  ChannelCap = 4
  MaxEdits = 3
  MaxMoves = 2
  MaxFaults = 0
  SlowDrain = FALSE
  RacingDisk = FALSE
  m1 = m1
  m2 = m2
  i1 = i1
  i2 = i2
  i3 = i3
  chunk = chunk
  r1 = r1
  r2 = r2
  None = None
  ServiceCount = 2
  MaxPulls = 2
  PullEdits = 1
  MaxLosses = 1
  Managers = {m1, m2}
  MaxBoots = 2
  MaxPort = 2
  MaxCommands = 3
  MaxKills = 1
  MaxCrashes = 1
  Ids = {i1, i2, i3}
  Chunks = {chunk}
  MaxBytes = 2
  MaxTotal = 2
  MaxPending = 3
  MaxLeases = 2
  LeaseTtl = 1
  FinalTtl = 1
  MaxSequence = 4
  MaxTime = 1
  StoreFaults = 1
  MaxRestarts = 1
  Runs = {r1, r2}
  GroupSize = 2
  MaxQueue = 1
  MaxTimeouts = 1
  RunFaults = 1
  RunCrashes = 1
  MaxDisconnects = 1
  MaxOthers = 1
INVARIANTS TypeOK NoLostWakeup StudioFollows MovesAreExact PullIsWhole StoreIsConsistent
PROPERTIES DaemonIsKnown GroupIsWhole
CHECK_DEADLOCK FALSE
