SPECIFICATION Spec
CONSTANTS
  Files = {f, g}
  Wake = Wake
  Resync = Resync
  QueueCap = 4
  ChannelCap = 4
  MaxEdits = 3
  MaxMoves = 1
  MaxFaults = 0
  SlowDrain = FALSE
  RacingDisk = TRUE
INVARIANTS NothingLost
CHECK_DEADLOCK FALSE
