SPECIFICATION Parts
CONSTANTS
  N = 2
  Windows = {w1, w2}
  Polls = {k1, k2}
  MaxScans = 2
  MaxEdits = 2
  MaxSubmits = 2
  Budgets <- Settings
  None = None
  Attempts = 2
  QueueMax = 2
  PollMax = 1
  Spares <- Plays
  NoPlay = NoPlay
SYMMETRY Symmetric
INVARIANTS TypeOK ToldIsTrue SelectionIsWhole InSyncIsTrue PlaytestIsTold
PROPERTIES DecisionSpec PushIsFenced
CHECK_DEADLOCK FALSE
