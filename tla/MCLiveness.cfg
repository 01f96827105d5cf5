SPECIFICATION Spec
CONSTANTS
  p1 = p1
  c1 = c1
  r1 = r1
  r2 = r2
  NoConn = NoConn
  file1 = file1
  file2 = file2
  Wake = Wake
  Resync = Resync
  Absent = Absent
  None = None
  w1 = w1
  k1 = k1
  k2 = k2
PROPERTIES EveryRequestEnds SlotIsReleased Converges QuarantineEnds StreamEnds ServiceReturns DecisionLands
CHECK_DEADLOCK FALSE
