SPECIFICATION Parts
CONSTANTS
  p1 = p1
  p2 = p2
  c1 = c1
  r1 = r1
  r2 = r2
  Plugins = {p1, p2}
  Clients = {c1}
  Requests = {r1, r2}
  Origin <- OneOrigin
  y1 = y1
  y2 = y2
  z1 = z1
  Copies = {y1, y2}
  Pastes = {z1}
  MaxQueue = 1
  MaxStrokes = 1
  MaxFaults = 1
  MaxCrashes = 1
  None = None
  NoConn = NoConn
  MaxRoutes = 2
  MaxRoutesPerConn = 2
  OutCapacity = 1
  RequestCapacity = 1
PROPERTIES DisconnectReportIsTrue
CHECK_DEADLOCK FALSE
