SPECIFICATION CalmSpec
CONSTANTS
  Servers = {s1}
  Requests = {}
  Nodes = {n1}
  Needs = {1}
  RangeStart = 1
  RangeEnd = 1
  NoRow = NoRow
  MaxFaults = 0
  Troubles = {}
PROPERTY CreatedIsShownRunning
CHECK_DEADLOCK FALSE
