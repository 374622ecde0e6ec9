SPECIFICATION Spec
CONSTANTS
  Servers = {s1}
  Requests = {}
  Nodes = {n1}
  Needs = {1}
  RangeStart = 1
  RangeEnd = 1
  NoRow = NoRow
  MaxFaults = 0
  Troubles = {"slow"}
INVARIANT RowOutlivesContainer
CHECK_DEADLOCK FALSE
