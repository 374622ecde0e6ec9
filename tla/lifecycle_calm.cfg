SPECIFICATION Spec
CONSTANTS
  Servers = {s1}
  Requests = {r1, r2}
  Nodes = {n1}
  Needs = {1}
  RangeStart = 1
  RangeEnd = 1
  NoRow = NoRow
  MaxFaults = 0
  Troubles = {}
SYMMETRY Symmetry
INVARIANTS RowOutlivesContainer RowHasContainer
CHECK_DEADLOCK FALSE
