SPECIFICATION Spec
CONSTANTS
  Servers = {s1, s2, s3}
  Nodes = {n1, n2}
  Needs = {1, 2}
  RangeStart = 1
  RangeEnd = 3
  NoRow = NoRow
SYMMETRY Symmetry
INVARIANTS NoSharedHostPort
CHECK_DEADLOCK FALSE
