SPECIFICATION DeleteSpec
CONSTANTS
  Servers = {s1}
  Requests = {r1}
  Nodes = {n1}
  Needs = {1}
  RangeStart = 1
  RangeEnd = 1
  NoRow = NoRow
  MaxFaults = 1
  Troubles = {"slow", "agent"}
INVARIANTS NoFalseSuccess OrphansComeFromFailedCreates
PROPERTY Answered
CHECK_DEADLOCK FALSE
