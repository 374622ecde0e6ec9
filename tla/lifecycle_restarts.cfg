SPECIFICATION Spec
CONSTANTS
  Servers = {s1}
  Requests = {r1}
  Nodes = {n1}
  Needs = {1, 2}
  RangeStart = 1
  RangeEnd = 1
  NoRow = NoRow
  MaxFaults = 2
  Troubles = {"link", "api", "agent", "docker", "late"}
INVARIANTS TypeOK NoFalseSuccess WaitersArePending OrphansComeFromFailedCreates StatusIsGrounded
           RowHasContainer
PROPERTY RefinesHostPorts
CHECK_DEADLOCK FALSE
