SPECIFICATION Spec
CONSTANTS
  Nodes = {n1, n2}
  Trusted = {n1}
  MaxConns = 3
  MaxFaults = 2
  MaxBuffered = 1
INVARIANTS TypeOK EntryHasOpenSocket
PROPERTIES RefinesNodeLink ComesBack
CHECK_DEADLOCK FALSE
