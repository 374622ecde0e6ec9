SPECIFICATION SpecParts
CONSTANTS
  Servers = {s1, s2, s3}
  Nodes = {n1, n2}
  Needs = {1, 2, 3}
  RangeStart = 1
  RangeEnd = 4
  NoRow = NoRow
  Schemas <- AllSchemas
  ann = ann
  Ann = Ann
  bob = bob
  Typed = {ann, Ann, bob}
  Normal <- NormalizeEmail
  Calls = {c1, c2, c3}
  Passwords = {p1, p2}
  Subs = {g1, g2}
  None = None
  MaxLogLines = 2
  TailLines = 1
  Undefined = Undefined
  MaxLines = 4
  MaxOpens = 2
  MaxFaults = 1
SYMMETRY SymmetryOfCalls
INVARIANTS TypeOK ClashOnlyIfOverlapping LoopAgrees CreatedAsShown DefaultsAgree
           AccountsTypeOK TokenIsEarned SplitOnlyByRelink FailureMeansOverlap
           LogTypeOK BufferIsTail GapsAreExplained RepeatsAreExplained
CONSTRAINT FewEdits
CHECK_DEADLOCK FALSE
