SPECIFICATION Spec
CONSTANTS
  Tabs = {t1, t2}
  Users = {ann, bob}
  Watched = {t1}
  MaxLogins = 2
  MaxInFlight = 2
  None = None
SYMMETRY Symmetry
INVARIANTS TypeOK TabsAgree LiveSessionIsKept CacheIsExplained
CONSTRAINT OthersStayOpen
CHECK_DEADLOCK FALSE
