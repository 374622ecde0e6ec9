SPECIFICATION Spec
CONSTANTS
  Tabs = {t1}
  Users = {ann, bob}
  Watched = {t1}
  MaxLogins = 2
  MaxInFlight = 1
  None = None
SYMMETRY Symmetry
INVARIANT OwnServersOnly
CHECK_DEADLOCK FALSE
