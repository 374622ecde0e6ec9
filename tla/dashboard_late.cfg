SPECIFICATION PushOnly
CONSTANTS
  alice = alice
  bob = bob
  b1 = b1
  Users = {alice, bob}
  Browsers = {b1}
  Nodes = {n1}
  Servers = {s1}
  UserOf <- BrowserUser
  Absent = Absent
  Reported = {"running", "stopped"}
  MaxEvents = 4
INVARIANT ConnectionHeals
CHECK_DEADLOCK FALSE
