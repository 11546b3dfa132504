SPECIFICATION FairSpec
CONSTANTS
  None = None
  c1 = c1
  c2 = c2
  u1 = u1
  g = g
  m1 = m1
  m2 = m2
  Clients = {c1, c2}
  Users = {u1}
  Guest = g
  UserOf <- MCUserOf
  Admins = {}
  Maps = {m1}
  Bans <- SharedDeviceBan
  Faults = {"loss", "pusher", "timeout"}
PROPERTIES
  NoZombieWindow
  OrphansLeave
  BannedLeave
  RequestsSettle
CHECK_DEADLOCK FALSE
