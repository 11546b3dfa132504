SPECIFICATION PartsSpec
CONSTANTS
  None = None
  q1 = q1
  q2 = q2
  q3 = q3
  m1 = m1
  m2 = m2
  Coords = {q1, q2, q3}
  Maps = {m1, m2}
  Home <- MCHome
  Faults = {"displace", "crash", "store"}
  MaxWriters = 2
  ProfileFaults = {"store"}
  Edits <- MCEdits
  MaxWork = 2
  MaxTold = 1
  Editors = {"admin", "mcp"}
  Services = {"ext-rec"}
  Timeouts = {30, 600}
  Hosts = {"a", "b"}
  OptionsFaults = {"crash"}
  MaxCrashes = 1
  MaxQueue = 1
INVARIANTS
  SkipIsSound
  ProfileAgrees
  OptionsReach
PROPERTIES
  RestoredWhereLeft
  StandingIsSaved
CHECK_DEADLOCK FALSE
