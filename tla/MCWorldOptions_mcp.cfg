SPECIFICATION Spec
CONSTANTS
  None = None
  Editors = {"admin", "mcp"}
  Services = {}
  Timeouts = {60, 600}
  Hosts = {"a", "b"}
  Faults = {}
  MaxCrashes = 1
  MaxQueue = 1
INVARIANT
  EditsAreKept
CHECK_DEADLOCK FALSE
