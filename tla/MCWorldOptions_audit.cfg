SPECIFICATION Spec
CONSTANTS
  None = None
  Editors = {"admin"}
  Services = {"audit"}
  Timeouts = {30, 600}
  Hosts = {"a", "b"}
  Faults = {}
  MaxCrashes = 1
  MaxQueue = 1
INVARIANT
  OptionsReachAudit
CHECK_DEADLOCK FALSE
