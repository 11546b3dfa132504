SPECIFICATION FairSpec
CONSTANTS
  None = None
  m1 = m1
  m2 = m2
  Players = {1, 2}
  Maps = {m1, m2}
  LastCell = 2
  Portals <- Ends
  DndUsers = {1, 2}
  Places <- Everywhere
  AvEnabled <- MeetingRoom
  proximityRadius = 0
  proximityExitRadius = 1
  proximityStationaryThreshold = 1

PROPERTIES
  StandingTogether
  AloneLeaves

CHECK_DEADLOCK FALSE
