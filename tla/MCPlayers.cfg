SPECIFICATION PartsSpec
CONSTANTS
  None = None
  m1 = m1
  m2 = m2
  Windows = {"c1", "c2"}
  MaxLines = 2
  Moods <- MCMoods
  Layouts <- MCLayouts
  Players = {1, 2, 3}
  Maps = {m1}
  LastCell = 1
  Portals = {}
  DndUsers = {1}
  Places <- Everywhere
  AvEnabled = {}
  proximityRadius = 0
  proximityExitRadius = 1
  proximityStationaryThreshold = 1
INVARIANTS
  TypesOK
  ConversationsAgree
PROPERTIES
  CirclesAgree
  RoomsAreStable
  WallsHold
CHECK_DEADLOCK FALSE
