SPECIFICATION Spec
CONSTANTS
  None = None
  p1 = p1
  p2 = p2
  m1 = m1
  m2 = m2
  Players = {p1, p2}
  Maps = {m1, m2}
  LastCell = 2
  aoiSubscribeRadius = 0
  aoiUnsubscribeRadius = 1
  Windows = {"auth", "frame", "load", "return"}
SYMMETRY Symmetric
INVARIANTS
  SpawnedOnMap
  UpdatesLand
  NoGhost
PROPERTY TickIsExact
CHECK_DEADLOCK FALSE
