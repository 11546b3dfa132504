SPECIFICATION FairSpec
CONSTANTS
  None = None
  r1 = r1
  r2 = r2
  o1 = o1
  o2 = o2
  Rooms = {r1, r2}
  RoomObjects = {o1, o2}
  Media <- Mic
  MaxAttempts = 2
  MaxFrames = 2
INVARIANTS
  TypeOK
  OneLiveRoom
PROPERTIES
  MuteHolds
  LeaveIsHonoured
CHECK_DEADLOCK FALSE
