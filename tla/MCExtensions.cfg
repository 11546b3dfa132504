SPECIFICATION PartsSpec
CONSTANTS
  None = None
  Doors = {d1}
  Adjacents <- Apart
  Faults = {"walls", "worldsim", "reload", "admin"}
  SlowExts = {"walls"}
  MaxQueue = 1
  MaxFaults = 2
  Zones = {z1, z2}
  Groups = {a, b}
  AvMaxQueue = 2
  AvFaults = {"options", "restart"}
INVARIANTS
  TypesOK
  DoorMatchesWall
  RoomFollowsPlayer
PROPERTY GatesConverge
