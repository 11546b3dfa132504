SPECIFICATION FairSpec
CONSTANTS
  None = None
  r1 = r1
  Rooms = {r1}
  MaxRecs = 2
  Mp4 <- Target
  Requests = {"manual"}
  MaxLimit = 2
  MaxFaults = 1
  Faults = {"crash", "calls", "overlap"}
INVARIANTS
  TypeOK
  RunningIsKnown
PROPERTIES
  OutcomesStand
  EmptyRoomsSettle
  ExtractionsGoOn
