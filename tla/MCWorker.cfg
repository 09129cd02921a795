CONSTANTS
  c1 = c1
  c2 = c2
  None = None
  Clients <- TwoClients
  LISTENERS = 1
  Targets = {"linux", "other"}
  ENTRIES = 2
  CQ_ENTRIES = 2
  WRAP = 4
SPECIFICATION FairSpec
INVARIANTS
  TypeOK
  OneInFlight
  EventMine
PROPERTY Welcomed
CHECK_DEADLOCK FALSE
