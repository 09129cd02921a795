CONSTANTS
  k1 = k1
  k2 = k2
  k3 = k3
  None = None
  Keys <- OneGroup
  Values = {1, 2}
  Times = {1, 2}
  Deadlines = {2}
  EMPTY = "empty"
  DELETED = "deleted"
  GroupHash <- MCGroupHash
  Tag <- MCTag
  WIDTH = 2
  Capacities = {2, 4, 8}
  MIN_CAPACITY = 2
  LOAD_NUM = 3
  LOAD_DEN = 4
  SizeOf <- MCSizeOf
  EXPIRY_BYTES = 1
  SLOT_BYTES = 1
  U32_MAX = 9
  BUDGET = 6
  EVICT_MAX = 2
  SWEEP_BUDGET = 3
SPECIFICATION FairSpec
INVARIANTS
  TypeOK
  Accounted
  ProbeEnds
  EveryEntryFound
  ReserveMakesRoom
  SpareHeld
PROPERTIES
  ImplementsCache
  Returns
