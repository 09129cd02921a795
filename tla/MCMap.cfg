CONSTANTS
  t1 = t1
  t2 = t2
  a = a
  b = b
  c = c
  Text = Text
  None = None
  Nobody = Nobody
  Threads <- TwoThreads
  Keys <- ThreeKeys
  Shards = {0, 1}
  ShardOf <- MCShardOf
  Calls <- AllCalls
  MAX = 1
  MAX_TIME = 1
  MAY_EVICT = TRUE
SPECIFICATION Spec
SYMMETRY ThreadsAlike
INVARIANTS
  TypeOK
  PublishedWhenFree
  AsksEmptyHanded
PROPERTY
  ChangedAsAsked
