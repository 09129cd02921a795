CONSTANTS
  t1 = t1
  t2 = t2
  a = a
  b = b
  c = c
  Text = Text
  None = None
  Nobody = Nobody
  Threads <- TwoThreads
  Keys <- TwoKeys
  Shards = {0, 1}
  ShardOf <- MCShardOf
  Calls <- PersistCalls
  MAX = 1
  MAX_TIME = 1
  MAY_EVICT = FALSE
SPECIFICATION Spec
SYMMETRY ThreadsAlike
INVARIANT
  PersistSaysWhatChanged
