CONSTANTS
  t1 = t1
  t2 = t2
  None = None
  Keep = Keep
  Threads <- Lone
  Keys = {"a"}
  CommandsOf <- LongLives
  Numerals <- MCNumerals
  INT_MAX = 3
  CLOCK_MAX = 2
  SCALE = 2
  MAX_ARGS = 6
  Shards <- OneShard
SPECIFICATION Spec
INVARIANT LivesAsAsked
CHECK_DEADLOCK FALSE
