CONSTANTS
  t1 = t1
  t2 = t2
  None = None
  Keep = Keep
  Threads <- TwoThreads
  Keys = {"a", "b"}
  CommandsOf <- MCCommandsOf
  Numerals <- MCNumerals
  INT_MAX = 3
  CLOCK_MAX = 2
  SCALE = 2
  MAX_ARGS = 6
  Shards <- TwoShards
SPECIFICATION Spec
INVARIANTS
  TypeOK
  Framed
  InDialect
  ToldWhatHappened
  AbsencesApart
  CountsExactly
  LivesAsAsked
CHECK_DEADLOCK FALSE
