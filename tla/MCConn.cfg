CONSTANTS
  Loops = {"poller", "ring"}
  Scripts <- AllScripts
  CHUNK = 6
  SPARE = 2
  MAX_REQUEST = 12
  MAX_REPLY = 3
  SOCKET = 4
  MAY_SHUT = TRUE
  MAY_VANISH = TRUE
SPECIFICATION FairSpec
INVARIANTS
  TypeOK
  RepliesInOrder
  ReplyBounded
  LastReplyWritten
PROPERTIES
  Answered
  Drains
CHECK_DEADLOCK FALSE
