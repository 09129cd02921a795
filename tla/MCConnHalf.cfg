CONSTANTS
  Loops = {"poller"}
  Scripts <- Pipelines
  CHUNK = 6
  SPARE = 2
  MAX_REQUEST = 12
  MAX_REPLY = 3
  SOCKET = 3
  MAY_SHUT = TRUE
  MAY_VANISH = FALSE
SPECIFICATION Spec
INVARIANT LastReplyAlwaysWritten
CHECK_DEADLOCK FALSE
