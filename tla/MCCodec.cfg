SPECIFICATION Spec
CONSTANTS
  Sides = {"resp", "entry", "group"}
  none = none
  Nothing = none
  Missing = none
  Pipelines <- RespPipelines
  Noise <- RespNoise
  Quits <- RespQuits
  WIRE_MAX = 30
  MAX_ARGS = 3
  MAX_BULK = 11
  MAX_INLINE = 6
  AHEAD = 2
  PAYLOAD = 8
  WORD = 2
  EntryKeys <- EKeys
  EntryValues <- EValues
  Words <- EWords
  ENTRY_MAX = 12
  MAX_TEXT = 3
  Steps <- ESteps
  LANES = 3
  LANE_BITS = 3
INVARIANTS
  SplitFree
  PeekAgrees
  EntryReads
  OneSpelling
  LanesOnce
CHECK_DEADLOCK FALSE
