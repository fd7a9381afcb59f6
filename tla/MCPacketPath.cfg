SPECIFICATION Spec
CONSTANTS
  Queues = {0, 1}
  queue_id = 0
  Frames <- MCFrames
  MARKET_DATA_PORT = 1234
  BYTE = 4
  MAX_PACKETS = 2
  NONE = NONE
INVARIANTS
  RedirectedParsed
  FramesConserved
PROPERTIES
  NothingMissed
CHECK_DEADLOCK FALSE
