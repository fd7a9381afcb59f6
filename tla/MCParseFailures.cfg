SPECIFICATION Spec
CONSTANTS
  NUM_FRAMES = 6
  RING_SIZE = 3
  FILL_RING_SIZE = 6
  BATCH_SIZE = 2
  MAX_PACKETS = 4
  NONE = NONE
INVARIANT ParseFailuresAreUnparsed
CHECK_DEADLOCK FALSE
