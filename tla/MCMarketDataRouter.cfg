SPECIFICATION Spec
CONSTANTS
  Symbols = {s1, s2, s3, s4}
  MAX_NODES = 4
  MAX_BOOKS = 4
  INVALID_BOOK_ID = 9
  MAX_SYMBOLS = 3
  MAX_CACHE_SIZE = 2
  MAX_FREQUENCY = 3
  Orders = {o1, o2, o3}
  MAX_PRICE_LEVELS = 4
  U32 = 16
  DEFAULT_MID = 2
  PriceInputs = {2, 3, 4}
  Quantities = {1, 2}
  MAX_MESSAGES = 4
  NULL = NULL
SYMMETRY MCSymmetry
INVARIANTS
  OrdersIsolated
PROPERTIES
  OwnOrdersOnly
  StaysUncrossed
CHECK_DEADLOCK FALSE
