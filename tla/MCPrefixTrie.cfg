SPECIFICATION Spec
CONSTANTS
  MAX_NODES = 8
  ALPHABET_SIZE = 2
  SYMBOL_LEN = 3
  MAX_BOOKS = 3
  Symbols <- MCSymbols
  INVALID_BOOK_ID = INVALID_BOOK_ID
  NONE = NONE
INVARIANTS
  TreeShaped
  RoutesExact
PROPERTIES
  RefinesRouter
