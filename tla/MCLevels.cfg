SPECIFICATION LevelsSpec
CONSTANTS
  MAX_PRICE_LEVELS = 4
  U32 = 8
  PriceInputs <- MCPriceInputs
  Quantities = {0, 1, 3, 5}
  MaxN = 8
  MaxVolume = 2
INVARIANTS
  BestNotBehind
  RangesExact
  SearchesExact
