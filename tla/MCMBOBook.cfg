SPECIFICATION ScannedSpec
CONSTANTS
  NULL = NULL
  Books = {b1}
  MAX_ORDERS = 3
  MAX_PRICE_LEVELS = 3
  U32 = 8
  PriceInputs <- MCPriceInputs
  Quantities = {1, 2}
  MaxAdds = 4
INVARIANTS
  LevelQtyExact
  BestExact
  DepthExact
  ScanAgrees
PROPERTIES
  LoopsEnd
  StepsAsPriceLevelBook
