SPECIFICATION Spec
CONSTANTS
  MAX_PRICE_LEVELS = 4
  U32 = 8
  PriceInputs <- MCPriceInputs
  Quantities = {0, 1, 3, 5}
PROPERTY AsksAreMade
