SPECIFICATION Spec
CONSTANTS
  NULL = NULL
  Books = {b1, b2}
  MAX_ORDERS = 3
  MAX_PRICE_LEVELS = 2
  U32 = 4
  PriceInputs <- MCPriceInputs
  Quantities = {0, 1, 3}
  MaxAdds = 3
SYMMETRY BookSymmetry
INVARIANTS
  TypeOK
  PoolConserved
  QueuesChained
  VolumeExact
  BestNotBehind
PROPERTIES
  RefinesPriceTime
