SPECIFICATION Spec
CONSTANTS
  NULL = NULL
  BookIds <- MCBookIds
  MAX_SYMBOLS = 4
  MAX_CACHE_SIZE = 3
  MAX_FREQUENCY = 4
  MaxAccesses = 7
INVARIANTS
  BucketsChained
  MinFrequencyExact
  SlotsPaired
  CountersAgree
  BooksIsolated
PROPERTIES
  EvictsLeastFrequent
  RefinesLFU
