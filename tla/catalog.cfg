SPECIFICATION Spec
CONSTANTS
  MaxRecords = 3
  TextLengths = {0, 5, 600, 32767}
  ShortMax = 32767
  MaxRows = 2
  Rows <- MCRows
  Searches <- MCSearches
  LongSets <- MCLongSets
  Drivers <- MCDrivers
INVARIANTS ListingsExact ErrorExact EveryDriverListed
PROPERTY
  ObedientDriverListed
