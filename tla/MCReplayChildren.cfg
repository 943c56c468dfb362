CONSTANTS
  None = None
  Items <- MCItems
  Workers = 3
  Memory = 4
  MaxRSS = 2
  Budget = 1
  Floor = 1
SPECIFICATION Spec
INVARIANTS
  MemoryGuarded
  NoResultLost
PROPERTIES
  AllSettle
