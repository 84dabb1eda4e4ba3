SPECIFICATION Spec
CONSTANTS
  a = a
  b = b
  Files <- MCFiles
  Kinds <- MCKinds
  MaxLoads = 2
  MaxUpsets = 2
SYMMETRY Symm
INVARIANTS CacheTrue Indexed
PROPERTIES ScanKeepsIds
CHECK_DEADLOCK FALSE
