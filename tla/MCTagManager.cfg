SPECIFICATION TagSpec
CONSTANTS
  Paths <- MCPaths
  Songs <- MCSongs
  Releases <- MCReleases
  Places <- MCPlaces
  Volume <- MCVolume
  Named <- MCNamed
  Selections <- MCSelections
  MaxTokens = 3
  MaxFaults = 2
INVARIANTS WholeFiles LibraryAgrees
CHECK_DEADLOCK FALSE
