SPECIFICATION FairSpec
CONSTANTS
  p1 = p1
  p2 = p2
  None = None
  Process = {p1, p2}
  NumObjects = 5
  SchemaVersion = 1
  FoundVersions = {1, 2}
  MaxFaults = 2
INVARIANTS
  OpenStoreIsWhole
  LoserFindsTheWinnersWork
PROPERTIES
  SchemaIsKept
  RetriedOpenSucceeds
