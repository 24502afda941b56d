SPECIFICATION SearchSpec

CONSTANTS
  s1 = s1  s2 = s2  s3 = s3
  Songs <- ThreeSongs
  MaxVersion = 1
  PageSize = 2
  BatchSize = 1
  Queries <- MCQueries
  Limit = 2
  Faults = {"store", "bleve", "crash"}
SYMMETRY Interchangeable
INVARIANTS
  SearchInv
  IndexedIsStored
  RebuildCovers
  CoverInv
  HitsAreAnswered
  AskInv
