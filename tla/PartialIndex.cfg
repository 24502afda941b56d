SPECIFICATION SearchSpec

CONSTANTS
  s1 = s1  s2 = s2  s3 = s3
  Songs <- TwoSongs
  MaxVersion = 1
  PageSize = 1
  BatchSize = 1
  Queries <- MCQueries
  Limit = 2
  Faults = {"bleve"}
SYMMETRY Interchangeable
INVARIANT
  GracefulDegradation
