SPECIFICATION FairSpec

CONSTANTS
  s1 = s1  s2 = s2
  Songs <- TwoSongs
  MaxVersion = 2
  PageSize = 1
  BatchSize = 1
  Faults = {"store", "bleve"}
INVARIANT
  VersionInv
PROPERTIES
  NeverStaler
  ListedIsSearchable
