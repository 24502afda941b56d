CONSTANTS
    t1 = t1
    t2 = t2
    t3 = t3
    t4 = t4
    Tracks <- MCTracks
    PageSize = 2
    MaxTracks = 3
    MaxPages = 2
    MaxChanges = 2
    Faults = {"provider"}
SPECIFICATION FairSpec
INVARIANTS
    FetchTypeOK
    NoTrackTwice
    NothingOverlooked
    FetchInv
PROPERTIES
    ListsTracks
    FetchEnds
