SPECIFICATION Spec

CONSTANTS
  d1 = d1  d2 = d2  e1 = e1  s1 = s1  h1 = h1  h2 = h2
  spotify = spotify  youtube = youtube
  NoReq = NoReq  NoSong = NoSong
  Songs = {s1}
  SongOf <- FirstIsKnown
  Devices <- TwoDevices
  Providers <- OneService
  Exts <- OneTrack
  Handlers <- TwoHandlers
  MaxGrants = 2
  MaxRefreshes = 1
  Renewals = {0, 1}
  MaxRows = 2
  Faults = {"provider", "lost", "store", "crash"}
SYMMETRY Interchangeable
INVARIANTS
  MusicTypeOK
  MusicInv
  LibraryInv
  MatchOfItsTrack
  TokensStayWithDevice
PROPERTY
  KeepsLibrary
