SPECIFICATION Spec

CONSTANTS
  d1 = d1  d2 = d2  h1 = h1  h2 = h2  iu = iu  s1 = s1  s2 = s2
  palette = palette  server = server  cli = cli
  NoTitle = NoTitle  ZeroId = ZeroId  NoSong = NoSong  NoReq = NoReq
  Artists = {iu}
  Titles = {palette}
  Server = server
  Clis = {}
  Devices <- TwoDevices
  Handlers <- TwoHandlers
  Songs <- OneSong
  ArtistIn <- ArtistOfOne
  TitleIn <- TitleOfOne
  MonthOf <- OnlyMonth
  MaxMonth = 1
  MaxReservations = 2
  BatchSize = 1
  Faults = {"tj", "store", "expo", "crash"}
SYMMETRY Interchangeable
INVARIANTS
  TypeOK
  SettledWasPushed
  NothingSettledIsSent
PROPERTY
  OwnerOnly
