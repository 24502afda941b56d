SPECIFICATION FairSpec

CONSTANTS
  d1 = d1  d2 = d2  h1 = h1  h2 = h2  iu = iu  s1 = s1  s2 = s2
  palette = palette  server = server  cli = cli
  NoTitle = NoTitle  ZeroId = ZeroId  NoSong = NoSong  NoReq = NoReq
  Artists = {iu}
  Titles = {palette}
  Server = server
  Clis = {}
  Devices <- OneDevice
  Handlers <- OneHandler
  Songs <- TwoSongs
  ArtistIn <- ArtistOfTwo
  TitleIn <- TitleOfTwo
  MonthOf <- SameMonth
  MaxMonth = 1
  MaxReservations = 1
  BatchSize = 2
  Faults = {}
PROPERTY
  ArtistOnlyHearsAll
