SPECIFICATION Spec

CONSTANTS
  d1 = d1  d2 = d2  h1 = h1  h2 = h2  iu = iu  s1 = s1  s2 = s2
  palette = palette  server = server  cli = cli
  NoTitle = NoTitle  ZeroId = ZeroId  NoSong = NoSong  NoReq = NoReq
  Artists = {iu}
  Titles = {palette}
  Server = server
  Clis = {cli}
  Devices <- OneDevice
  Handlers <- OneHandler
  Songs <- TwoSongs
  ArtistIn <- ArtistOfTwo
  TitleIn <- TitleOfTwo
  MonthOf <- MonthByMonth
  MaxMonth = 2
  MaxReservations = 1
  BatchSize = 1
  Faults = {"tj", "store", "expo"}
INVARIANTS
  IndInv
  PushedSongIsStored
PROPERTY
  KeepsLedger
