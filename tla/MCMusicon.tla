----------------------------- MODULE MCMusicon -----------------------------
(* Constants of the instances on which TLC checks Musicon.                 *)
EXTENDS Musicon, TLC

CONSTANTS d1, d2, h1, h2, iu, s1, s2, palette, server, cli

OneDevice == {d1}
TwoDevices == {d1, d2}
OneHandler == {h1}
TwoHandlers == {h1, h2}
OneSong == {s1}
TwoSongs == {s1, s2}

\* Both songs are by the one artist; their titles contain the one title term.
AllByIu(S) == [s \in S |-> {iu}]
AllTitled(S) == [s \in S |-> {palette}]
ArtistOfOne == AllByIu(OneSong)
ArtistOfTwo == AllByIu(TwoSongs)
TitleOfOne == AllTitled(OneSong)
TitleOfTwo == AllTitled(TwoSongs)
SecondUntitled == [s \in TwoSongs |-> IF s = s1 THEN {palette} ELSE {}]

SameMonth == [s \in TwoSongs |-> 1]
OnlyMonth == [s \in OneSong |-> 1]
MonthByMonth == [s \in TwoSongs |-> IF s = s1 THEN 1 ELSE 2]

\* No run with this symmetry checks a liveness property.
Interchangeable == Permutations(Devices) \cup Permutations(Handlers)
=============================================================================
