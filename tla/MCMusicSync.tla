---------------------------- MODULE MCMusicSync ----------------------------
(* Constants of the instances on which TLC checks MusicSync.               *)
EXTENDS MusicSync, TLC

CONSTANTS d1, d2, e1, s1, spotify, youtube, h1, h2

OneDevice == {d1}
TwoDevices == {d1, d2}
OneTrack == {e1}
OneService == {youtube}
TwoServices == {spotify, youtube}
TwoHandlers == {h1, h2}
OneHandler == {h1}

FirstIsKnown == [e \in Exts |-> IF e = e1 THEN s1 ELSE NoSong]

Interchangeable == Permutations(Devices) \cup Permutations(Handlers)
=============================================================================
