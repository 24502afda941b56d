---------------------------- MODULE MCTrackFetch ----------------------------
(* Four tracks, two to a page, at most three returned: a call of Spotify's  *)
(* needs a second page, one of YouTube's stops after two.                   *)
EXTENDS TrackFetch

CONSTANTS t1, t2, t3, t4

MCTracks == {t1, t2, t3, t4}
=============================================================================
