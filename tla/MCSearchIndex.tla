--------------------------- MODULE MCSearchIndex ---------------------------
(* Constants of the instance on which TLC checks the versions in the index. *)
EXTENDS SearchIndex

CONSTANTS s1, s2

TwoSongs == {s1, s2}
=============================================================================
