---------------------------- MODULE MCSongSearch ----------------------------
(* Constants of the instances on which TLC checks SongSearch.  The query    *)
(* matches every song: a narrower one only has fewer songs to deal with.    *)
EXTENDS SongSearch

CONSTANTS s1, s2, s3

TwoSongs == {s1, s2}
ThreeSongs == {s1, s2, s3}

MCQueries == {Doc}

\* No run with this symmetry checks a liveness property.
Interchangeable == Permutations(Songs)
=============================================================================
