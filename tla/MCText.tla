------------------------------- MODULE MCText -------------------------------
(***************************************************************************)
(* The pure functions on two short strings, which are typed one character  *)
(* after the other: as the title of a song and a query, or as the title of *)
(* a track and that of a song.                                             *)
(***************************************************************************)
EXTENDS SongQuery, TrackMatching

CONSTANTS
    QueryChars, MaxTitle,
    MatchChars, MaxLength

MCNoiseWords == {<<98, 98>>}

VARIABLES use, left, right

Init == use \in {"query", "match"} /\ left = <<>> /\ right = <<>>

TypeLeft ==
    /\ Len(left) < IF use = "query" THEN MaxTitle ELSE MaxLength
    /\ \E c \in IF use = "query" THEN QueryChars ELSE MatchChars : left' = Append(left, c)
    /\ UNCHANGED <<use, right>>

TypeRight ==
    /\ Len(right) < IF use = "query" THEN MaxTitle ELSE MaxLength
    /\ \E c \in IF use = "query" THEN QueryChars ELSE MatchChars : right' = Append(right, c)
    /\ UNCHANGED <<use, left>>

StartOver == left # <<>> /\ left' = <<>> /\ right' = <<>> /\ UNCHANGED use

Next == TypeLeft \/ TypeRight \/ StartOver

Spec == Init /\ [][Next]_<<use, left, right>>

-----------------------------------------------------------------------------
(* What a search finds.                                                    *)

Artists == {<<>>, <<97>>, <<44620>>}

SongsTitled(title) == {FetchedSong(title, artist, <<49, 49>>) : artist \in Artists}

(* A song is found by its title, typed in full: whichever sub-queries      *)
(* buildSubQueries chooses for it, one of them looks at a field that       *)
(* toSongDocument and the analyser have filled from the title.  A title    *)
(* without any letter or digit is never found.                             *)
FoundByTitle ==
    use = "query" /\ right = left /\ (\E i \in DOMAIN left : IsWordChar(left[i])) =>
      \A song \in SongsTitled(left) : BleveFinds(right, song)

\* The initial consonants by their places among the syllables.
Initials(title) ==
    Apply(LAMBDA r : IF r \in Syllables
                     THEN chosungs[CHOOSE n \in 1 .. 19 :
                                     r - 44032 \in 588 * (n - 1) .. 588 * n - 1]
                     ELSE r, title)

(* A Korean title is found by its initial consonants, as typed by a user   *)
(* and as extracted when the song was fetched.  This is for titles of      *)
(* syllables, consonants and spaces: for another, a query of its initials  *)
(* is not IsChosungOnly, and the stored ones are one keyword.              *)
FoundByChosung ==
    use = "query" /\ right = Initials(left) /\ ContainsKorean(left)
                  /\ ToSet(left) \subseteq Syllables \cup Jamo \cup {Space} =>
      \A song \in SongsTitled(left) : BleveFinds(right, song)

(* A title without Korean is found by the first letters of its words, in   *)
(* capitals or not, if they are few enough to be taken for initials.       *)
FoundByInitials ==
    use = "query" /\ right # <<>> /\ Len(right) <= InitialsMaxBytes /\ ~ ContainsKorean(left)
                  /\ ToLower(right) = ExtractEnglishInitials(left) =>
      \A song \in SongsTitled(left) : BleveFinds(right, song)

(* For initial consonants the index is the sharper of the two: it finds    *)
(* nothing that LIKE would not (the report's "noise removed"), so that a   *)
(* fall back to SQL loses no hit.                                          *)
ChosungIsSharper ==
    use = "query" /\ IsChosungOnly(right) /\ right = TrimSpace(right) =>
      \A song \in SongsTitled(left) : BleveFinds(right, song) => SqlFinds(right, song)

-----------------------------------------------------------------------------
(* Which song a track is matched with.                                     *)

(* Jaro-Winkler does not depend on the order of its arguments, although    *)
(* the characters of one are given, greedily, those of the other.          *)
JaroSymmetric ==
    use = "match" /\ Len(left) <= Len(right) =>
      JaroWinkler(left, right) = JaroWinkler(right, left)

(* It is between 0 and 1, and 1 for equal strings only.                    *)
OneIfEqual ==
    use = "match" =>
      LET score == JaroWinkler(left, right)
      IN  score \in 0 .. Whole /\ (score = Whole <=> left = right)

Titled(title, artist) == [title |-> title, artist |-> artist]

\* Whatever normalisation removes is at one of the ends.
PlainInside(title) == Normalize(title) # <<>> /\ Like(title, Normalize(title))

(* A track whose song is in the table, with the same title and artist, is  *)
(* matched with it or with one that is the same after normalisation, be it *)
(* before or after another good song: normalisation, keyword, LIKE and     *)
(* score let it through.  This is for titles of which normalisation removes *)
(* nothing in between: the keyword is a part of the normalised title, and  *)
(* is looked for in the original one.                                      *)
SameSongWins ==
    use = "match" /\ PlainInside(left) =>
      \A artist \in {<<>>, <<97>>} :
        LET track == Titled(left, artist)
            other == Titled(right, artist)
        IN  \A songs \in {<<track, other>>, <<other, track>>} :
              \E song \in ToSet(MatchTrack(track, songs)) :
                Normalized(song) = Normalized(track)
=============================================================================
