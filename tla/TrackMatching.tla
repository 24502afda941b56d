--------------------------- MODULE TrackMatching ---------------------------
(***************************************************************************)
(* Which song of the table is the match of a track: normalisation, the     *)
(* keyword and its LIKE query, Jaro-Winkler similarity and the best score. *)
(* A similarity is a number of parts of Whole here, exact for strings of   *)
(* up to 6 characters, and a float64 in the code, which may differ where   *)
(* two scores are equal or one is just the minimum.                        *)
(***************************************************************************)
EXTENDS Text

CONSTANTS
    NoiseWords,       \* the words of noiseRe that are one run of characters
    KeywordLength,    \* 10 runes in the code
    MaxCandidates     \* LIMIT 100

ASSUME TrackMatchingAssumption == KeywordLength \in Nat \ {0} /\ MaxCandidates \in Nat

Opening == {40, 91, 123}              \* ( [ {
Closing == {41, 93, 125}              \* ) ] }

-----------------------------------------------------------------------------
(* normalizer.go.                                                          *)

\* The closing bracket that ends the match of parenRe at i, or none.
ClosingOf(s, i) == {j \in DOMAIN s : /\ j > i /\ s[j] \in Closing
                                     /\ \A k \in i + 1 .. j - 1 : s[k] \notin Closing}

\* Leftmost matches come first and do not overlap: an opening bracket within
\* brackets is part of their content.
Bracketed(s) ==
    {k \in DOMAIN s : \E i \in 1 .. k : /\ s[i] \in Opening
                                        /\ \E j \in ClosingOf(s, i) : k <= j}

Without(s, positions) == Subsequence(s, DOMAIN s \ positions)

\* noiseRe: a noise word between two word boundaries, which are those of ASCII.
Noise(s) ==
    {k \in DOMAIN s : \E i \in 1 .. k, j \in k .. Len(s) :
       /\ SubSeq(s, i, j) \in NoiseWords
       /\ i = 1 \/ ~ IsAsciiWordChar(s[i - 1])
       /\ j = Len(s) \/ ~ IsAsciiWordChar(s[j + 1])}

CollapseSpaces(s) ==
    Without(s, {i \in DOMAIN s : i > 1 /\ IsSpace(s[i]) /\ IsSpace(s[i - 1])})

Normalize(s) ==
    LET plain == Without(ToLower(s), Bracketed(s))
    IN  TrimSpace(CollapseSpaces(Without(plain, Noise(plain))))

-----------------------------------------------------------------------------
(* fuzzy.go.                                                               *)

\* 3 * 10 * 10 times the least common multiple of 1, ..., 6 and 2, 4, ..., 12.
Whole == 36000

\* Faulty variant: the window of the first string.
MatchWindowOfFirst(s, t) == Max({0, (Len(s) \div 2) - 1})

MatchWindow(s, t) == Max({0, (Max({Len(s), Len(t)}) \div 2) - 1})

\* Each character of s in turn takes the first equal one of t within the window
\* that is free: the pairs of their positions.
Matched(s, t) ==
    LET Free(pairs, i) ==
          {j \in DOMAIN t : /\ j - i \in -MatchWindow(s, t) .. MatchWindow(s, t)
                            /\ s[i] = t[j]
                            /\ \A pair \in pairs : pair[2] # j}
        Take(pairs, i) ==
          LET free == Free(pairs, i)
          IN  IF free = {} THEN pairs ELSE pairs \cup {<<i, Min(free)>>}
        upto[i \in 0 .. Len(s)] == IF i = 0 THEN {} ELSE Take(upto[i - 1], i)
    IN  upto[Len(s)]

MatchedLeft(pairs) == {pair[1] : pair \in pairs}
MatchedRight(pairs) == {pair[2] : pair \in pairs}

\* Faulty variant: the order of the matches is not looked at.
TranspositionsNone(s, t, pairs) == 0

\* Matched characters of s and t that differ, in their orders.
Transpositions(s, t, pairs) ==
    LET left  == Subsequence(s, MatchedLeft(pairs))
        right == Subsequence(t, MatchedRight(pairs))
    IN  Cardinality({k \in DOMAIN left : left[k] # right[k]})

Jaro(s, t) ==
    LET pairs   == Matched(s, t)
        matches == Cardinality(pairs)
        inOrder == 2 * matches - Transpositions(s, t, pairs)
    IN  IF s = <<>> /\ t = <<>> THEN Whole
        ELSE IF matches = 0 THEN 0
        ELSE ((Whole * matches) \div Len(s) + (Whole * matches) \div Len(t)
                + (Whole * inOrder) \div (2 * matches)) \div 3

JaroWinkler(s, t) ==
    LET jaro   == Jaro(s, t)
        prefix == Min({4, Len(LongestCommonPrefix({s, t}))})
    IN  IF jaro = 0 THEN 0 ELSE jaro + (prefix * (Whole - jaro)) \div 10

-----------------------------------------------------------------------------
(* scorer.go.                                                              *)

MinMatchScore == (7 * Whole) \div 10

Score(track, song) ==
    LET title == JaroWinkler(track.title, song.title)
    IN  IF track.artist = <<>> THEN title
        ELSE (6 * title + 4 * JaroWinkler(track.artist, song.artist)) \div 10

Normalized(x) == [title |-> Normalize(x.title), artist |-> Normalize(x.artist)]

\* The candidates with a score that will do, by their places.
GoodMatches(track, candidates) ==
    LET norm   == Normalized(track)
        scored == {[at |-> i, score |-> Score(norm, Normalized(candidates[i]))] :
                     i \in DOMAIN candidates}
    IN  {c \in scored : c.score >= MinMatchScore}

\* Faulty variant: the first candidate that will do.
BestMatchFirst(track, candidates) ==
    LET good == GoodMatches(track, candidates)
    IN  IF good = {} THEN <<>> ELSE <<candidates[Min({c.at : c \in good})]>>

\* The first of those with the highest score.
BestMatch(track, candidates) ==
    LET good == GoodMatches(track, candidates)
        best == {c \in good : \A d \in good : d.score <= c.score}
    IN  IF good = {} THEN <<>> ELSE <<candidates[Min({c.at : c \in best})]>>

-----------------------------------------------------------------------------
(* matchTrack, as far as it computes.                                      *)

ExtractKeyword(title) == First(Normalize(title), KeywordLength)

\* The rows in the order of the table, wildcards escaped.
FindCandidateSongs(songs, keyword) ==
    LET IsHit(song) == Like(song.title, keyword) \/ Like(song.artist, keyword)
    IN  First(Subsequence(songs, {i \in DOMAIN songs : IsHit(songs[i])}), MaxCandidates)

\* The song the track is matched with, if any.
MatchTrack(track, songs) ==
    LET keyword == ExtractKeyword(track.title)
    IN  IF keyword = <<>> THEN <<>>
        ELSE BestMatch(track, FindCandidateSongs(songs, keyword))
=============================================================================
