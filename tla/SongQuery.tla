----------------------------- MODULE SongQuery -----------------------------
(***************************************************************************)
(* Which songs a search finds: the sub-queries the searcher builds from    *)
(* what was typed, the fields the indexer makes of a song, how Bleve       *)
(* analyses both, and the LIKE query of the table.                         *)
(*                                                                         *)
(* A song is a record of title, artist, their initial consonants as stored *)
(* by the fetcher, and number (as typed).  Scores are left out, and so are *)
(* the wildcards of LIKE and the NFKC form of the analyser, which changes  *)
(* the index and the query alike.                                          *)
(***************************************************************************)
EXTENDS Text

\* The 19 initial consonants, in the order of the syllables.
chosungs == <<12593, 12594, 12596, 12599, 12600, 12601, 12609, 12610, 12611, 12613,
              12614, 12615, 12616, 12617, 12618, 12619, 12620, 12621, 12622>>

InitialOf(r) == chosungs[(((r - 44032) \div 28) \div 21) + 1]

ExtractChosung(s) == Apply(LAMBDA r : IF r \in Syllables THEN InitialOf(r) ELSE r, s)

\* The first letter of each word; any letter will do, a syllable too.
Heads(s) ==
    {i \in DOMAIN s : /\ s[i] \in Letters
                      /\ \A j \in 1 .. i - 1 : s[j] \in Letters =>
                           \E k \in j .. i : IsSpace(s[k])}

ExtractEnglishInitials(s) == ToLower(Subsequence(s, Heads(s)))

ContainsKorean(s) == ToSet(s) \cap (Syllables \cup Jamo) # {}

\* Faulty variant: no spaces.
IsChosungOnlyNoSpace(s) == s # <<>> /\ ToSet(s) \subseteq Jamo

IsChosungOnly(s) == ToSet(s) \subseteq Jamo \cup {Space} /\ ToSet(s) \cap Jamo # {}

isNumeric(s) == s # <<>> /\ ToSet(s) \subseteq Digits

-----------------------------------------------------------------------------
\* FetchByMonth, as far as the texts go.
FetchedSong(indexTitle, indexSong, number) ==
    LET title  == TrimSpace(indexTitle)
        artist == TrimSpace(indexSong)
    IN  [title |-> title, artist |-> artist, tj_number |-> number,
         title_chosung |-> ExtractChosung(title), artist_chosung |-> ExtractChosung(artist)]

toSongDocument(song) ==
    LET title  == TrimSpace(song.title)
        artist == TrimSpace(song.artist)
    IN  [tj_number |-> song.tj_number, title |-> title, artist |-> artist,
         title_chosung |-> TrimSpace(song.title_chosung),
         artist_chosung |-> TrimSpace(song.artist_chosung),
         title_initials |-> ExtractEnglishInitials(title),
         artist_initials |-> ExtractEnglishInitials(artist),
         full_text |-> title \o <<Space>> \o artist \o <<Space>> \o song.tj_number]

\* koCJKEdgeNgram: words in lower case, and of each its first 1 to 4 characters.
Tokens(s) ==
    LET low == ToLower(s)
        Starts(i) == IsWordChar(low[i]) /\ (i > 1 => ~ IsWordChar(low[i - 1]))
        Ends(i)   == {j \in i .. i + 3 : \A k \in i .. j : k \in DOMAIN s /\ IsWordChar(low[k])}
    IN  UNION {{SubSeq(low, i, j) : j \in Ends(i)} : i \in {i \in DOMAIN s : Starts(i)}}

-----------------------------------------------------------------------------
Term(field, text) == [kind |-> "term", field |-> field, text |-> text]
Match(field, text) == [kind |-> "match", field |-> field, text |-> text]

InitialsMaxBytes == 10

\* Faulty variant: initials are looked for as they were typed.
buildSubQueriesCaseKept(q) ==
    {Match("title", q), Match("artist", q), Match("full_text", q),
     Term("title_initials", q), Term("artist_initials", q)}

\* Faulty variant: a query with any Korean in it is taken for initials.
buildSubQueriesKoreanOnly(q) ==
    IF ContainsKorean(q) THEN {Term("title_chosung", q), Term("artist_chosung", q)}
    ELSE {Match("title", q), Match("artist", q), Match("full_text", q)}

\* Without Korean, as for the initials, a character is taken for one byte.
buildSubQueries(q) ==
    (IF isNumeric(q) THEN {Term("tj_number", q)} ELSE {})
    \cup IF IsChosungOnly(q) THEN {Term("title_chosung", q), Term("artist_chosung", q)}
         ELSE {Match("title", q), Match("artist", q), Match("full_text", q)}
              \cup (IF ContainsKorean(q) /\ ExtractChosung(q) # q
                    THEN {Term("title_chosung", ExtractChosung(q)),
                          Term("artist_chosung", ExtractChosung(q))}
                    ELSE {})
              \cup (IF ~ ContainsKorean(q) /\ Len(q) <= InitialsMaxBytes
                    THEN {Term("title_initials", ToLower(q)),
                          Term("artist_initials", ToLower(q))}
                    ELSE {})

\* A keyword field is one token, taken as it is.
Satisfies(doc, sub) ==
    IF sub.kind = "term" THEN doc[sub.field] = sub.text
    ELSE Tokens(doc[sub.field]) \cap Tokens(sub.text) # {}

\* A blank query is an error, and SQL's turn.
BleveFinds(q, song) ==
    LET query == TrimSpace(q)
    IN  query # <<>> /\ \E sub \in buildSubQueries(query) : Satisfies(toSongDocument(song), sub)

\* Faulty variant: the stored initials are not looked at.
SqlFindsNoChosung(q, song) == \E field \in {"title", "artist", "tj_number"} : Like(song[field], q)

\* The WHERE clause of Search.
SqlFinds(q, song) ==
    \E field \in {"title", "artist", "title_chosung", "artist_chosung", "tj_number"} :
      Like(song[field], q)
=============================================================================
