---------------------------- MODULE TrackProofs ----------------------------
(***************************************************************************)
(* FetchUserTracks, for any lists, page sizes and limits, and any number   *)
(* of likes, unlikes and failures between the requests: Spotify's answer   *)
(* has no track twice, no liked track is overlooked unless one is unliked, *)
(* and the call is to its caller what TrackListing is.                     *)
(***************************************************************************)
EXTENDS TrackFetch, SubsequenceProofs

USE TrackFetchAssumption

-----------------------------------------------------------------------------
(* Sequences.                                                              *)

\* deduplicateTracks leaves one of each.
LEMMA DeduplicatedIsList ==
  ASSUME NEW s \in Seq(Tracks)
  PROVE  /\ IsList(Deduplicated(s))
         /\ ToSet(Deduplicated(s)) = ToSet(s)
         /\ Len(Deduplicated(s)) <= Len(s)
<1> DEFINE P == {i \in DOMAIN s : \A j \in 1 .. i - 1 : s[j] # s[i]}
<1>1. P \in SUBSET DOMAIN s /\ DOMAIN s = 1 .. Len(s) /\ Len(s) \in Nat
  OBVIOUS
<1>2. \A i, j \in P : s[i] = s[j] => i = j
  <2> SUFFICES ASSUME NEW i \in P, NEW j \in P, s[i] = s[j], i < j
               PROVE  FALSE
    BY <1>1
  <2>1. i \in 1 .. j - 1
    BY <1>1
  <2> QED
    BY <2>1
<1>3. {s[i] : i \in P} = ToSet(s)
  <2> SUFFICES ASSUME NEW i \in DOMAIN s PROVE \E j \in P : s[j] = s[i]
    BY DEF ToSet
  <2> DEFINE same == {j \in DOMAIN s : s[j] = s[i]}
  <2>1. same \in SUBSET Nat /\ same # {}
    BY <1>1
  <2>2. PICK j \in same : \A m \in same : j <= m
    <3> HIDE DEF same
    <3> QED
      BY <2>1, Least
  <2>3. \A m \in 1 .. j - 1 : s[m] # s[j]
    <3> SUFFICES ASSUME NEW m \in 1 .. j - 1, s[m] = s[j] PROVE FALSE
      OBVIOUS
    <3>1. m \in DOMAIN s /\ m < j
      BY <1>1
    <3>2. m \in same
      BY <3>1
    <3>3. j <= m /\ j \in Nat /\ m \in Nat
      BY <2>1, <2>2, <3>2
    <3> QED
      BY <3>1, <3>3
  <2> QED
    BY <2>2, <2>3
<1>4. Deduplicated(s) = Subsequence(s, P)
  BY DEF Deduplicated
<1> HIDE DEF P
<1>5. /\ Subsequence(s, P) \in Seq(Tracks)
      /\ Len(Subsequence(s, P)) <= Len(s)
      /\ ToSet(Subsequence(s, P)) = {s[i] : i \in P}
      /\ \A k, l \in DOMAIN Subsequence(s, P) :
           Subsequence(s, P)[k] = Subsequence(s, P)[l] => k = l
  BY <1>1, <1>2, SubsequenceIsPart
<1> QED
  BY <1>3, <1>4, <1>5 DEF IsList

\* The list without a track.
LEMMA UnlikedIsList ==
  ASSUME IsList(liked), NEW t \in Tracks
  PROVE  LET rest == Subsequence(liked, {i \in DOMAIN liked : liked[i] # t})
         IN  IsList(rest) /\ ToSet(rest) \subseteq ToSet(liked)
<1> DEFINE P == {i \in DOMAIN liked : liked[i] # t}
<1>1. P \in SUBSET DOMAIN liked
  OBVIOUS
<1>2. \A i, j \in P : liked[i] = liked[j] => i = j
  BY DEF IsList
<1>3. {liked[i] : i \in P} \subseteq ToSet(liked)
  BY DEF ToSet
<1> HIDE DEF P
<1>4. /\ Subsequence(liked, P) \in Seq(Tracks)
      /\ ToSet(Subsequence(liked, P)) = {liked[i] : i \in P}
      /\ \A k, l \in DOMAIN Subsequence(liked, P) :
           Subsequence(liked, P)[k] = Subsequence(liked, P)[l] => k = l
  BY <1>1, <1>2, SubsequenceIsPart DEF IsList
<1> QED
  BY <1>3, <1>4 DEF IsList, P

LEMMA MinOfTwo ==
  ASSUME NEW a \in Nat, NEW b \in Nat
  PROVE  Min({a, b}) = IF a <= b THEN a ELSE b
<1> DEFINE S == {a, b}
           least == IF a <= b THEN a ELSE b
<1>1. least \in S /\ \A y \in S : least <= y
  OBVIOUS
<1>2. \A x \in S : (\A y \in S : x <= y) => x = least
  OBVIOUS
<1>3. Min(S) \in S /\ \A y \in S : Min(S) <= y
  BY <1>1 DEF Min
<1> HIDE DEF least, S
<1>4. Min(S) = least
  BY <1>2, <1>3
<1> QED
  BY <1>4 DEF S, least

\* A page is a window of the list.
LEMMA PageIsWindow ==
  ASSUME liked \in Seq(Tracks), NEW offset \in Nat, NEW size \in Nat \ {0}
  PROVE  LET page == Page(offset, size)
         IN  /\ page \in Seq(Tracks) /\ Len(page) <= size
             /\ ToSet(page) \subseteq ToSet(liked)
             /\ \A r \in DOMAIN page : r + offset \in DOMAIN liked /\ page[r] = liked[r + offset]
             /\ \A x \in DOMAIN liked :
                  x > offset /\ x <= offset + size => x - offset \in DOMAIN page
<1> DEFINE page == Page(offset, size)
           last == IF offset + size <= Len(liked) THEN offset + size ELSE Len(liked)
<1>1. Len(liked) \in Nat /\ DOMAIN liked = 1 .. Len(liked)
  OBVIOUS
<1>2. page = SubSeq(liked, offset + 1, last)
  BY <1>1, MinOfTwo DEF Page
<1> HIDE DEF page
<1>3. CASE offset < Len(liked)
  <2>1. last \in Nat /\ last <= Len(liked) /\ offset + 1 <= last /\ last <= offset + size
    BY <1>1, <1>3
  <2>2. \A x \in 1 .. Len(liked) : x <= offset + size => x <= last
    BY <1>1
  <2> HIDE DEF last
  <2>3. /\ page \in Seq(Tracks) /\ Len(page) = last - offset /\ Len(page) <= size
        /\ \A r \in 1 .. last - offset : page[r] = liked[r + offset]
    BY <1>2, <2>1
  <2>4. \A r \in DOMAIN page : r + offset \in DOMAIN liked /\ page[r] = liked[r + offset]
    BY <1>1, <2>1, <2>3
  <2>5. \A x \in DOMAIN liked : x > offset /\ x <= offset + size => x - offset \in DOMAIN page
    BY <1>1, <2>1, <2>2, <2>3
  <2>6. ToSet(page) \subseteq ToSet(liked)
    BY <2>4 DEF ToSet
  <2> QED
    BY <2>3, <2>4, <2>5, <2>6 DEF page
<1>4. CASE ~ (offset < Len(liked))
  <2>1. last = Len(liked) /\ last \in Nat /\ last < offset + 1
    <3>1. ~ (offset + size <= Len(liked)) /\ Len(liked) < offset + 1
      BY <1>1, <1>4
    <3> QED
      BY <1>1, <3>1
  <2> HIDE DEF last
  <2>2. page = <<>>
    BY <1>2, <2>1
  <2>3. \A x \in DOMAIN liked : ~ (x > offset)
    BY <1>1, <1>4
  <2> QED
    BY <2>2, <2>3 DEF ToSet, page
<1> QED
  BY <1>3, <1>4

\* The first n elements.
LEMMA FirstIsPrefix ==
  ASSUME NEW s \in Seq(Tracks), NEW n \in Nat
  PROVE  LET t == First(s, n)
         IN  /\ t \in Seq(Tracks)
             /\ Len(t) <= n
             /\ Len(t) <= Len(s)
             /\ \A i \in 1 .. Len(t) : t[i] = s[i]
             /\ Len(s) <= n => t = s
             /\ ToSet(t) \subseteq ToSet(s)
<1>1. Len(s) \in Nat /\ DOMAIN s = 1 .. Len(s)
  OBVIOUS
<1>2. CASE Len(s) > n
  <2>1. /\ SubSeq(s, 1, n) \in Seq(Tracks) /\ Len(SubSeq(s, 1, n)) = n
        /\ \A i \in 1 .. n : SubSeq(s, 1, n)[i] = s[i]
    BY <1>1, <1>2
  <2>2. First(s, n) = SubSeq(s, 1, n)
    BY <1>2 DEF First
  <2> DEFINE t == First(s, n)
  <2>3. t \in Seq(Tracks) /\ Len(t) = n /\ \A i \in 1 .. n : t[i] = s[i]
    BY <2>1, <2>2
  <2> HIDE DEF t
  <2>4. ToSet(t) \subseteq ToSet(s)
    BY <1>1, <1>2, <2>3 DEF ToSet
  <2> QED
    BY <1>1, <1>2, <2>3, <2>4 DEF t
<1>3. CASE ~ (Len(s) > n)
  <2>1. First(s, n) = s
    BY <1>3 DEF First
  <2> QED
    BY <1>1, <1>3, <2>1
<1> QED
  BY <1>2, <1>3

\* A sequence has no more elements than places.
LEMMA ElementsAreFew ==
  ASSUME NEW s \in Seq(Tracks), NEW n \in Nat, Len(s) <= n
  PROVE  Cardinality(ToSet(s)) <= n
<1> DEFINE k == Len(s)
           f == [i \in 1 .. k |-> s[i]]
<1>1. k \in Nat /\ DOMAIN s = 1 .. k
  OBVIOUS
<1>2. IsFiniteSet(1 .. k) /\ Cardinality(1 .. k) = k
  <2> HIDE DEF k
  <2> QED
    BY <1>1, FS_Interval
<1>3. f \in Surjection(1 .. k, ToSet(s))
  BY <1>1 DEF Surjection, ToSet
<1>4. IsFiniteSet(ToSet(s)) /\ Cardinality(ToSet(s)) <= k
  <2> HIDE DEF f, k
  <2> QED
    BY <1>2, <1>3, FS_Surjection
<1>5. Cardinality(ToSet(s)) \in Nat
  BY <1>4, FS_CardinalityType
<1> QED
  BY <1>1, <1>4, <1>5

-----------------------------------------------------------------------------
(* One more page.                                                          *)

\* The elements of two sequences.
LEMMA ElementsOfBoth ==
  ASSUME NEW s \in Seq(Tracks), NEW t \in Seq(Tracks)
  PROVE  /\ s \o t \in Seq(Tracks)
         /\ Len(s \o t) = Len(s) + Len(t)
         /\ \A i \in 1 .. Len(s) : (s \o t)[i] = s[i]
         /\ \A i \in 1 .. Len(t) : (s \o t)[Len(s) + i] = t[i]
         /\ ToSet(s \o t) = ToSet(s) \cup ToSet(t)
<1> DEFINE u == s \o t
<1>1. Len(s) \in Nat /\ Len(t) \in Nat /\ DOMAIN s = 1 .. Len(s) /\ DOMAIN t = 1 .. Len(t)
  OBVIOUS
<1>2. /\ u \in Seq(Tracks) /\ Len(u) = Len(s) + Len(t) /\ DOMAIN u = 1 .. Len(s) + Len(t)
      /\ \A i \in 1 .. Len(s) : u[i] = s[i]
      /\ \A i \in 1 .. Len(t) : u[Len(s) + i] = t[i]
  OBVIOUS
<1> HIDE DEF u
<1>3. ASSUME NEW i \in DOMAIN u
      PROVE  u[i] \in ToSet(s) \cup ToSet(t)
  <2>1. CASE i <= Len(s)
    <3>1. i \in 1 .. Len(s)
      BY <1>1, <1>2, <2>1
    <3> QED
      BY <1>1, <1>2, <3>1 DEF ToSet
  <2>2. CASE ~ (i <= Len(s))
    <3>1. i - Len(s) \in 1 .. Len(t) /\ i = Len(s) + (i - Len(s))
      BY <1>1, <1>2, <2>2
    <3>2. u[i] = t[i - Len(s)]
      BY <1>2, <3>1
    <3> QED
      BY <1>1, <3>1, <3>2 DEF ToSet
  <2> QED
    BY <2>1, <2>2
<1>4. ASSUME NEW i \in DOMAIN s
      PROVE  s[i] \in ToSet(u)
  <2>1. i \in DOMAIN u /\ u[i] = s[i]
    BY <1>1, <1>2
  <2> QED
    BY <2>1 DEF ToSet
<1>5. ASSUME NEW i \in DOMAIN t
      PROVE  t[i] \in ToSet(u)
  <2>1. Len(s) + i \in DOMAIN u /\ u[Len(s) + i] = t[i]
    BY <1>1, <1>2
  <2> QED
    BY <2>1 DEF ToSet
<1>6. ToSet(u) = ToSet(s) \cup ToSet(t)
  BY <1>3, <1>4, <1>5 DEF ToSet
<1> QED
  BY <1>2, <1>6 DEF u

\* The page at offset goes on where the pages before it ended.
LEMMA PageGoesOn ==
  ASSUME IsList(liked), fetch.base \in Seq(Tracks), fetch.all \in Seq(Tracks),
         NEW offset \in Nat, NEW size \in Nat \ {0}, NEW g,
         g.base = fetch.base, g.all = fetch.all \o Page(offset, size),
         OnlyLiked, PassedUpto(fetch, offset), LatestFirst(fetch)
  PROVE  PassedUpto(g, offset + size) /\ LatestFirst(g)
<1> DEFINE old == fetch.all
           page == Page(offset, size)
           base == fetch.base
           all == old \o page
           a == Len(old)
           d == Len(liked) - Len(base)
<1>1. /\ a \in Nat /\ DOMAIN old = 1 .. a
      /\ Len(base) \in Nat /\ DOMAIN base = 1 .. Len(base)
      /\ Len(liked) \in Nat /\ DOMAIN liked = 1 .. Len(liked) /\ liked \in Seq(Tracks)
  BY DEF IsList
<1>2. /\ page \in Seq(Tracks) /\ Len(page) <= size
      /\ \A r \in DOMAIN page : r + offset \in DOMAIN liked /\ page[r] = liked[r + offset]
      /\ \A x \in DOMAIN liked : x > offset /\ x <= offset + size => x - offset \in DOMAIN page
  BY <1>1, PageIsWindow
<1>3. Len(page) \in Nat /\ DOMAIN page = 1 .. Len(page)
  BY <1>2
<1>4. /\ all \in Seq(Tracks) /\ Len(all) = a + Len(page)
      /\ \A k \in 1 .. a : all[k] = old[k]
      /\ \A r \in 1 .. Len(page) : all[a + r] = page[r]
      /\ ToSet(all) = ToSet(old) \cup ToSet(page)
  BY <1>2, ElementsOfBoth
<1>5. /\ d \in Nat /\ Shift = d
      /\ \A k \in DOMAIN base : k + d \in DOMAIN liked /\ base[k] = liked[k + d]
  <2>1. d \in Nat /\ Shift = d
    BY <1>1 DEF OnlyLiked, Shift
  <2>2. ASSUME NEW k \in DOMAIN base
        PROVE  k + d \in 1 .. Len(liked)
    <3>1. k \in Nat /\ 1 <= k /\ k <= Len(base) /\ Len(base) + d = Len(liked)
      BY <1>1
    <3>2. d \in Nat /\ Len(liked) \in Nat /\ Len(base) \in Nat
      BY <1>1, <2>1
    <3> HIDE DEF d, base
    <3> QED
      BY <3>1, <3>2
  <2> QED
    BY <1>1, <2>1, <2>2 DEF OnlyLiked
<1>6. \A x, y \in DOMAIN liked : liked[x] = liked[y] => x = y
  BY DEF IsList
<1>7. \A k \in DOMAIN base : k + d <= offset => base[k] \in ToSet(old)
  BY <1>5 DEF PassedUpto
<1>8. \A p \in DOMAIN old, j \in DOMAIN base : old[p] = base[j] =>
        \A k \in 1 .. j - 1 : \E q \in 1 .. p : old[q] = base[k]
  BY DEF LatestFirst
<1> HIDE DEF old, page, base, all, a, d
\* A track of the call's list within the window is on the page.
<1>9. ASSUME NEW k \in DOMAIN base, k + d > offset, k + d <= offset + size
      PROVE  (k + d) - offset \in 1 .. Len(page) /\ page[(k + d) - offset] = base[k]
  <2>1. k + d \in DOMAIN liked /\ base[k] = liked[k + d]
    BY <1>5
  <2>2. (k + d) - offset \in DOMAIN page
    BY <1>2, <1>9, <2>1
  <2>3. page[(k + d) - offset] = liked[((k + d) - offset) + offset]
    BY <1>2, <2>2
  <2>4. ((k + d) - offset) + offset = k + d
    <3>1. k \in Nat /\ d \in Nat
      BY <1>1, <1>5
    <3> QED
      BY <3>1
  <2> QED
    BY <1>3, <2>1, <2>2, <2>3, <2>4
<1>10. ASSUME NEW k \in DOMAIN base, k + d <= offset + size
       PROVE  base[k] \in ToSet(all)
  <2>1. CASE k + d <= offset
    BY <1>4, <1>7, <2>1
  <2>2. CASE ~ (k + d <= offset)
    <3>1. k + d > offset
      BY <1>1, <1>5, <2>2
    <3>2. (k + d) - offset \in 1 .. Len(page) /\ page[(k + d) - offset] = base[k]
      BY <1>9, <1>10, <3>1
    <3>3. base[k] \in ToSet(page)
      BY <1>3, <3>2 DEF ToSet
    <3> QED
      BY <1>4, <3>3
  <2> QED
    BY <2>1, <2>2
<1>11. ASSUME NEW p \in DOMAIN all, NEW j \in DOMAIN base, all[p] = base[j],
              NEW k \in 1 .. j - 1
       PROVE  \E q \in 1 .. p : all[q] = base[k]
  <2>1. p \in 1 .. a + Len(page) /\ k \in DOMAIN base /\ k < j /\ k \in Nat /\ j \in Nat
    BY <1>1, <1>4
  <2>2. CASE p <= a
    <3>1. p \in 1 .. a /\ old[p] = base[j]
      BY <1>1, <1>4, <1>11, <2>1, <2>2
    <3>2. PICK q \in 1 .. p : old[q] = base[k]
      BY <1>1, <1>8, <3>1
    <3>3. q \in 1 .. a
      BY <1>1, <3>1
    <3> QED
      BY <1>4, <3>2, <3>3
  <2>3. CASE ~ (p <= a)
    <3> DEFINE r == p - a
    <3>1. r \in 1 .. Len(page) /\ p = a + r
      BY <1>1, <1>3, <2>1, <2>3
    <3> HIDE DEF r
    <3>2. liked[r + offset] = liked[j + d] /\ r + offset \in DOMAIN liked /\ j + d \in DOMAIN liked
      BY <1>2, <1>3, <1>4, <1>5, <1>11, <3>1
    <3>3. r + offset = j + d
      BY <1>6, <3>2
    <3>4. CASE k + d <= offset
      <4>1. base[k] \in ToSet(old)
        BY <1>7, <2>1, <3>4
      <4>2. PICK q \in 1 .. a : old[q] = base[k]
        BY <1>1, <4>1 DEF ToSet
      <4>3. q \in 1 .. p
        BY <1>1, <1>3, <3>1
      <4> QED
        BY <1>4, <4>2, <4>3
    <3>5. CASE ~ (k + d <= offset)
      <4>1. r \in Nat /\ r <= size
        <5>1. Len(page) \in Nat /\ r \in Nat
          BY <1>3, <3>1
        <5> QED
          BY <5>1, <3>1, <1>2
      <4>2. k + d > offset /\ k + d <= offset + size /\ (k + d) - offset < r
        BY <1>5, <2>1, <3>3, <3>5, <4>1
      <4>3. (k + d) - offset \in 1 .. Len(page) /\ page[(k + d) - offset] = base[k]
        BY <1>9, <2>1, <4>2
      <4>4. a + ((k + d) - offset) \in 1 .. p
        BY <1>1, <3>1, <4>1, <4>2, <4>3
      <4>5. all[a + ((k + d) - offset)] = base[k]
        BY <1>4, <4>3
      <4> QED
        BY <4>4, <4>5
    <3> QED
      BY <3>4, <3>5
  <2> QED
    BY <2>2, <2>3
<1>12. g.base = base /\ g.all = all
  BY DEF base, all, old, page
<1>13. PassedUpto(g, offset + size)
  BY <1>5, <1>10, <1>12 DEF PassedUpto
<1>14. LatestFirst(g)
  BY <1>11, <1>12 DEF LatestFirst
<1> QED
  BY <1>13, <1>14

\* Once the list ends within the pages read, they have all of it.
LEMMA AllPassed ==
  ASSUME liked \in Seq(Tracks), fetch.base \in Seq(Tracks), NEW g, g.base = fetch.base,
         OnlyLiked, NEW n \in Nat, PassedUpto(g, n), Len(liked) <= n
  PROVE  ToSet(g.base) \subseteq ToSet(g.all)
<1>1. Len(liked) \in Nat /\ Len(fetch.base) \in Nat /\ DOMAIN fetch.base = 1 .. Len(fetch.base)
  OBVIOUS
<1>2. ASSUME NEW k \in DOMAIN fetch.base
      PROVE  k + Shift <= n
  <2>1. k \in Nat /\ k <= Len(fetch.base)
    BY <1>1
  <2> QED
    BY <1>1, <2>1 DEF Shift
<1> QED
  BY <1>2 DEF PassedUpto, ToSet

-----------------------------------------------------------------------------
(* The answer.                                                             *)

\* A call between a provider's answer and the look at its limits.
Answering(g) ==
    /\ g \in Fetch
    /\ g.pc \in {"saved", "videos"}
    /\ g.of = IF g.pc = "videos" THEN "youtube" ELSE "spotify"
    /\ g.result = <<>>
    /\ Len(g.top) <= PageSize
    /\ g.pc = "videos" => g.top = <<>>
    /\ ToSet(liked) \cup ToSet(favourites) \subseteq g.had
    /\ ToSet(g.top) \cup ToSet(g.all) \subseteq g.had
    /\ g.base = fetch.base
    /\ ~ g.cut => /\ OnlyLiked
                  /\ LatestFirst(g)
                  /\ g.link = NoLink => ToSet(g.base) \subseteq ToSet(g.all)
                  /\ g.link # NoLink => PassedUpto(g, g.link)

\* The consequence of NothingOverlooked, for a call and its result.
Complete(g, result) ==
    LET missing  == ToSet(g.base) \ ToSet(result)
        returned == ToSet(result) \ ToSet(g.top)
    IN  /\ \A i, j \in DOMAIN g.base :
             g.base[i] \in missing /\ g.base[j] \in returned => j < i
        /\ g.link = NoLink /\ Len(g.top) + Len(g.all) <= MaxTracks => missing = {}

LEMMA ResultIsComplete ==
  ASSUME NEW g, Answering(g), ~ g.cut, NEW result,
         ToSet(result) = ToSet(g.top) \cup ToSet(First(g.all, MaxTracks - Len(g.top)))
  PROVE  Complete(g, result)
<1> DEFINE m == MaxTracks - Len(g.top)
           some == First(g.all, m)
<1>1. /\ g.all \in Seq(Tracks) /\ g.base \in Seq(Tracks) /\ g.top \in Seq(Tracks)
      /\ Len(g.top) \in Nat /\ Len(g.all) \in Nat
      /\ DOMAIN g.base = 1 .. Len(g.base) /\ Len(g.base) \in Nat
      /\ DOMAIN g.all = 1 .. Len(g.all)
  BY DEF Answering, Fetch
<1>2. m \in Nat
  BY <1>1 DEF Answering
<1>3. /\ some \in Seq(Tracks) /\ Len(some) \in Nat /\ DOMAIN some = 1 .. Len(some)
      /\ Len(some) <= Len(g.all) /\ \A k \in 1 .. Len(some) : some[k] = g.all[k]
      /\ Len(g.all) <= m => some = g.all
  <2> HIDE DEF m
  <2>1. some \in Seq(Tracks)
    BY <1>1, <1>2, FirstIsPrefix
  <2> QED
    BY <1>1, <1>2, <2>1, FirstIsPrefix
<1>4. ASSUME NEW i \in DOMAIN g.base, NEW j \in DOMAIN g.base, g.base[i] \notin ToSet(result),
             g.base[j] \in ToSet(result), g.base[j] \notin ToSet(g.top)
      PROVE  j < i
  <2> HIDE DEF some
  <2>1. g.base[j] \in ToSet(some) /\ g.base[i] \notin ToSet(some)
    BY <1>4 DEF some
  <2>2. PICK p \in 1 .. Len(some) : some[p] = g.base[j]
    BY <1>3, <2>1 DEF ToSet
  <2>3. p \in DOMAIN g.all /\ g.all[p] = g.base[j]
    BY <1>1, <1>3, <2>2
  <2>4. \A k \in 1 .. j - 1 : \E q \in 1 .. p : g.all[q] = g.base[k]
    BY <2>3 DEF Answering, LatestFirst
  <2>5. i \notin 1 .. j - 1
    <3> SUFFICES ASSUME i \in 1 .. j - 1 PROVE FALSE
      OBVIOUS
    <3>1. PICK q \in 1 .. p : g.all[q] = g.base[i]
      BY <2>4
    <3>2. q \in DOMAIN some /\ some[q] = g.base[i]
      BY <1>3, <2>2, <3>1
    <3> QED
      BY <2>1, <3>2 DEF ToSet
  <2>6. i # j
    BY <2>1
  <2> QED
    BY <1>1, <2>5, <2>6
<1>5. ASSUME g.link = NoLink, Len(g.top) + Len(g.all) <= MaxTracks
      PROVE  ToSet(g.base) \subseteq ToSet(result)
  <2>1. Len(g.all) <= m
    <3>1. \A x, y, z \in Nat : x + y <= z => y <= z - x
      OBVIOUS
    <3> QED
      BY <1>1, <1>5, <3>1
  <2>2. some = g.all
    BY <1>3, <2>1
  <2>3. ToSet(g.base) \subseteq ToSet(g.all)
    BY <1>5 DEF Answering
  <2> QED
    BY <2>2, <2>3
<1> QED
  BY <1>4, <1>5 DEF Complete

LEMMA CompleteIsProperty ==
  NothingOverlooked <=> (fetch.pc = "done" /\ ~ fetch.cut => Complete(fetch, fetch.result))
BY DEF NothingOverlooked, Complete

\* What either client returns.
LEMMA ResultIsBounded ==
  ASSUME NEW g, Answering(g), NEW result,
         \/ g.pc = "saved" /\ result = Deduplicated(g.top \o First(g.all, MaxCount(g)))
         \/ g.pc = "videos" /\ result = First(g.all, MaxTracks)
  PROVE  /\ result \in Seq(Tracks)
         /\ Len(result) <= MaxTracks
         /\ ToSet(result) = ToSet(g.top) \cup ToSet(First(g.all, MaxTracks - Len(g.top)))
         /\ ToSet(result) \subseteq g.had
         /\ g.pc = "saved" => IsList(result)
<1> DEFINE m == MaxTracks - Len(g.top)
           some == First(g.all, m)
<1>1. /\ g.all \in Seq(Tracks) /\ g.top \in Seq(Tracks) /\ Len(g.top) \in Nat
      /\ g.had \in SUBSET Tracks
  BY DEF Answering, Fetch
<1>2. m \in Nat /\ Len(g.top) + m = MaxTracks
  BY <1>1 DEF Answering
<1>3. /\ some \in Seq(Tracks) /\ Len(some) <= m /\ ToSet(some) \subseteq ToSet(g.all)
  <2> HIDE DEF m
  <2> QED
    BY <1>1, <1>2, FirstIsPrefix
<1> HIDE DEF some
<1>4. Len(some) \in Nat
  BY <1>3
<1>5. CASE g.pc = "saved"
  <2> DEFINE both == g.top \o some
  <2>1. result = Deduplicated(both)
    BY <1>5 DEF MaxCount, some
  <2>2. /\ both \in Seq(Tracks) /\ Len(both) = Len(g.top) + Len(some)
        /\ ToSet(both) = ToSet(g.top) \cup ToSet(some)
    BY <1>1, <1>3, ElementsOfBoth
  <2> HIDE DEF both
  <2>3. IsList(result) /\ ToSet(result) = ToSet(both) /\ Len(result) <= Len(both)
    BY <2>1, <2>2, DeduplicatedIsList
  <2>4. result \in Seq(Tracks) /\ Len(result) \in Nat
    BY <2>3 DEF IsList
  <2>5. Len(result) <= MaxTracks
    <3> HIDE DEF m
    <3> QED
      BY <1>1, <1>2, <1>3, <1>4, <2>2, <2>3, <2>4
  <2> QED
    BY <1>3, <2>2, <2>3, <2>4, <2>5 DEF Answering, some
<1>6. CASE g.pc = "videos"
  <2>1. g.top = <<>> /\ m = MaxTracks
    BY <1>1, <1>6 DEF Answering
  <2>2. result = some /\ ToSet(g.top) = {}
    BY <1>6, <2>1 DEF some, ToSet
  <2> QED
    BY <1>3, <1>6, <2>1, <2>2 DEF Answering, some
<1> QED
  BY <1>5, <1>6 DEF Answering

LEMMA AnswerKeepsInv ==
  ASSUME FetchInv, NEW g, Answering(g), UNCHANGED <<liked, favourites, changes>>,
         \/ g.pc = "saved" /\ fetch' = Saved(g)
         \/ g.pc = "videos" /\ fetch' = Videos(g)
  PROVE  FetchInv'
<1>1. /\ IsList(liked) /\ IsList(favourites) /\ Len(favourites) <= PageSize
      /\ changes \in 0 .. MaxChanges
  BY DEF FetchInv, FetchTypeOK
<1>2. CASE g.link # NoLink /\ fetch' = g
  <2>1. FetchTypeOK'
    <3>1. Len(g.result) <= MaxTracks
      BY DEF Answering
    <3> QED
      BY <1>1, <1>2, <3>1 DEF FetchTypeOK, IsList, Answering
  <2>2. Busy' /\ fetch'.pc # "done" /\ fetch'.pc # "top" /\ ToSet(fetch'.result) = {}
    BY <1>2 DEF Busy, Answering, ToSet
  <2>3. (~ fetch.cut => OnlyLiked /\ PassedUpto(fetch, fetch.link) /\ LatestFirst(fetch))'
    <3>1. ~ g.cut => OnlyLiked /\ PassedUpto(g, g.link) /\ LatestFirst(g)
      BY <1>2 DEF Answering
    <3>2. Shift' = Shift
      BY <1>2 DEF Shift, Answering
    <3>3. OnlyLiked' <=> OnlyLiked
      BY <1>2, <3>2 DEF OnlyLiked, Answering
    <3> QED
      BY <1>2, <3>1, <3>2, <3>3 DEF PassedUpto, LatestFirst
  <2> QED
    BY <1>2, <2>1, <2>2, <2>3 DEF FetchInv, NoTrackTwice, NothingOverlooked, Answering
<1>3. ASSUME NEW result, fetch' = [g EXCEPT !.pc = "done", !.result = result],
             \/ g.pc = "saved" /\ result = Deduplicated(g.top \o First(g.all, MaxCount(g)))
             \/ g.pc = "videos" /\ result = First(g.all, MaxTracks)
      PROVE  FetchInv'
  <2>1. /\ result \in Seq(Tracks) /\ Len(result) <= MaxTracks /\ ToSet(result) \subseteq g.had
        /\ ToSet(result) = ToSet(g.top) \cup ToSet(First(g.all, MaxTracks - Len(g.top)))
        /\ g.pc = "saved" => IsList(result)
    BY <1>3, ResultIsBounded
  <2>2. /\ fetch' \in Fetch /\ fetch'.pc = "done" /\ fetch'.result = result
        /\ fetch'.of = g.of /\ fetch'.had = g.had /\ fetch'.top = g.top /\ fetch'.all = g.all
        /\ fetch'.base = g.base /\ fetch'.link = g.link /\ fetch'.cut = g.cut
    BY <1>3, <2>1 DEF Answering, Fetch
  <2>3. FetchTypeOK'
    BY <1>1, <2>1, <2>2 DEF FetchTypeOK, IsList
  <2>4. NoTrackTwice'
    BY <2>1, <2>2 DEF NoTrackTwice, IsList, Answering
  <2>5. NothingOverlooked'
    <3>1. ~ g.cut => Complete(g, result)
      BY <2>1, ResultIsComplete
    <3> QED
      BY <2>2, <3>1 DEF NothingOverlooked, Complete
  <2>6. ~ Busy'
    BY <2>2 DEF Busy
  <2> QED
    BY <2>1, <2>2, <2>3, <2>4, <2>5, <2>6 DEF FetchInv, Answering
<1>4. CASE g.pc = "saved" /\ fetch' = Saved(g)
  BY <1>2, <1>3, <1>4 DEF Saved
<1>5. CASE g.pc = "videos" /\ fetch' = Videos(g)
  BY <1>2, <1>3, <1>5 DEF Videos
<1> QED
  BY <1>4, <1>5

-----------------------------------------------------------------------------
(* The steps.                                                              *)

LEMMA InitFetchInv == Init => FetchInv
<1> SUFFICES ASSUME Init PROVE FetchInv
  OBVIOUS
<1>1. IsList(liked) /\ IsList(favourites)
  BY DEF Init, Lists
<1>2. Len(favourites) <= PageSize
  <2>1. PICK n \in 0 .. PageSize : favourites \in [1 .. n -> Tracks]
    BY DEF Init, Lists, BoundedSeq, SeqOf
  <2>2. n \in Nat /\ n <= PageSize
    BY <2>1
  <2>3. Len(favourites) = n
    BY <2>1, <2>2
  <2> QED
    BY <2>2, <2>3
<1>3. fetch = Idle /\ changes \in 0 .. MaxChanges
  BY DEF Init
<1>4. fetch \in Fetch /\ Len(fetch.result) = 0 /\ ToSet(fetch.result) = {}
  BY <1>3 DEF Idle, Fetch, NoLink, ToSet
<1> QED
  BY <1>1, <1>2, <1>3, <1>4
     DEF FetchInv, FetchTypeOK, NoTrackTwice, NothingOverlooked, Busy, Idle

\* The order of the pages is a matter of the call alone.
LEMMA SameOrder ==
  ASSUME NEW f, NEW g, g.base = f.base, g.all = f.all, LatestFirst(f)
  PROVE  LatestFirst(g)
BY DEF LatestFirst

\* A track on top of the list moves the list at the call one down.
LEMMA LikeShifts ==
  ASSUME IsList(liked), fetch.base \in Seq(Tracks), fetch.link \in Nat \cup {NoLink},
         NEW t \in Tracks, t \notin ToSet(liked), liked' = <<t>> \o liked,
         fetch'.base = fetch.base, fetch'.all = fetch.all, fetch'.link = fetch.link
  PROVE  /\ IsList(liked') /\ ToSet(liked') = ToSet(liked) \cup {t}
         /\ OnlyLiked => OnlyLiked'
         /\ PassedUpto(fetch, fetch.link) => PassedUpto(fetch, fetch.link)'
         /\ LatestFirst(fetch) => LatestFirst(fetch)'
<1> DEFINE n == Len(liked)
           b == Len(fetch.base)
<1>1. /\ n \in Nat /\ DOMAIN liked = 1 .. n /\ liked \in Seq(Tracks)
      /\ b \in Nat /\ DOMAIN fetch.base = 1 .. b
  BY DEF IsList
<1>2. <<t>> \in Seq(Tracks) /\ Len(<<t>>) = 1 /\ <<t>>[1] = t /\ ToSet(<<t>>) = {t}
  BY DEF ToSet
<1>3. /\ liked' \in Seq(Tracks) /\ Len(liked') = 1 + n
      /\ \A i \in 1 .. 1 : liked'[i] = <<t>>[i]
      /\ \A i \in 1 .. n : liked'[1 + i] = liked[i]
      /\ ToSet(liked') = {t} \cup ToSet(liked)
  BY <1>1, <1>2, ElementsOfBoth
<1>4. DOMAIN liked' = 1 .. 1 + n /\ liked'[1] = t
  BY <1>1, <1>2, <1>3
<1> HIDE DEF n, b
<1>5. ASSUME NEW x \in DOMAIN liked', x # 1
      PROVE  x - 1 \in 1 .. n /\ liked'[x] = liked[x - 1]
  <2>1. x - 1 \in 1 .. n /\ x = 1 + (x - 1)
    BY <1>1, <1>4, <1>5
  <2> QED
    BY <1>3, <2>1
<1>6. ASSUME NEW x \in DOMAIN liked', NEW y \in DOMAIN liked', liked'[x] = liked'[y]
      PROVE  x = y
  <2>1. \A z \in 1 .. n : liked[z] # t
    BY <1>1 DEF ToSet
  <2>2. CASE x = 1 \/ y = 1
    BY <1>4, <1>5, <1>6, <2>1, <2>2
  <2>3. CASE x # 1 /\ y # 1
    <3>1. liked[x - 1] = liked[y - 1] /\ x - 1 \in DOMAIN liked /\ y - 1 \in DOMAIN liked
      BY <1>1, <1>5, <1>6, <2>3
    <3>2. x - 1 = y - 1
      BY <3>1 DEF IsList
    <3> QED
      BY <1>1, <1>4, <3>2
  <2> QED
    BY <2>2, <2>3
<1>7. Shift = n - b /\ Shift' = (1 + n) - b
  BY <1>3 DEF Shift, n, b
<1>8. OnlyLiked => OnlyLiked'
  <2> SUFFICES ASSUME OnlyLiked PROVE OnlyLiked'
    OBVIOUS
  <2>1. b <= n /\ \A i \in 1 .. b : fetch.base[i] = liked[i + Shift]
    BY <1>1 DEF OnlyLiked, n, b
  <2>2. ASSUME NEW i \in 1 .. b
        PROVE  fetch.base[i] = liked'[i + Shift']
    <3>1. i + (n - b) \in 1 .. n /\ i + ((1 + n) - b) = 1 + (i + (n - b))
      BY <1>1, <2>1
    <3>2. liked'[1 + (i + (n - b))] = liked[i + (n - b)]
      BY <1>3, <3>1
    <3> QED
      BY <1>7, <2>1, <3>1, <3>2
  <2>3. b <= 1 + n
    BY <1>1, <2>1
  <2> QED
    BY <1>1, <1>3, <2>2, <2>3 DEF OnlyLiked, b
<1>9. PassedUpto(fetch, fetch.link) => PassedUpto(fetch, fetch.link)'
  <2>1. ASSUME NEW i \in 1 .. b, i + Shift' <= fetch.link
        PROVE  i + Shift <= fetch.link
    <3>1. n - b \in Int /\ (1 + n) - b = (n - b) + 1 /\ fetch.link \in Int /\ i \in Int
      BY <1>1 DEF NoLink
    <3> QED
      BY <1>7, <2>1, <3>1
  <2> QED
    BY <1>1, <2>1 DEF PassedUpto
<1>10. LatestFirst(fetch) => LatestFirst(fetch)'
  BY SameOrder
<1>11. IsList(liked')
  BY <1>3, <1>6 DEF IsList
<1>12. ToSet(liked') = ToSet(liked) \cup {t}
  BY <1>3
<1> QED
  BY <1>8, <1>9, <1>10, <1>11, <1>12

LEMMA LikeKeepsInv ==
  ASSUME FetchInv, NEW t \in Tracks, Like(t)
  PROVE  FetchInv'
<1>1. /\ IsList(liked) /\ IsList(favourites) /\ Len(favourites) <= PageSize
      /\ changes \in Nat /\ changes < MaxChanges /\ fetch \in Fetch /\ Len(fetch.result) <= MaxTracks
      /\ t \notin ToSet(liked) /\ liked' = <<t>> \o liked
      /\ changes' = changes + 1 /\ favourites' = favourites
      /\ fetch' = IF Busy THEN [fetch EXCEPT !.had = @ \cup {t}] ELSE fetch
  BY DEF FetchInv, FetchTypeOK, Like
<1>2. /\ fetch' \in Fetch /\ fetch'.of = fetch.of /\ fetch'.pc = fetch.pc /\ fetch'.top = fetch.top
      /\ fetch'.all = fetch.all /\ fetch'.link = fetch.link /\ fetch'.result = fetch.result
      /\ fetch'.base = fetch.base /\ fetch'.cut = fetch.cut
      /\ fetch.had \subseteq fetch'.had /\ (Busy => t \in fetch'.had)
  BY <1>1 DEF Fetch
<1>3. fetch.base \in Seq(Tracks) /\ fetch.link \in Nat \cup {NoLink}
  BY <1>1 DEF Fetch
<1>4. /\ IsList(liked') /\ ToSet(liked') = ToSet(liked) \cup {t}
      /\ OnlyLiked => OnlyLiked'
      /\ PassedUpto(fetch, fetch.link) => PassedUpto(fetch, fetch.link)'
      /\ LatestFirst(fetch) => LatestFirst(fetch)'
  BY <1>1, <1>2, <1>3, LikeShifts
<1>5. changes' \in 0 .. MaxChanges
  BY <1>1
<1>6. FetchTypeOK'
  BY <1>1, <1>2, <1>4, <1>5 DEF FetchTypeOK, IsList
<1>7. NoTrackTwice'
  BY <1>2 DEF FetchInv, NoTrackTwice, IsList
<1>8. NothingOverlooked'
  BY <1>2 DEF FetchInv, NothingOverlooked
<1>9. Busy' <=> Busy
  BY <1>2 DEF Busy
<1>10. ASSUME Busy
       PROVE  /\ fetch'.of = IF fetch'.pc = "videos" THEN "youtube" ELSE "spotify"
              /\ fetch'.link # NoLink
              /\ ToSet(liked') \cup ToSet(favourites') \subseteq fetch'.had
              /\ ToSet(fetch'.top) \cup ToSet(fetch'.all) \subseteq fetch'.had
              /\ (~ fetch.cut => OnlyLiked /\ PassedUpto(fetch, fetch.link) /\ LatestFirst(fetch))'
  BY <1>1, <1>2, <1>4, <1>10 DEF FetchInv
<1>11. /\ fetch'.pc # "done" => fetch'.result = <<>>
       /\ ToSet(fetch'.result) \subseteq fetch'.had
       /\ Len(fetch'.top) <= PageSize
       /\ fetch'.pc \in {"top", "videos"} => fetch'.top = <<>>
       /\ fetch'.pc = "top" => fetch'.all = <<>>
  BY <1>2 DEF FetchInv
<1> QED
  BY <1>6, <1>7, <1>8, <1>9, <1>10, <1>11 DEF FetchInv

LEMMA UnlikeKeepsInv ==
  ASSUME FetchInv, NEW t \in Tracks, Unlike(t)
  PROVE  FetchInv'
<1>1. /\ IsList(liked) /\ IsList(favourites) /\ Len(favourites) <= PageSize
      /\ changes \in Nat /\ changes < MaxChanges /\ fetch \in Fetch /\ Len(fetch.result) <= MaxTracks
      /\ liked' = Subsequence(liked, {i \in DOMAIN liked : liked[i] # t})
      /\ changes' = changes + 1 /\ favourites' = favourites
      /\ fetch' = IF Busy THEN [fetch EXCEPT !.cut = TRUE] ELSE fetch
  BY DEF FetchInv, FetchTypeOK, Unlike
<1>2. /\ fetch' \in Fetch /\ fetch'.of = fetch.of /\ fetch'.pc = fetch.pc /\ fetch'.top = fetch.top
      /\ fetch'.all = fetch.all /\ fetch'.link = fetch.link /\ fetch'.result = fetch.result
      /\ fetch'.base = fetch.base /\ fetch'.had = fetch.had
      /\ IF Busy THEN fetch'.cut = TRUE ELSE fetch'.cut = fetch.cut
  BY <1>1 DEF Fetch
<1>3. IsList(liked') /\ ToSet(liked') \subseteq ToSet(liked)
  BY <1>1, UnlikedIsList
<1>4. changes' \in 0 .. MaxChanges
  BY <1>1
<1>5. FetchTypeOK'
  BY <1>1, <1>2, <1>3, <1>4 DEF FetchTypeOK, IsList
<1>6. NoTrackTwice'
  BY <1>2 DEF FetchInv, NoTrackTwice, IsList
<1>7. NothingOverlooked'
  BY <1>2 DEF FetchInv, NothingOverlooked, Busy
<1>8. Busy' <=> Busy
  BY <1>2 DEF Busy
<1> QED
  BY <1>1, <1>2, <1>3, <1>5, <1>6, <1>7, <1>8 DEF FetchInv

LEMMA CallKeepsInv ==
  ASSUME FetchInv, Call
  PROVE  FetchInv'
<1>1. PICK of \in {"spotify", "youtube"} :
        fetch' = [Idle EXCEPT !.of = of,
                              !.pc = IF of = "spotify" THEN "top" ELSE "videos",
                              !.base = liked,
                              !.had = ToSet(liked) \cup ToSet(favourites)]
  BY DEF Call
<1>2. UNCHANGED <<liked, favourites, changes>>
  BY DEF Call
<1>3. IsList(liked) /\ IsList(favourites) /\ liked \in Seq(Tracks) /\ favourites \in Seq(Tracks)
  BY DEF FetchInv, FetchTypeOK, IsList
<1>4. ToSet(liked) \cup ToSet(favourites) \in SUBSET Tracks
  BY <1>3 DEF ToSet
<1> DEFINE tracks == ToSet(liked) \cup ToSet(favourites)
<1>10. tracks \in SUBSET Tracks /\ fetch'.had = tracks
  BY <1>1, <1>4 DEF Idle
<1> HIDE DEF tracks
<1> DEFINE pc == IF of = "spotify" THEN "top" ELSE "videos"
<1>11. /\ pc \in {"top", "videos"}
       /\ fetch' = [of |-> of, pc |-> pc, top |-> <<>>, all |-> <<>>, link |-> 0, pages |-> 0,
                    result |-> <<>>, base |-> liked, had |-> tracks, cut |-> FALSE]
  BY <1>1 DEF Idle, tracks
<1>12. <<>> \in Seq(Tracks) /\ 0 \in Nat
  OBVIOUS
<1> HIDE DEF pc
<1>13. fetch' \in Fetch
  BY <1>3, <1>10, <1>11, <1>12 DEF Fetch, NoLink
<1>5. /\ fetch' \in Fetch /\ fetch'.of = of
      /\ fetch'.pc = IF of = "spotify" THEN "top" ELSE "videos"
      /\ fetch'.top = <<>> /\ fetch'.all = <<>> /\ fetch'.result = <<>>
      /\ fetch'.link = 0 /\ fetch'.base = liked /\ ~ fetch'.cut
      /\ fetch'.had = ToSet(liked) \cup ToSet(favourites)
  BY <1>10, <1>11, <1>13 DEF tracks, pc
<1>6. Len(<<>>) = 0 /\ ToSet(<<>>) = {}
  BY DEF ToSet
<1>7. FetchTypeOK'
  BY <1>2, <1>5, <1>6 DEF FetchInv, FetchTypeOK, IsList
<1>8. NoTrackTwice' /\ NothingOverlooked'
  BY <1>5 DEF NoTrackTwice, NothingOverlooked
<1>9. OnlyLiked' /\ PassedUpto(fetch, fetch.link)' /\ LatestFirst(fetch)'
  <2>1. Len(liked) \in Nat /\ DOMAIN liked = 1 .. Len(liked) /\ Len(liked) - Len(liked) = 0
    BY <1>3
  <2>2. Shift' = 0
    BY <1>2, <1>5, <2>1 DEF Shift
  <2>3. \A i \in 1 .. Len(liked) : i + 0 = i /\ ~ (i + 0 <= 0)
    BY <2>1
  <2>4. OnlyLiked'
    BY <1>2, <1>5, <2>1, <2>2, <2>3 DEF OnlyLiked
  <2>5. PassedUpto(fetch, fetch.link)'
    BY <1>5, <2>1, <2>2, <2>3 DEF PassedUpto
  <2>6. LatestFirst(fetch)'
    BY <1>5 DEF LatestFirst
  <2> QED
    BY <2>4, <2>5, <2>6
<1> QED
  BY <1>2, <1>5, <1>6, <1>7, <1>8, <1>9 DEF FetchInv, NoLink, Busy

\* What a call knows of its user's tracks while it waits.
LEMMA Waiting ==
  ASSUME FetchInv, Busy
  PROVE  /\ IsList(liked) /\ liked \in Seq(Tracks) /\ IsList(favourites)
         /\ favourites \in Seq(Tracks) /\ Len(favourites) <= PageSize
         /\ fetch \in Fetch /\ fetch.base \in Seq(Tracks) /\ fetch.all \in Seq(Tracks)
         /\ fetch.link \in Nat /\ fetch.result = <<>> /\ Len(fetch.top) <= PageSize
         /\ fetch.pc \in {"top", "videos"} => fetch.top = <<>>
         /\ fetch.pc = "top" => fetch.all = <<>>
         /\ fetch.of = IF fetch.pc = "videos" THEN "youtube" ELSE "spotify"
         /\ ToSet(liked) \cup ToSet(favourites) \subseteq fetch.had
         /\ ToSet(fetch.top) \cup ToSet(fetch.all) \subseteq fetch.had
         /\ ~ fetch.cut => OnlyLiked /\ PassedUpto(fetch, fetch.link) /\ LatestFirst(fetch)
<1>1. fetch \in Fetch /\ fetch.pc # "done" /\ fetch.link # NoLink
  BY DEF FetchInv, FetchTypeOK, Busy
<1>2. fetch.base \in Seq(Tracks) /\ fetch.all \in Seq(Tracks) /\ fetch.link \in Nat
  BY <1>1 DEF Fetch
<1> QED
  BY <1>1, <1>2 DEF FetchInv, FetchTypeOK, IsList

LEMMA TopKeepsInv ==
  ASSUME FetchInv, FetchTopTracks
  PROVE  FetchInv'
<1> DEFINE g == [fetch EXCEPT !.pc = "saved", !.top = favourites]
<1>1. fetch.pc = "top" /\ fetch' = Saved(g) /\ UNCHANGED <<liked, favourites, changes>>
  BY DEF FetchTopTracks
<1>2. Busy
  BY <1>1 DEF Busy
<1>3. /\ g \in Fetch /\ g.pc = "saved" /\ g.of = fetch.of /\ g.top = favourites
      /\ g.all = fetch.all /\ g.link = fetch.link /\ g.result = fetch.result
      /\ g.base = fetch.base /\ g.had = fetch.had /\ g.cut = fetch.cut
  BY <1>2, Waiting DEF Fetch
<1> HIDE DEF g
<1>4. Answering(g)
  <2>1. /\ g.of = "spotify" /\ g.result = <<>> /\ Len(g.top) <= PageSize
        /\ ToSet(liked) \cup ToSet(favourites) \subseteq g.had
        /\ ToSet(g.top) \cup ToSet(g.all) \subseteq g.had
    BY <1>1, <1>2, <1>3, Waiting
  <2>2. g.link # NoLink
    BY <1>2, <1>3 DEF FetchInv
  <2>3. ~ g.cut => OnlyLiked /\ PassedUpto(g, g.link) /\ LatestFirst(g)
    BY <1>2, <1>3, Waiting DEF PassedUpto, LatestFirst
  <2> QED
    BY <1>3, <2>1, <2>2, <2>3 DEF Answering
<1> QED
  BY <1>1, <1>3, <1>4, AnswerKeepsInv

\* Either client appends a page and takes the link to the next one; YouTube's
\* takes an empty page for the last.
WithPage(g, size) ==
    /\ g \in Fetch
    /\ g.pc = fetch.pc /\ g.of = fetch.of /\ g.top = fetch.top
    /\ g.all = fetch.all \o Page(fetch.link, size)
    /\ \/ g.link = LinkAfter(fetch.link, size)
       \/ Page(fetch.link, size) = <<>> /\ g.link = NoLink
    /\ g.result = fetch.result /\ g.base = fetch.base /\ g.had = fetch.had /\ g.cut = fetch.cut

LEMMA PageIsAnswering ==
  ASSUME FetchInv, fetch.pc \in {"saved", "videos"}, NEW size \in 1 .. PageSize,
         NEW g, WithPage(g, size)
  PROVE  Answering(g)
<1> USE DEF WithPage
<1> DEFINE offset == fetch.link
           page == Page(offset, size)
<1>1. Busy
  BY DEF Busy
<1>2. /\ IsList(liked) /\ liked \in Seq(Tracks) /\ fetch.base \in Seq(Tracks)
      /\ fetch.all \in Seq(Tracks) /\ offset \in Nat /\ size \in Nat \ {0}
  BY <1>1, Waiting
<1>3. /\ page \in Seq(Tracks) /\ ToSet(page) \subseteq ToSet(liked)
      /\ \A x \in DOMAIN liked : x > offset /\ x <= offset + size => x - offset \in DOMAIN page
  BY <1>2, PageIsWindow
<1>4. ToSet(g.all) = ToSet(fetch.all) \cup ToSet(page)
  BY <1>2, <1>3, ElementsOfBoth
<1>5. /\ g.of = IF g.pc = "videos" THEN "youtube" ELSE "spotify"
      /\ g.result = <<>> /\ Len(g.top) <= PageSize
      /\ g.pc = "videos" => g.top = <<>>
      /\ ToSet(liked) \cup ToSet(favourites) \subseteq g.had
      /\ ToSet(g.top) \cup ToSet(g.all) \subseteq g.had
  BY <1>1, <1>3, <1>4, Waiting
<1>6. ASSUME ~ g.cut
      PROVE  /\ OnlyLiked /\ LatestFirst(g)
             /\ g.link = NoLink => ToSet(g.base) \subseteq ToSet(g.all)
             /\ g.link # NoLink => PassedUpto(g, g.link)
  <2>1. OnlyLiked /\ PassedUpto(fetch, offset) /\ LatestFirst(fetch)
    BY <1>1, <1>6, Waiting
  <2>2. PassedUpto(g, offset + size) /\ LatestFirst(g)
    BY <1>2, <2>1, PageGoesOn
  <2>3. Len(liked) \in Nat /\ DOMAIN liked = 1 .. Len(liked) /\ offset + size \in Nat
    BY <1>2
  <2>4. CASE g.link # NoLink
    <3>1. g.link = offset + size
      BY <2>4 DEF LinkAfter
    <3> QED
      BY <2>1, <2>2, <2>4, <3>1
  <2>5. CASE g.link = NoLink
    <3>1. Len(liked) <= offset + size
      <4>1. CASE g.link = LinkAfter(offset, size)
        <5>1. ~ (offset + size < Len(liked))
          <6> SUFFICES ASSUME offset + size < Len(liked) PROVE FALSE
            OBVIOUS
          <6>1. g.link = offset + size
            BY <4>1 DEF LinkAfter
          <6>2. offset + size = -1
            BY <2>5, <6>1 DEF NoLink
          <6> HIDE DEF offset
          <6> QED
            BY <1>2, <6>2
        <5> QED
          BY <2>3, <5>1
      <4>2. CASE page = <<>>
        <5> SUFFICES ASSUME ~ (Len(liked) <= offset + size) PROVE FALSE
          OBVIOUS
        <5>1. offset + 1 \in DOMAIN liked /\ offset + 1 > offset /\ offset + 1 <= offset + size
          <6> HIDE DEF offset
          <6> QED
            BY <1>2, <2>3
        <5>2. (offset + 1) - offset \in DOMAIN page
          BY <1>3, <5>1
        <5> QED
          BY <4>2, <5>2
      <4> QED
        BY <4>1, <4>2
    <3>2. ToSet(g.base) \subseteq ToSet(g.all)
      BY <1>2, <2>1, <2>2, <2>3, <3>1, AllPassed
    <3> QED
      BY <2>1, <2>2, <2>5, <3>2
  <2> QED
    BY <2>4, <2>5
<1> QED
  BY <1>5, <1>6 DEF Answering

LEMMA SavedPageKeepsInv ==
  ASSUME FetchInv, FetchSavedTracksPage
  PROVE  FetchInv'
<1>1. PICK size \in 1 .. PageSize :
        fetch' = Saved([fetch EXCEPT !.all = @ \o Page(fetch.link, size),
                                     !.link = LinkAfter(fetch.link, size)])
  BY DEF FetchSavedTracksPage
<1>2. fetch.pc = "saved" /\ UNCHANGED <<liked, favourites, changes>>
  BY DEF FetchSavedTracksPage
<1>3. Busy
  BY <1>2 DEF Busy
<1>4. /\ fetch \in Fetch /\ fetch.link \in Nat /\ fetch.all \in Seq(Tracks)
      /\ liked \in Seq(Tracks) /\ size \in Nat \ {0}
  BY <1>3, Waiting
<1>5. LinkAfter(fetch.link, size) \in Nat \cup {NoLink}
  BY <1>4 DEF LinkAfter
<1>6. fetch.all \o Page(fetch.link, size) \in Seq(Tracks)
  BY <1>4, PageIsWindow, ElementsOfBoth
<1> DEFINE g == [fetch EXCEPT !.all = fetch.all \o Page(fetch.link, size),
                              !.link = LinkAfter(fetch.link, size)]
<1>7. /\ g \in Fetch /\ g.pc = "saved" /\ g.of = fetch.of /\ g.top = fetch.top
      /\ g.all = fetch.all \o Page(fetch.link, size) /\ g.link = LinkAfter(fetch.link, size)
      /\ g.result = fetch.result /\ g.base = fetch.base /\ g.had = fetch.had /\ g.cut = fetch.cut
  BY <1>2, <1>4, <1>5, <1>6 DEF Fetch
<1>8. fetch' = Saved(g)
  BY <1>1
<1> HIDE DEF g
<1>9. Answering(g)
  <2>1. fetch.pc \in {"saved", "videos"} /\ g.pc = fetch.pc
    BY <1>2, <1>7
  <2> QED
    BY <1>7, <2>1, PageIsAnswering DEF WithPage
<1> QED
  BY <1>2, <1>7, <1>8, <1>9, AnswerKeepsInv

LEMMA VideosPageKeepsInv ==
  ASSUME FetchInv, FetchVideosPage
  PROVE  FetchInv'
<1>1. PICK size \in 1 .. PageSize :
        fetch' = Videos([fetch EXCEPT !.all = @ \o Page(fetch.link, size),
                                      !.link = IF Page(fetch.link, size) = <<>> THEN NoLink
                                               ELSE LinkAfter(fetch.link, size),
                                      !.pages = @ + 1])
  BY DEF FetchVideosPage
<1>2. fetch.pc = "videos" /\ UNCHANGED <<liked, favourites, changes>>
  BY DEF FetchVideosPage
<1>3. Busy
  BY <1>2 DEF Busy
<1>4. /\ fetch \in Fetch /\ fetch.link \in Nat /\ fetch.all \in Seq(Tracks)
      /\ liked \in Seq(Tracks) /\ size \in Nat \ {0} /\ fetch.pages \in Nat
  BY <1>3, Waiting DEF Fetch
<1> DEFINE link == IF Page(fetch.link, size) = <<>> THEN NoLink
                   ELSE LinkAfter(fetch.link, size)
<1>5. link \in Nat \cup {NoLink} /\ fetch.pages + 1 \in Nat
  BY <1>4 DEF LinkAfter
<1>6. fetch.all \o Page(fetch.link, size) \in Seq(Tracks)
  BY <1>4, PageIsWindow, ElementsOfBoth
<1>7. \/ link = LinkAfter(fetch.link, size)
      \/ Page(fetch.link, size) = <<>> /\ link = NoLink
  OBVIOUS
<1> DEFINE g == [fetch EXCEPT !.all = fetch.all \o Page(fetch.link, size),
                              !.link = link, !.pages = fetch.pages + 1]
<1>8. fetch' = Videos(g)
  BY <1>1
<1> HIDE DEF link
<1>9. /\ g \in Fetch /\ g.pc = "videos" /\ g.of = fetch.of /\ g.top = fetch.top
      /\ g.all = fetch.all \o Page(fetch.link, size) /\ g.link = link
      /\ g.result = fetch.result /\ g.base = fetch.base /\ g.had = fetch.had /\ g.cut = fetch.cut
  BY <1>2, <1>4, <1>5, <1>6 DEF Fetch
<1> HIDE DEF g
<1>10. Answering(g)
  <2>1. fetch.pc \in {"saved", "videos"} /\ g.pc = fetch.pc
    BY <1>2, <1>9
  <2>2. \/ g.link = LinkAfter(fetch.link, size)
        \/ Page(fetch.link, size) = <<>> /\ g.link = NoLink
    BY <1>7, <1>9
  <2> QED
    BY <1>9, <2>1, <2>2, PageIsAnswering DEF WithPage
<1> QED
  BY <1>2, <1>8, <1>9, <1>10, AnswerKeepsInv

LEMMA FailKeepsInv ==
  ASSUME FetchInv, RequestFails
  PROVE  FetchInv'
<1>1. fetch' = [fetch EXCEPT !.pc = "failed"] /\ UNCHANGED <<liked, favourites, changes>> /\ Busy
  BY DEF RequestFails
<1>2. fetch \in Fetch /\ fetch.result = <<>> /\ Len(fetch.top) <= PageSize
  BY <1>1, Waiting
<1>3. /\ fetch' \in Fetch /\ fetch'.pc = "failed" /\ fetch'.result = <<>>
      /\ fetch'.top = fetch.top
  BY <1>1, <1>2 DEF Fetch
<1>4. Len(<<>>) = 0 /\ ToSet(<<>>) = {}
  BY DEF ToSet
<1> QED
  BY <1>1, <1>2, <1>3, <1>4
     DEF FetchInv, FetchTypeOK, IsList, NoTrackTwice, NothingOverlooked, Busy

LEMMA ReturnKeepsInv ==
  ASSUME FetchInv, Return
  PROVE  FetchInv'
<1>1. fetch' = Idle /\ UNCHANGED <<liked, favourites, changes>>
  BY DEF Return
<1>2. fetch' \in Fetch /\ fetch'.pc = "idle" /\ fetch'.result = <<>> /\ fetch'.top = <<>>
  BY <1>1 DEF Idle, Fetch, NoLink
<1>3. Len(<<>>) = 0 /\ ToSet(<<>>) = {}
  BY DEF ToSet
<1> QED
  BY <1>1, <1>2, <1>3
     DEF FetchInv, FetchTypeOK, IsList, NoTrackTwice, NothingOverlooked, Busy

LEMMA NextKeepsInv == FetchInv /\ [Next]_vars => FetchInv'
<1> SUFFICES ASSUME FetchInv, [Next]_vars PROVE FetchInv'
  OBVIOUS
<1>1. ASSUME NEW t \in Tracks, Like(t) PROVE FetchInv'
  BY <1>1, LikeKeepsInv
<1>2. ASSUME NEW t \in Tracks, Unlike(t) PROVE FetchInv'
  BY <1>2, UnlikeKeepsInv
<1>3. CASE Call
  BY <1>3, CallKeepsInv
<1>4. CASE FetchTopTracks
  BY <1>4, TopKeepsInv
<1>5. CASE FetchSavedTracksPage
  BY <1>5, SavedPageKeepsInv
<1>6. CASE FetchVideosPage
  BY <1>6, VideosPageKeepsInv
<1>7. CASE RequestFails
  BY <1>7, FailKeepsInv
<1>8. CASE Return
  BY <1>8, ReturnKeepsInv
<1>9. CASE UNCHANGED vars
  <2>1. UNCHANGED <<liked, favourites, changes, fetch>>
    BY <1>9 DEF vars
  <2>2. FetchTypeOK' /\ NoTrackTwice' /\ NothingOverlooked' /\ (Busy' <=> Busy)
    BY <2>1 DEF FetchInv, FetchTypeOK, IsList, NoTrackTwice, NothingOverlooked, Busy
  <2>3. /\ OnlyLiked => OnlyLiked'
        /\ PassedUpto(fetch, fetch.link) => PassedUpto(fetch, fetch.link)'
        /\ LatestFirst(fetch) => LatestFirst(fetch)'
    BY <2>1 DEF OnlyLiked, Shift, PassedUpto, LatestFirst
  <2> QED
    BY <2>1, <2>2, <2>3 DEF FetchInv
<1> QED
  BY <1>1, <1>2, <1>3, <1>4, <1>5, <1>6, <1>7, <1>8, <1>9 DEF Next, Answered

-----------------------------------------------------------------------------
(* A call is a listing.                                                    *)

LEMMA StageIs ==
  /\ Busy => Stage = "busy"
  /\ fetch.pc = "idle" => Stage = "idle"
  /\ fetch.pc = "done" => Stage = "done"
  /\ fetch.pc = "failed" => Stage = "failed"
BY DEF Stage, Busy

LEMMA InitIsListing == Init => Listing!Init
<1> SUFFICES ASSUME Init PROVE Listing!Init
  OBVIOUS
<1>1. fetch.pc = "idle" /\ fetch.had = {} /\ ToSet(fetch.result) = {}
  BY DEF Init, Idle, ToSet
<1> QED
  BY <1>1, StageIs DEF Listing!Init

\* The user's likes go on: a call under way counts the new track in.
LEMMA LikeIsListing ==
  ASSUME FetchInv, NEW t \in Tracks, Like(t)
  PROVE  [Listing!Next]_(Listing!listing)
<1>1. fetch \in Fetch /\ fetch' = IF Busy THEN [fetch EXCEPT !.had = @ \cup {t}] ELSE fetch
  BY DEF FetchInv, FetchTypeOK, Like
<1>2. /\ fetch'.pc = fetch.pc /\ fetch'.result = fetch.result
      /\ fetch'.had = IF Busy THEN fetch.had \cup {t} ELSE fetch.had
  BY <1>1 DEF Fetch
<1>3. Stage' = Stage
  BY <1>2 DEF Stage, Busy
<1>4. CASE Busy
  BY <1>2, <1>3, <1>4, StageIs DEF Listing!Next, Listing!NewTrack
<1>5. CASE ~ Busy
  BY <1>2, <1>3, <1>5 DEF Listing!listing
<1> QED
  BY <1>4, <1>5

LEMMA UnlikeIsStutter ==
  ASSUME FetchInv, NEW t \in Tracks, Unlike(t)
  PROVE  UNCHANGED Listing!listing
<1>1. fetch \in Fetch /\ fetch' = IF Busy THEN [fetch EXCEPT !.cut = TRUE] ELSE fetch
  BY DEF FetchInv, FetchTypeOK, Unlike
<1>2. fetch'.pc = fetch.pc /\ fetch'.result = fetch.result /\ fetch'.had = fetch.had
  BY <1>1 DEF Fetch
<1> QED
  BY <1>2 DEF Listing!listing, Stage, Busy

LEMMA CallIsListing ==
  ASSUME FetchInv, FetchInv', Call
  PROVE  Listing!Call
<1>1. PICK of \in {"spotify", "youtube"} :
        fetch' = [Idle EXCEPT !.of = of,
                              !.pc = IF of = "spotify" THEN "top" ELSE "videos",
                              !.base = liked,
                              !.had = ToSet(liked) \cup ToSet(favourites)]
  BY DEF Call
<1>2. fetch.pc = "idle" /\ fetch.result = <<>>
  BY DEF Call, FetchInv
<1>3. fetch'.pc \in {"top", "videos"} /\ fetch'.result = <<>>
  BY <1>1 DEF Idle
<1>4. fetch'.had \in SUBSET Tracks
  BY DEF FetchInv, FetchTypeOK, Fetch
<1>5. Stage = "idle" /\ Stage' = "busy"
  BY <1>2, <1>3 DEF Stage, Busy
<1> QED
  BY <1>2, <1>3, <1>4, <1>5 DEF Listing!Call

\* Requests between the first and the last answer are none of the caller's
\* business; the last answer is the result.
LEMMA AnswerIsListing ==
  ASSUME FetchInv, FetchInv', Busy, fetch'.had = fetch.had,
         \/ Busy' /\ fetch'.result = fetch.result
         \/ fetch'.pc = "done"
  PROVE  [Listing!Next]_(Listing!listing)
<1>1. Stage = "busy"
  BY StageIs
<1>2. CASE Busy' /\ fetch'.result = fetch.result
  BY <1>1, <1>2 DEF Stage, Busy, Listing!listing
<1>3. CASE fetch'.pc = "done"
  <2>1. Stage' = "done"
    BY <1>3 DEF Stage, Busy
  <2>2. fetch'.result \in Seq(Tracks) /\ Len(fetch'.result) <= MaxTracks
    BY DEF FetchInv, FetchTypeOK, Fetch
  <2>3. Cardinality(ToSet(fetch'.result)) <= MaxTracks
    BY <2>2, ElementsAreFew
  <2>4. ToSet(fetch'.result) \in SUBSET fetch.had
    BY DEF FetchInv
  <2>5. ToSet(fetch.result)' \in SUBSET fetch.had /\ Listing!Cardinality(ToSet(fetch.result)') <= MaxTracks
    BY <2>3, <2>4 DEF Cardinality, Listing!Cardinality
  <2>6. Listing!Succeed
    BY <1>1, <2>1, <2>5 DEF Listing!Succeed
  <2> QED
    BY <2>6 DEF Listing!Next
<1> QED
  BY <1>2, <1>3

\* What the answers do to the call.
LEMMA AnswerGoesOnOrEnds ==
  ASSUME FetchInv, Answered
  PROVE  /\ Busy /\ fetch'.had = fetch.had
         /\ \/ Busy' /\ fetch'.result = fetch.result
            \/ fetch'.pc = "done"
<1>1. fetch \in Fetch
  BY DEF FetchInv, FetchTypeOK
<1>2. CASE FetchTopTracks
  BY <1>1, <1>2 DEF FetchTopTracks, Saved, Busy, Fetch
<1>3. CASE FetchSavedTracksPage
  BY <1>1, <1>3 DEF FetchSavedTracksPage, Saved, Busy, Fetch
<1>4. CASE FetchVideosPage
  BY <1>1, <1>4 DEF FetchVideosPage, Videos, Busy, Fetch
<1> QED
  BY <1>2, <1>3, <1>4 DEF Answered

LEMMA FailIsListing ==
  ASSUME FetchInv, RequestFails
  PROVE  Listing!Fail
<1>1. fetch \in Fetch /\ fetch' = [fetch EXCEPT !.pc = "failed"] /\ Busy
  BY DEF FetchInv, FetchTypeOK, RequestFails
<1>2. fetch'.pc = "failed" /\ fetch'.had = fetch.had /\ fetch'.result = fetch.result
  BY <1>1 DEF Fetch
<1>3. Stage = "busy" /\ Stage' = "failed"
  BY <1>1, <1>2 DEF Stage, Busy
<1> QED
  BY <1>2, <1>3 DEF Listing!Fail

LEMMA ReturnIsListing ==
  ASSUME Return
  PROVE  Listing!GoOn
<1>1. fetch.pc \in {"done", "failed"} /\ fetch' = Idle
  BY DEF Return
<1>2. fetch'.pc = "idle" /\ fetch'.had = {} /\ ToSet(fetch'.result) = {}
  BY <1>1 DEF Idle, ToSet
<1>3. Stage \in {"done", "failed"} /\ Stage' = "idle"
  BY <1>1, <1>2 DEF Stage, Busy
<1> QED
  BY <1>2, <1>3 DEF Listing!GoOn

LEMMA NextIsListing ==
  FetchInv /\ FetchInv' /\ [Next]_vars => [Listing!Next]_(Listing!listing)
<1> SUFFICES ASSUME FetchInv, FetchInv', [Next]_vars PROVE [Listing!Next]_(Listing!listing)
  OBVIOUS
<1>1. ASSUME NEW t \in Tracks, Like(t) PROVE [Listing!Next]_(Listing!listing)
  BY <1>1, LikeIsListing
<1>2. ASSUME NEW t \in Tracks, Unlike(t) PROVE [Listing!Next]_(Listing!listing)
  BY <1>2, UnlikeIsStutter
<1>3. CASE Call
  BY <1>3, CallIsListing DEF Listing!Next
<1>4. CASE Answered
  BY <1>4, AnswerGoesOnOrEnds, AnswerIsListing
<1>5. CASE RequestFails
  BY <1>5, FailIsListing DEF Listing!Next
<1>6. CASE Return
  BY <1>6, ReturnIsListing DEF Listing!Next
<1>7. CASE UNCHANGED vars
  BY <1>7 DEF vars, Listing!listing, Stage, Busy
<1> QED
  BY <1>1, <1>2, <1>3, <1>4, <1>5, <1>6, <1>7 DEF Next

-----------------------------------------------------------------------------
(* The theorems.                                                           *)

\* While nothing is unliked, a call has the list at its start from the latest
\* track to the one before its next page.
THEOREM FetchInvariance == Spec => []FetchInv
BY InitFetchInv, NextKeepsInv, PTL DEF Spec

\* The lists, the call and its answer keep their types and their limits.
THEOREM FetchTypeCorrect == Spec => []FetchTypeOK
<1>1. FetchInv => FetchTypeOK
  BY DEF FetchInv
<1> QED
  BY <1>1, FetchInvariance, PTL

\* deduplicateTracks clears Spotify's answer of the tracks that are both top
\* and liked, or came on two pages.
THEOREM NoDuplicates == Spec => []NoTrackTwice
<1>1. FetchInv => NoTrackTwice
  BY DEF FetchInv
<1> QED
  BY <1>1, FetchInvariance, PTL

\* Without an unlike, FetchUserTracks leaves out nothing but the oldest.
THEOREM OnlyTheOldestAreMissing == Spec => []NothingOverlooked
<1>1. FetchInv => NothingOverlooked
  BY DEF FetchInv
<1> QED
  BY <1>1, FetchInvariance, PTL

\* To its caller, a call of many requests is one step that lists some of the
\* tracks the user has had meanwhile, and no more than the maximum, or fails.
THEOREM FetchImplementsListing == Spec => ListsTracks
<1>1. FetchInv /\ FetchInv' /\ [Next]_vars => [Listing!Next]_(Listing!listing)
  BY NextIsListing
<1> QED
  BY <1>1, InitIsListing, FetchInvariance, PTL DEF Spec, ListsTracks, Listing!Spec
=============================================================================
