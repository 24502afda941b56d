---------------------------- MODULE QueryProofs ----------------------------
(***************************************************************************)
(* What a search finds, for titles and queries of any length and of any    *)
(* characters: a song by its title, by the initial consonants of a Korean  *)
(* one and by the first letters of another's words, and by consonants      *)
(* nothing that LIKE would not find.                                       *)
(***************************************************************************)
EXTENDS MCText, SubsequenceProofs

-----------------------------------------------------------------------------
(* Trimming.                                                               *)

\* A set of some of the numbers up to n has a greatest.
LEMMA Greatest ==
  ASSUME NEW n \in Nat, NEW T \in SUBSET (1 .. n), T # {}
  PROVE  \E x \in T : \A y \in T : y <= x
<1> DEFINE R == {n - x : x \in T}
<1>1. R \in SUBSET Nat /\ R # {}
  <2>1. ASSUME NEW x \in T
        PROVE  n - x \in Nat
    OBVIOUS
  <2>2. PICK x \in T : TRUE
    OBVIOUS
  <2>3. n - x \in R
    OBVIOUS
  <2> QED
    BY <2>1, <2>3
<1>2. PICK r \in R : \A q \in R : r <= q
  <2> HIDE DEF R
  <2> QED
    BY <1>1, Least
<1>3. PICK x \in T : r = n - x
  OBVIOUS
<1>4. ASSUME NEW y \in T
      PROVE  y <= x
  <2>1. n - x <= n - y
    BY <1>2, <1>3
  <2>2. n \in Int /\ x \in Int /\ y \in Int
    OBVIOUS
  <2> QED
    BY ONLY <2>1, <2>2
<1> QED
  BY <1>4

\* The first and the last character of s that is not a space.
Ends(s, a, b) ==
    /\ a \in DOMAIN s /\ b \in DOMAIN s
    /\ ~ IsSpace(s[a]) /\ ~ IsSpace(s[b])
    /\ \A i \in DOMAIN s : ~ IsSpace(s[i]) => a <= i /\ i <= b

LEMMA TrimIsBetweenEnds ==
  ASSUME NEW S, NEW s \in Seq(S), NEW a, NEW b, Ends(s, a, b)
  PROVE  a <= b /\ TrimSpace(s) = SubSeq(s, a, b)
<1> DEFINE ink == {i \in DOMAIN s : ~ IsSpace(s[i])}
<1>1. DOMAIN s = 1 .. Len(s) /\ Len(s) \in Nat
  OBVIOUS
<1>2. /\ a \in ink /\ b \in ink /\ ink \in SUBSET Nat
      /\ \A i \in ink : a <= i /\ i <= b
  BY <1>1 DEF Ends
<1>3. TrimSpace(s) = SubSeq(s, Min(ink), Max(ink))
  BY <1>2 DEF TrimSpace
<1> HIDE DEF ink
<1>4. Min(ink) \in ink /\ \A i \in ink : Min(ink) <= i
  BY <1>2 DEF Min
<1>5. Max(ink) \in ink /\ \A i \in ink : i <= Max(ink)
  BY <1>2 DEF Max
<1>6. Min(ink) = a /\ Max(ink) = b
  <2>1. a \in Nat /\ b \in Nat /\ Min(ink) \in Nat /\ Max(ink) \in Nat
    BY <1>2, <1>4, <1>5
  <2>2. Min(ink) <= a /\ a <= Min(ink) /\ Max(ink) <= b /\ b <= Max(ink)
    BY <1>2, <1>4, <1>5
  <2> QED
    BY <2>1, <2>2
<1> QED
  BY <1>2, <1>3, <1>6

LEMMA HasEnds ==
  ASSUME NEW S, NEW s \in Seq(S), NEW c \in DOMAIN s, ~ IsSpace(s[c])
  PROVE  \E a, b : Ends(s, a, b)
<1> DEFINE ink == {i \in DOMAIN s : ~ IsSpace(s[i])}
<1>1. DOMAIN s = 1 .. Len(s) /\ Len(s) \in Nat
  OBVIOUS
<1>2. ink \in SUBSET (1 .. Len(s)) /\ ink # {} /\ ink \in SUBSET Nat
  BY <1>1
<1> HIDE DEF ink
<1>3. PICK a \in ink : \A i \in ink : a <= i
  BY <1>2, Least
<1>4. PICK b \in ink : \A i \in ink : i <= b
  BY <1>1, <1>2, Greatest
<1> QED
  BY <1>3, <1>4 DEF Ends, ink

\* Nothing is left of spaces.
LEMMA BlankIsTrimmed ==
  ASSUME NEW s, \A i \in DOMAIN s : IsSpace(s[i])
  PROVE  TrimSpace(s) = <<>>
<1>1. {i \in DOMAIN s : ~ IsSpace(s[i])} = {}
  OBVIOUS
<1> QED
  BY <1>1 DEF TrimSpace

\* A part of a sequence.
LEMMA PartOf ==
  ASSUME NEW S, NEW s \in Seq(S), NEW a \in DOMAIN s, NEW b \in DOMAIN s, a <= b
  PROVE  LET t == SubSeq(s, a, b)
         IN  /\ t \in Seq(S) /\ Len(t) = (b - a) + 1 /\ DOMAIN t = 1 .. (b - a) + 1
             /\ \A k \in DOMAIN t : k + (a - 1) \in a .. b /\ t[k] = s[k + (a - 1)]
             /\ \A i \in a .. b : i - (a - 1) \in DOMAIN t
<1>1. a \in Nat /\ b \in Nat /\ 1 <= a /\ b <= Len(s) /\ Len(s) \in Nat
  OBVIOUS
<1> DEFINE t == SubSeq(s, a, b)
<1>2. t \in Seq(S) /\ Len(t) = (b - a) + 1
  BY <1>1
<1>3. DOMAIN t = 1 .. (b - a) + 1
  BY <1>2
<1>4. \A k \in 1 .. (b - a) + 1 : t[k] = s[k + (a - 1)]
  BY <1>1
<1> HIDE DEF t
<1>5. \A k \in 1 .. (b - a) + 1 : k + (a - 1) \in a .. b
  BY <1>1
<1>6. \A i \in a .. b : i - (a - 1) \in 1 .. (b - a) + 1
  BY <1>1
<1> QED
  BY <1>2, <1>3, <1>4, <1>5, <1>6 DEF t

\* All that is not a space stays, in a sequence of the same characters.
LEMMA TrimKeeps ==
  ASSUME NEW S, NEW s \in Seq(S)
  PROVE  /\ TrimSpace(s) \in Seq(S)
         /\ ToSet(TrimSpace(s)) \subseteq ToSet(s)
         /\ \A c \in ToSet(s) : ~ IsSpace(c) => c \in ToSet(TrimSpace(s))
<1>1. CASE \A i \in DOMAIN s : IsSpace(s[i])
  <2>1. TrimSpace(s) = <<>>
    BY <1>1, BlankIsTrimmed
  <2>2. <<>> \in Seq(S) /\ ToSet(<<>>) = {}
    BY DEF ToSet
  <2>3. \A c \in ToSet(s) : IsSpace(c)
    BY <1>1 DEF ToSet
  <2> QED
    BY <2>1, <2>2, <2>3
<1>2. CASE \E i \in DOMAIN s : ~ IsSpace(s[i])
  <2>1. PICK a, b : Ends(s, a, b)
    BY <1>2, HasEnds
  <2> DEFINE t == SubSeq(s, a, b)
  <2>2. a <= b /\ TrimSpace(s) = t
    BY <2>1, TrimIsBetweenEnds
  <2>3. a \in DOMAIN s /\ b \in DOMAIN s
    BY <2>1 DEF Ends
  <2>4. DOMAIN s = 1 .. Len(s) /\ Len(s) \in Nat
    OBVIOUS
  <2>5. /\ t \in Seq(S)
        /\ \A k \in DOMAIN t : k + (a - 1) \in a .. b /\ t[k] = s[k + (a - 1)]
        /\ \A i \in a .. b : i - (a - 1) \in DOMAIN t
    BY <2>2, <2>3, PartOf
  <2> HIDE DEF t
  <2>6. ToSet(t) \subseteq ToSet(s)
    <3>1. \A i \in a .. b : i \in DOMAIN s
      BY <2>3, <2>4
    <3> QED
      BY <2>5, <3>1 DEF ToSet
  <2>7. ASSUME NEW i \in DOMAIN s, ~ IsSpace(s[i])
        PROVE  s[i] \in ToSet(t)
    <3>1. i \in a .. b
      BY <2>1, <2>3, <2>4, <2>7 DEF Ends
    <3>2. i - (a - 1) \in DOMAIN t /\ t[i - (a - 1)] = s[(i - (a - 1)) + (a - 1)]
      BY <2>5, <3>1
    <3>3. (i - (a - 1)) + (a - 1) = i
      BY <2>3, <2>4
    <3> QED
      BY <3>2, <3>3 DEF ToSet
  <2> QED
    BY <2>2, <2>5, <2>6, <2>7 DEF ToSet
<1> QED
  BY <1>1, <1>2

\* What has no space around it stays as it is.
LEMMA NothingToTrim ==
  ASSUME NEW S, NEW s \in Seq(S), s # <<>>, ~ IsSpace(s[1]), ~ IsSpace(s[Len(s)])
  PROVE  TrimSpace(s) = s
<1>1. DOMAIN s = 1 .. Len(s) /\ Len(s) \in Nat /\ Len(s) >= 1
  OBVIOUS
<1>2. Ends(s, 1, Len(s))
  BY <1>1 DEF Ends
<1>3. TrimSpace(s) = SubSeq(s, 1, Len(s))
  BY <1>2, TrimIsBetweenEnds
<1> QED
  BY <1>3

LEMMA TrimmedTwice ==
  ASSUME NEW S, NEW s \in Seq(S)
  PROVE  TrimSpace(TrimSpace(s)) = TrimSpace(s)
<1>1. CASE \A i \in DOMAIN s : IsSpace(s[i])
  <2>1. TrimSpace(s) = <<>>
    BY <1>1, BlankIsTrimmed
  <2>2. TrimSpace(<<>>) = <<>>
    BY BlankIsTrimmed
  <2> QED
    BY <2>1, <2>2
<1>2. CASE \E i \in DOMAIN s : ~ IsSpace(s[i])
  <2>1. PICK a, b : Ends(s, a, b)
    BY <1>2, HasEnds
  <2> DEFINE t == SubSeq(s, a, b)
  <2>2. a <= b /\ TrimSpace(s) = t
    BY <2>1, TrimIsBetweenEnds
  <2>3. a \in DOMAIN s /\ b \in DOMAIN s /\ a \in Nat /\ b \in Nat
    BY <2>1 DEF Ends
  <2>4. /\ t \in Seq(S) /\ Len(t) = (b - a) + 1 /\ DOMAIN t = 1 .. (b - a) + 1
        /\ \A k \in DOMAIN t : t[k] = s[k + (a - 1)]
    BY <2>2, <2>3, PartOf
  <2> HIDE DEF t
  <2>5. 1 \in DOMAIN t /\ Len(t) \in DOMAIN t /\ 1 + (a - 1) = a /\ Len(t) + (a - 1) = b
    BY <2>2, <2>3, <2>4
  <2>6. t[1] = s[a] /\ t[Len(t)] = s[b]
    BY <2>4, <2>5
  <2>7. t # <<>> /\ ~ IsSpace(t[1]) /\ ~ IsSpace(t[Len(t)])
    BY <2>1, <2>5, <2>6 DEF Ends
  <2>8. TrimSpace(t) = t
    BY <2>4, <2>7, NothingToTrim
  <2> QED
    BY <2>2, <2>8
<1> QED
  BY <1>1, <1>2

-----------------------------------------------------------------------------
(* Characters.                                                             *)

LEMMA WordCharIsInk ==
  ASSUME NEW c, IsWordChar(c)
  PROVE  ~ IsSpace(c)
BY DEF IsWordChar, Letters, Syllables, Jamo, Capitals, Digits, IsSpace, Space

LEMMA JamoIsInk ==
  ASSUME NEW c \in Jamo
  PROVE  ~ IsSpace(c) /\ c \notin Syllables /\ c \notin Digits /\ c \in Letters
<1>1. c \in Int /\ 12593 <= c /\ c <= 12622
  BY DEF Jamo
<1>2. ~ IsSpace(c)
  BY ONLY <1>1 DEF IsSpace, Space
<1>3. ASSUME c \in Syllables
      PROVE  FALSE
  <2>1. 44032 <= c
    BY <1>3 DEF Syllables
  <2> QED
    BY <1>1, <2>1
<1>4. c \notin Digits
  BY ONLY <1>1 DEF Digits
<1>5. c \in Letters
  BY DEF Letters
<1> QED
  BY <1>2, <1>3, <1>4, <1>5

LEMMA SyllableIsInk ==
  ASSUME NEW c \in Syllables
  PROVE  ~ IsSpace(c) /\ c \notin Digits /\ c \in Letters
<1>1. c \in Int /\ 44032 <= c
  BY DEF Syllables
<1>2. ~ IsSpace(c)
  BY ONLY <1>1 DEF IsSpace, Space
<1>3. c \notin Digits
  BY ONLY <1>1 DEF Digits
<1>4. c \in Letters
  BY DEF Letters
<1> QED
  BY <1>2, <1>3, <1>4

LEMMA LowerIsWordChar ==
  ASSUME NEW c, IsWordChar(c)
  PROVE  IsWordChar(Lower(c))
BY DEF IsWordChar, Letters, Syllables, Jamo, Capitals, Digits, Lower

\* The 588 syllables of a consonant follow each other.
Among(x, n) == x \in 588 * (n - 1) .. 588 * n - 1

Place(x) == CHOOSE n \in 1 .. 19 : Among(x, n)

Quotient(x) == (x \div 28) \div 21

LEMMA QuotientIsPlace ==
  ASSUME NEW x \in Nat, x <= 11171
  PROVE  Quotient(x) + 1 \in 1 .. 19 /\ Place(x) = Quotient(x) + 1
<1> DEFINE y == x \div 28
           z == y \div 21
<1>1. y \in Nat /\ 28 * y <= x /\ x < 28 * y + 28
  OBVIOUS
<1>2. z \in Nat /\ 21 * z <= y /\ y < 21 * z + 21
  <2> HIDE DEF y
  <2> QED
    BY <1>1
<1>3. Quotient(x) = z
  BY DEF Quotient
<1> HIDE DEF y, z
<1>4. 588 * z <= x /\ x <= 588 * z + 587
  <2>1. 588 * z <= 28 * y /\ 28 * y <= 588 * z + 560
    <3>1. y \in Int /\ z \in Int /\ 21 * z <= y /\ y <= 21 * z + 20
      BY <1>1, <1>2
    <3> QED
      BY ONLY <3>1
  <2>2. x \in Int
    OBVIOUS
  <2> QED
    BY ONLY <1>1, <1>2, <2>1, <2>2
<1>5. z + 1 \in 1 .. 19
  <2>1. z \in Nat /\ x \in Int /\ 588 * z <= x /\ x <= 11171
    BY <1>2, <1>4
  <2> QED
    BY ONLY <2>1
<1>6. Among(x, z + 1)
  BY <1>2, <1>4 DEF Among
<1>7. ASSUME NEW m \in 1 .. 19, Among(x, m)
      PROVE  m = z + 1
  <2>1. 588 * (m - 1) <= x /\ x <= 588 * m - 1
    BY <1>7 DEF Among
  <2> QED
    BY <1>2, <1>4, <2>1
<1>8. Place(x) = z + 1
  BY <1>5, <1>6, <1>7 DEF Place
<1> QED
  BY <1>3, <1>5, <1>8

LEMMA ChosungsAreJamo ==
  ASSUME NEW n \in 1 .. 19
  PROVE  chosungs[n] \in Jamo
<1>1. \/ n \in {1, 2, 3, 4, 5, 6, 7} \/ n \in {8, 9, 10, 11, 12, 13}
      \/ n \in {14, 15, 16, 17, 18, 19}
  OBVIOUS
<1> QED
  BY <1>1 DEF chosungs, Jamo

LEMMA InitialIsThatOfPlace ==
  ASSUME NEW r \in Syllables
  PROVE  InitialOf(r) \in Jamo /\ InitialOf(r) = chosungs[Place(r - 44032)]
<1>1. r - 44032 \in Nat /\ r - 44032 <= 11171
  BY DEF Syllables
<1>2. InitialOf(r) = chosungs[Quotient(r - 44032) + 1]
  BY DEF InitialOf, Quotient
<1>3. /\ Quotient(r - 44032) + 1 \in 1 .. 19
      /\ Place(r - 44032) = Quotient(r - 44032) + 1
  BY <1>1, QuotientIsPlace
<1>4. chosungs[Quotient(r - 44032) + 1] \in Jamo
  BY <1>3, ChosungsAreJamo
<1>5. InitialOf(r) \in Jamo
  BY <1>2, <1>4
<1>6. InitialOf(r) = chosungs[Place(r - 44032)]
  BY <1>2, <1>3
<1> QED
  BY <1>5, <1>6

LEMMA InitialsAreExtracted ==
  ASSUME NEW s
  PROVE  Initials(s) = ExtractChosung(s)
<1>1. \A r \in Syllables : InitialOf(r) = chosungs[Place(r - 44032)]
  BY InitialIsThatOfPlace
<1>2. Initials(s) = [i \in DOMAIN s |-> IF s[i] \in Syllables
                                       THEN chosungs[Place(s[i] - 44032)] ELSE s[i]]
  BY DEF Initials, Apply, Place, Among
<1>3. ExtractChosung(s) = [i \in DOMAIN s |-> IF s[i] \in Syllables
                                             THEN InitialOf(s[i]) ELSE s[i]]
  BY DEF ExtractChosung, Apply
<1> QED
  BY <1>1, <1>2, <1>3

LEMMA Extracted ==
  ASSUME NEW S, NEW s \in Seq(S)
  PROVE  LET e == ExtractChosung(s)
         IN  /\ e \in Seq(S \cup Jamo) /\ Len(e) = Len(s) /\ DOMAIN e = DOMAIN s
             /\ \A i \in DOMAIN s : e[i] = IF s[i] \in Syllables THEN InitialOf(s[i]) ELSE s[i]
             /\ \A i \in DOMAIN s : IsSpace(e[i]) <=> IsSpace(s[i])
<1> DEFINE e == ExtractChosung(s)
<1>1. DOMAIN s = 1 .. Len(s) /\ Len(s) \in Nat
  OBVIOUS
<1>2. e = [i \in 1 .. Len(s) |-> IF s[i] \in Syllables THEN InitialOf(s[i]) ELSE s[i]]
  BY <1>1 DEF ExtractChosung, Apply
<1> HIDE DEF e
<1>3. \A i \in 1 .. Len(s) : e[i] = IF s[i] \in Syllables THEN InitialOf(s[i]) ELSE s[i]
  BY <1>2
<1>4. \A i \in 1 .. Len(s) : e[i] \in S \cup Jamo
  BY <1>1, <1>3, InitialIsThatOfPlace
<1>5. e \in Seq(S \cup Jamo) /\ Len(e) = Len(s) /\ DOMAIN e = 1 .. Len(s)
  BY <1>1, <1>2, <1>4
<1>6. ASSUME NEW i \in 1 .. Len(s)
      PROVE  IsSpace(e[i]) <=> IsSpace(s[i])
  <2>1. CASE s[i] \in Syllables
    <3>1. ~ IsSpace(s[i])
      BY <2>1, SyllableIsInk
    <3>2. e[i] \in Jamo
      <4>1. e[i] = InitialOf(s[i])
        BY <1>3, <2>1
      <4>2. InitialOf(s[i]) \in Jamo
        BY <2>1, InitialIsThatOfPlace
      <4> QED
        BY <4>1, <4>2
    <3>3. ~ IsSpace(e[i])
      BY <3>2, JamoIsInk
    <3> QED
      BY ONLY <3>1, <3>3
  <2>2. CASE s[i] \notin Syllables
    BY <1>3, <2>2
  <2> QED
    BY <2>1, <2>2
<1> QED
  BY <1>1, <1>3, <1>5, <1>6 DEF e

\* It does not matter which of the two is done first.
LEMMA ExtractTrimmed ==
  ASSUME NEW S, NEW s \in Seq(S)
  PROVE  ExtractChosung(TrimSpace(s)) = TrimSpace(ExtractChosung(s))
<1> DEFINE e == ExtractChosung(s)
<1>1. /\ e \in Seq(S \cup Jamo) /\ DOMAIN e = DOMAIN s
      /\ \A i \in DOMAIN s : e[i] = IF s[i] \in Syllables THEN InitialOf(s[i]) ELSE s[i]
      /\ \A i \in DOMAIN s : IsSpace(e[i]) <=> IsSpace(s[i])
  BY Extracted
<1> HIDE DEF e
<1>2. CASE \A i \in DOMAIN s : IsSpace(s[i])
  <2>1. TrimSpace(s) = <<>> /\ TrimSpace(e) = <<>>
    BY <1>1, <1>2, BlankIsTrimmed
  <2>2. ExtractChosung(<<>>) = <<>>
    <3>1. <<>> \in Seq(S)
      OBVIOUS
    <3>2. ExtractChosung(<<>>) \in Seq(S \cup Jamo) /\ Len(ExtractChosung(<<>>)) = 0
      BY <3>1, Extracted
    <3> QED
      BY <3>2
  <2> QED
    BY <2>1, <2>2 DEF e
<1>3. CASE \E i \in DOMAIN s : ~ IsSpace(s[i])
  <2>1. PICK a, b : Ends(s, a, b)
    BY <1>3, HasEnds
  <2>2. Ends(e, a, b)
    BY <1>1, <2>1 DEF Ends
  <2> DEFINE t == SubSeq(s, a, b)
             u == SubSeq(e, a, b)
  <2>3. a <= b /\ TrimSpace(s) = t /\ TrimSpace(e) = u /\ a \in DOMAIN s /\ b \in DOMAIN s
    BY <1>1, <2>1, <2>2, TrimIsBetweenEnds DEF Ends
  <2>4. /\ t \in Seq(S) /\ DOMAIN t = 1 .. (b - a) + 1 /\ Len(t) = (b - a) + 1
        /\ \A k \in DOMAIN t : k + (a - 1) \in a .. b /\ t[k] = s[k + (a - 1)]
    BY <2>3, PartOf
  <2>5. /\ u \in Seq(S \cup Jamo) /\ DOMAIN u = 1 .. (b - a) + 1 /\ Len(u) = (b - a) + 1
        /\ \A k \in DOMAIN u : u[k] = e[k + (a - 1)]
    BY <1>1, <2>3, PartOf
  <2> DEFINE v == ExtractChosung(t)
  <2> HIDE DEF t, u
  <2>6. /\ v \in Seq(S \cup Jamo) /\ DOMAIN v = DOMAIN t /\ Len(v) = Len(t)
        /\ \A k \in DOMAIN t : v[k] = IF t[k] \in Syllables THEN InitialOf(t[k]) ELSE t[k]
    BY <2>4, Extracted
  <2> HIDE DEF v
  <2>7. \A i \in a .. b : i \in DOMAIN s
    <3>1. DOMAIN s = 1 .. Len(s) /\ Len(s) \in Nat
      OBVIOUS
    <3> QED
      BY <2>3, <3>1
  <2>8. \A k \in DOMAIN t : v[k] = u[k]
    BY <1>1, <2>4, <2>5, <2>6, <2>7
  <2>9. v = u
    BY <2>4, <2>5, <2>6, <2>8
  <2> QED
    BY <2>3, <2>9 DEF v, e
<1> QED
  BY <1>2, <1>3


\* Without syllables nothing is extracted.
LEMMA NothingToExtract ==
  ASSUME NEW S, NEW s \in Seq(S), \A i \in DOMAIN s : s[i] \notin Syllables
  PROVE  ExtractChosung(s) = s
<1> DEFINE e == ExtractChosung(s)
<1>1. /\ e \in Seq(S \cup Jamo) /\ Len(e) = Len(s) /\ DOMAIN e = DOMAIN s
      /\ \A i \in DOMAIN s : e[i] = IF s[i] \in Syllables THEN InitialOf(s[i]) ELSE s[i]
  BY Extracted
<1> HIDE DEF e
<1>2. \A i \in DOMAIN s : e[i] = s[i]
  BY <1>1
<1>3. e = s
  BY <1>1, <1>2
<1> QED
  BY <1>3 DEF e

\* What the first letters are of does not begin or end with a space.
LEMMA InitialsTrimmed ==
  ASSUME NEW S, NEW s \in Seq(S)
  PROVE  ExtractEnglishInitials(TrimSpace(s)) = ExtractEnglishInitials(s)
<1>1. DOMAIN s = 1 .. Len(s) /\ Len(s) \in Nat
  OBVIOUS
<1>2. \A c \in Letters : ~ IsSpace(c)
  BY WordCharIsInk DEF IsWordChar
<1>3. Heads(s) \in SUBSET DOMAIN s /\ \A i \in Heads(s) : ~ IsSpace(s[i])
  BY <1>2 DEF Heads
<1>4. CASE \A i \in DOMAIN s : IsSpace(s[i])
  <2>1. TrimSpace(s) = <<>>
    BY <1>4, BlankIsTrimmed
  <2>2. Heads(<<>>) = {} /\ Heads(s) = {}
    BY <1>3, <1>4 DEF Heads
  <2>3. Subsequence(<<>>, {}) = Subsequence(s, {})
    BY FS_EmptySet DEF Subsequence
  <2> QED
    BY <2>1, <2>2, <2>3 DEF ExtractEnglishInitials
<1>5. CASE \E i \in DOMAIN s : ~ IsSpace(s[i])
  <2>1. PICK a, b : Ends(s, a, b)
    BY <1>5, HasEnds
  <2> DEFINE t == SubSeq(s, a, b)
             d == a - 1
  <2>2. a <= b /\ TrimSpace(s) = t
    BY <2>1, TrimIsBetweenEnds
  <2>3. a \in DOMAIN s /\ b \in DOMAIN s
    BY <2>1 DEF Ends
  <2>4. a \in Nat /\ b \in Nat /\ a >= 1 /\ b <= Len(s)
    BY <1>1, <2>3
  <2>5. /\ t \in Seq(S) /\ DOMAIN t = 1 .. (b - a) + 1
        /\ \A k \in DOMAIN t : k + d \in a .. b /\ t[k] = s[k + d]
        /\ \A i \in a .. b : i - d \in DOMAIN t
    BY <2>2, <2>3, PartOf
  <2>6. d \in Nat /\ d + 1 = a
    BY <2>4
  <2> HIDE DEF t, d
  <2>7. \A i \in a .. b : i \in DOMAIN s /\ i - d \in DOMAIN t /\ (i - d) + d = i
    BY <1>1, <2>4, <2>5, <2>6
  <2>8. \A j \in DOMAIN s : s[j] \in Letters => j \in a .. b
    BY <1>1, <1>2, <2>1, <2>4 DEF Ends
  <2>9. \A k \in DOMAIN t : k \in Nat /\ k >= 1
    BY <2>4, <2>5
  <2>10. ASSUME NEW k \in Heads(t)
         PROVE  k + d \in Heads(s)
    <3>1. k \in DOMAIN t /\ t[k] \in Letters
      BY DEF Heads
    <3>2. k + d \in DOMAIN s /\ s[k + d] \in Letters
      BY <2>5, <2>7, <3>1
    <3>3. ASSUME NEW j \in 1 .. (k + d) - 1, s[j] \in Letters
          PROVE  \E m \in j .. k + d : IsSpace(s[m])
      <4>1. /\ k \in Nat /\ k >= 1 /\ k + d <= b
            /\ j \in Nat /\ 1 <= j /\ j <= (k + d) - 1
        BY <2>4, <2>5, <2>6, <2>9, <3>1
      <4>2. j \in DOMAIN s
        <5>1. d \in Nat /\ b \in Nat /\ Len(s) \in Nat /\ b <= Len(s)
          BY <1>1, <2>4, <2>6
        <5>2. j <= Len(s)
          BY <4>1, <5>1
        <5> QED
          BY <1>1, <4>1, <5>2
      <4>3. j \in a .. b
        BY <2>8, <3>3, <4>2
      <4>4. j - d \in DOMAIN t /\ t[j - d] = s[j] /\ j - d \in 1 .. k - 1
        <5>1. j - d \in DOMAIN t /\ (j - d) + d = j
          BY <2>7, <4>3
        <5>2. t[j - d] = s[(j - d) + d]
          BY <2>5, <5>1
        <5>3. a <= j
          BY <2>4, <4>3
        <5>4. j - d \in 1 .. k - 1
          BY <2>4, <2>6, <4>1, <5>3
        <5> QED
          BY <5>1, <5>2, <5>4
      <4>5. PICK m \in j - d .. k : IsSpace(t[m])
        BY <3>3, <4>4 DEF Heads
      <4>6. m \in DOMAIN t /\ m + d \in j .. k + d
        <5>1. m \in Int /\ j - d <= m /\ m <= k /\ j \in Int /\ d \in Int /\ k \in Int
          BY <2>6, <4>1
        <5>2. m + d \in j .. k + d
          BY ONLY <5>1
        <5>3. 1 <= j - d
          BY <4>4
        <5>4. 1 <= m
          BY ONLY <5>1, <5>3
        <5>5. k <= (b - a) + 1
          BY <2>5, <3>1
        <5>6. m <= (b - a) + 1
          BY <2>4, <5>1, <5>5
        <5> QED
          BY <2>5, <5>1, <5>2, <5>4, <5>6
      <4> QED
        BY <2>5, <4>5, <4>6
    <3> QED
      BY <3>2, <3>3 DEF Heads
  <2>11. ASSUME NEW k \in DOMAIN t, k + d \in Heads(s)
         PROVE  k \in Heads(t)
    <3>1. t[k] \in Letters
      BY <2>5, <2>11 DEF Heads
    <3>2. ASSUME NEW j \in 1 .. k - 1, t[j] \in Letters
          PROVE  \E m \in j .. k : IsSpace(t[m])
      <4>1. k \in Nat /\ k >= 1 /\ k <= (b - a) + 1 /\ j \in Nat /\ j >= 1 /\ j <= k - 1
        BY <2>4, <2>5, <2>9
      <4>2. j \in DOMAIN t /\ j + d \in 1 .. (k + d) - 1
        BY <2>4, <2>5, <2>6, <4>1
      <4>3. s[j + d] \in Letters
        BY <2>5, <3>2, <4>2
      <4>4. PICK m \in j + d .. k + d : IsSpace(s[m])
        BY <2>11, <4>2, <4>3 DEF Heads
      <4>5. m \in Int /\ m - d \in j .. k /\ m - d \in DOMAIN t /\ (m - d) + d = m
        BY <2>4, <2>5, <2>6, <4>1
      <4>6. t[m - d] = s[m]
        BY <2>5, <4>5
      <4> QED
        BY <4>4, <4>5, <4>6
    <3> QED
      BY <3>1, <3>2 DEF Heads
  <2>12. \A i \in Heads(s) : \E k \in DOMAIN t : i = k + d
    <3>1. \A i \in Heads(s) : i \in a .. b
      BY <1>3, <2>8 DEF Heads
    <3> QED
      BY <2>7, <3>1
  <2>13. Heads(t) \in SUBSET DOMAIN t
    BY DEF Heads
  <2>14. Subsequence(t, Heads(t)) = Subsequence(s, Heads(s))
    <3>1. \A k \in DOMAIN t : k + d \in DOMAIN s /\ t[k] = s[k + d]
      BY <2>5, <2>7
    <3>2. \A k \in DOMAIN t : k \in Heads(t) <=> k + d \in Heads(s)
      BY <2>10, <2>11
    <3> QED
      BY <1>3, <2>5, <2>6, <2>12, <2>13, <3>1, <3>2, SubsequenceOfWindow
  <2> QED
    BY <2>2, <2>14 DEF ExtractEnglishInitials
<1> QED
  BY <1>4, <1>5


-----------------------------------------------------------------------------
(* What is looked at, and where.                                           *)

\* A text with a letter or a digit has a token.
LEMMA HasToken ==
  ASSUME NEW S, NEW s \in Seq(S), NEW w \in DOMAIN s, IsWordChar(s[w])
  PROVE  Tokens(s) # {}
<1> DEFINE low == ToLower(s)
           W == {i \in DOMAIN s : IsWordChar(low[i])}
           Starts(i) == IsWordChar(low[i]) /\ (i > 1 => ~ IsWordChar(low[i - 1]))
           Closes(i) == {j \in i .. i + 3 :
                           \A k \in i .. j : k \in DOMAIN s /\ IsWordChar(low[k])}
<1>1. Tokens(s) = UNION {{SubSeq(low, i, j) : j \in Closes(i)} : i \in {i \in DOMAIN s : Starts(i)}}
  BY DEF Tokens
<1>2. DOMAIN s = 1 .. Len(s) /\ Len(s) \in Nat
  OBVIOUS
<1>3. \A i \in DOMAIN s : low[i] = Lower(s[i])
  BY DEF ToLower, Apply
<1>4. w \in W
  BY <1>3, LowerIsWordChar
<1> HIDE DEF low
<1>5. W \in SUBSET Nat /\ W # {}
  BY <1>2, <1>4
<1>6. PICK i \in W : \A j \in W : i <= j
  <2> HIDE DEF W
  <2> QED
    BY <1>5, Least
<1>7. i \in DOMAIN s /\ IsWordChar(low[i]) /\ i \in Nat /\ 1 <= i
  BY <1>2
<1>8. Starts(i)
  <2>1. ASSUME i > 1, IsWordChar(low[i - 1])
        PROVE  FALSE
    <3>1. i - 1 \in DOMAIN s
      BY <1>2, <1>7, <2>1
    <3>2. i <= i - 1
      BY <1>6, <2>1, <3>1
    <3> QED
      BY <1>7, <3>2
  <2> QED
    BY <1>7, <2>1
<1>9. i \in Closes(i)
  BY <1>7
<1> HIDE DEF Starts, Closes
<1>10. SubSeq(low, i, i) \in {SubSeq(low, i, j) : j \in Closes(i)}
  BY <1>9
<1>11. i \in {j \in DOMAIN s : Starts(j)}
  BY <1>7, <1>8
<1>12. SubSeq(low, i, i) \in Tokens(s)
  BY <1>1, <1>10, <1>11
<1> QED
  BY <1>12

\* What the index and the table hold of a song.
LEMMA DocumentOf ==
  ASSUME NEW S, NEW title \in Seq(S), NEW R, NEW artist \in Seq(R), NEW number
  PROVE  LET song == FetchedSong(title, artist, number)
             doc  == toSongDocument(song)
         IN  /\ doc.title = TrimSpace(title)
             /\ doc.title_chosung = TrimSpace(ExtractChosung(title))
             /\ doc.title_initials = ExtractEnglishInitials(title)
             /\ song.title_chosung = doc.title_chosung
             /\ song.artist_chosung = doc.artist_chosung
<1> DEFINE song == FetchedSong(title, artist, number)
           doc == toSongDocument(song)
<1>1. /\ TrimSpace(title) \in Seq(S) /\ TrimSpace(artist) \in Seq(R)
      /\ ExtractChosung(title) \in Seq(S \cup Jamo)
      /\ ExtractChosung(artist) \in Seq(R \cup Jamo)
  BY TrimKeeps, Extracted
<1>2. /\ song.title = TrimSpace(title) /\ song.artist = TrimSpace(artist)
      /\ song.title_chosung = ExtractChosung(TrimSpace(title))
      /\ song.artist_chosung = ExtractChosung(TrimSpace(artist))
  BY DEF FetchedSong
<1>3. /\ song.title_chosung = TrimSpace(ExtractChosung(title))
      /\ song.artist_chosung = TrimSpace(ExtractChosung(artist))
  BY <1>2, ExtractTrimmed
<1>4. /\ doc.title = TrimSpace(song.title)
      /\ doc.title_chosung = TrimSpace(song.title_chosung)
      /\ doc.artist_chosung = TrimSpace(song.artist_chosung)
      /\ doc.title_initials = ExtractEnglishInitials(TrimSpace(song.title))
  BY DEF toSongDocument
<1> HIDE DEF song, doc
<1>5. doc.title = TrimSpace(title)
  BY <1>1, <1>2, <1>4, TrimmedTwice
<1>6. /\ doc.title_chosung = TrimSpace(ExtractChosung(title))
      /\ doc.artist_chosung = TrimSpace(ExtractChosung(artist))
  BY <1>1, <1>3, <1>4, TrimmedTwice
<1>7. doc.title_initials = ExtractEnglishInitials(title)
  BY <1>2, <1>4, <1>5, InitialsTrimmed
<1> QED
  BY <1>3, <1>5, <1>6, <1>7 DEF song, doc

LEMMA ArtistsAreTexts ==
  ASSUME NEW artist \in Artists
  PROVE  artist \in Seq(Nat)
<1>1. artist = <<>> \/ artist = <<97>> \/ artist = <<44620>>
  BY DEF Artists
<1>2. CASE artist = <<>>
  BY <1>2
<1>3. CASE artist = <<97>>
  BY <1>3
<1>4. CASE artist = <<44620>>
  BY <1>4
<1> QED
  BY <1>1, <1>2, <1>3, <1>4

\* A query that is nothing but consonants is looked up among the stored ones.
LEMMA ChosungQuery ==
  ASSUME NEW q, IsChosungOnly(q)
  PROVE  buildSubQueries(q) = {Term("title_chosung", q), Term("artist_chosung", q)}
<1>1. ~ isNumeric(q)
  <2>1. \A c \in Jamo : c \notin Digits
    BY JamoIsInk
  <2> QED
    BY <2>1 DEF isNumeric, IsChosungOnly
<1> QED
  BY <1>1 DEF buildSubQueries

LEMMA BleveFindsTerm ==
  ASSUME NEW q, NEW song, TrimSpace(q) # <<>>, NEW field, NEW text,
         Term(field, text) \in buildSubQueries(TrimSpace(q)),
         toSongDocument(song)[field] = text
  PROVE  BleveFinds(q, song)
<1>1. Term(field, text).kind = "term" /\ Term(field, text).field = field
      /\ Term(field, text).text = text
  BY DEF Term
<1>2. Satisfies(toSongDocument(song), Term(field, text))
  BY <1>1 DEF Satisfies
<1> QED
  BY <1>2 DEF BleveFinds


-----------------------------------------------------------------------------
(* What is found.                                                          *)

TextTypeOK ==
    /\ use \in {"query", "match"}
    /\ left \in Seq(QueryChars \cup MatchChars)
    /\ right \in Seq(QueryChars \cup MatchChars)

LEMMA TextTypes == Spec => []TextTypeOK
<1>1. Init => TextTypeOK
  BY DEF Init, TextTypeOK
<1>2. TextTypeOK /\ [Next]_<<use, left, right>> => TextTypeOK'
  <2> SUFFICES ASSUME TextTypeOK, [Next]_<<use, left, right>>
               PROVE  TextTypeOK'
    OBVIOUS
  <2>1. \A s \in Seq(QueryChars \cup MatchChars) : \A c \in QueryChars \cup MatchChars :
          Append(s, c) \in Seq(QueryChars \cup MatchChars)
    OBVIOUS
  <2>2. CASE TypeLeft
    BY <2>1, <2>2 DEF TypeLeft, TextTypeOK
  <2>3. CASE TypeRight
    BY <2>1, <2>3 DEF TypeRight, TextTypeOK
  <2>4. CASE StartOver
    BY <2>4 DEF StartOver, TextTypeOK
  <2>5. CASE UNCHANGED <<use, left, right>>
    BY <2>5 DEF TextTypeOK
  <2> QED
    BY <2>2, <2>3, <2>4, <2>5 DEF Next
<1> QED
  BY <1>1, <1>2, PTL DEF Spec

LEMMA FoundByTitleAlways ==
  ASSUME TextTypeOK
  PROVE  FoundByTitle
<1> SUFFICES ASSUME NEW w \in DOMAIN left, IsWordChar(left[w]), NEW artist \in Artists
             PROVE  BleveFinds(left, FetchedSong(left, artist, <<49, 49>>))
  BY DEF FoundByTitle, SongsTitled
<1> DEFINE song == FetchedSong(left, artist, <<49, 49>>)
           doc == toSongDocument(song)
           q == TrimSpace(left)
           C == QueryChars \cup MatchChars
<1>1. left \in Seq(C) /\ artist \in Seq(Nat)
  BY ArtistsAreTexts DEF TextTypeOK
<1>2. /\ doc.title = q
      /\ doc.title_chosung = TrimSpace(ExtractChosung(left))
  BY <1>1, DocumentOf
<1>3. q \in Seq(C) /\ left[w] \in ToSet(q)
  BY <1>1, TrimKeeps, WordCharIsInk DEF ToSet
<1>4. q # <<>>
  BY <1>3 DEF ToSet
<1>5. CASE IsChosungOnly(q)
  <2>1. \A i \in DOMAIN q : q[i] \notin Syllables
    <3>1. \A c \in Jamo \cup {Space} : c \notin Syllables
      BY JamoIsInk, SyllableIsInk DEF IsSpace
    <3> QED
      BY <1>5, <3>1 DEF IsChosungOnly, ToSet
  <2>2. ExtractChosung(q) = q
    BY <1>3, <2>1, NothingToExtract
  <2>3. doc.title_chosung = q
    BY <1>1, <1>2, <2>2, ExtractTrimmed
  <2>4. Term("title_chosung", q) \in buildSubQueries(q)
    BY <1>5, ChosungQuery
  <2>5. doc["title_chosung"] = q
    BY <2>3
  <2> HIDE DEF song
  <2> QED
    BY <1>4, <2>4, <2>5, BleveFindsTerm DEF song
<1>6. CASE ~ IsChosungOnly(q)
  <2>1. Match("title", q) \in buildSubQueries(q)
    BY <1>6 DEF buildSubQueries
  <2>2. PICK v \in DOMAIN q : q[v] = left[w]
    BY <1>3 DEF ToSet
  <2>3. Tokens(q) # {}
    BY <1>3, <2>2, HasToken
  <2>4. /\ Match("title", q).kind = "match" /\ Match("title", q).field = "title"
        /\ Match("title", q).text = q
    BY DEF Match
  <2>5. doc["title"] = q
    BY <1>2
  <2> HIDE DEF q, doc
  <2>6. Satisfies(doc, Match("title", q))
    BY <2>3, <2>4, <2>5 DEF Satisfies
  <2> QED
    BY <1>4, <2>1, <2>6 DEF BleveFinds, q, doc
<1> QED
  BY <1>5, <1>6

\* A song is found by its title, typed in full, whatever its letters.
THEOREM TitleFindsSong == Spec => []FoundByTitle
<1>1. TextTypeOK => FoundByTitle
  BY FoundByTitleAlways
<1> QED
  BY <1>1, TextTypes, PTL

LEMMA FoundByChosungAlways ==
  ASSUME TextTypeOK
  PROVE  FoundByChosung
<1> SUFFICES ASSUME right = Initials(left), ContainsKorean(left),
                    ToSet(left) \subseteq Syllables \cup Jamo \cup {Space},
                    NEW artist \in Artists
             PROVE  BleveFinds(right, FetchedSong(left, artist, <<49, 49>>))
  BY DEF FoundByChosung, SongsTitled
<1> DEFINE song == FetchedSong(left, artist, <<49, 49>>)
           doc == toSongDocument(song)
           q == TrimSpace(right)
           C == QueryChars \cup MatchChars
<1>1. left \in Seq(C) /\ artist \in Seq(Nat) /\ right = ExtractChosung(left)
  BY ArtistsAreTexts, InitialsAreExtracted DEF TextTypeOK
<1>2. doc.title_chosung = q
  BY <1>1, DocumentOf
<1>3. /\ right \in Seq(C \cup Jamo) /\ DOMAIN right = DOMAIN left
      /\ \A i \in DOMAIN left :
           right[i] = IF left[i] \in Syllables THEN InitialOf(left[i]) ELSE left[i]
  BY <1>1, Extracted
<1>4. \A c \in Syllables : InitialOf(c) \in Jamo
  BY InitialIsThatOfPlace
<1>5. \A i \in DOMAIN left : left[i] \in Syllables \cup Jamo => right[i] \in Jamo
  BY <1>3, <1>4, JamoIsInk
<1>6. ToSet(right) \subseteq Jamo \cup {Space}
  <2>1. \A i \in DOMAIN left : right[i] \in Jamo \cup {Space}
    BY <1>3, <1>5 DEF ToSet
  <2> QED
    BY <1>3, <2>1 DEF ToSet
<1>7. PICK i \in DOMAIN left : left[i] \in Syllables \cup Jamo
  BY DEF ContainsKorean, ToSet
<1>8. right[i] \in Jamo /\ right[i] \in ToSet(right) /\ ~ IsSpace(right[i])
  BY <1>3, <1>5, <1>7, JamoIsInk DEF ToSet
<1> HIDE DEF C
<1>9. ToSet(q) \subseteq ToSet(right) /\ right[i] \in ToSet(q)
  BY <1>3, <1>8, TrimKeeps
<1>10. IsChosungOnly(q) /\ q # <<>>
  BY <1>6, <1>8, <1>9 DEF IsChosungOnly, ToSet
<1>11. Term("title_chosung", q) \in buildSubQueries(q)
  BY <1>10, ChosungQuery
<1>12. doc["title_chosung"] = q
  BY <1>2
<1> HIDE DEF song
<1> QED
  BY <1>10, <1>11, <1>12, BleveFindsTerm DEF song

\* A Korean title is found by its initial consonants.
THEOREM ChosungFindsSong == Spec => []FoundByChosung
<1>1. TextTypeOK => FoundByChosung
  BY FoundByChosungAlways
<1> QED
  BY <1>1, TextTypes, PTL


\* The initials of a title without Korean are small letters.
SmallLetters == 97 .. 122

LEMMA LowerOfAscii ==
  /\ \A c \in Capitals \cup SmallLetters : Lower(c) \in SmallLetters
  /\ \A c : Lower(c) \in SmallLetters => c \in Capitals \cup SmallLetters
  /\ \A c \in Capitals \cup SmallLetters :
       ~ IsSpace(c) /\ c \notin Syllables /\ c \notin Jamo
<1>1. ASSUME NEW c \in Capitals \cup SmallLetters
      PROVE  Lower(c) \in SmallLetters
  BY DEF Lower, Capitals, SmallLetters
<1>2. ASSUME NEW c, Lower(c) \in SmallLetters
      PROVE  c \in Capitals \cup SmallLetters
  BY <1>2 DEF Lower
<1>3. ASSUME NEW c \in Capitals \cup SmallLetters
      PROVE  ~ IsSpace(c) /\ c \notin Syllables /\ c \notin Jamo
  <2>1. c \in Int /\ 65 <= c /\ c <= 122
    BY DEF Capitals, SmallLetters
  <2>2. c # 32
    BY <2>1
  <2>3. ASSUME c \in Syllables
        PROVE  FALSE
    <3>1. 44032 <= c
      BY <2>3 DEF Syllables
    <3> QED
      BY <2>1, <3>1
  <2>4. ASSUME c \in Jamo
        PROVE  FALSE
    <3>1. 12593 <= c
      BY <2>4 DEF Jamo
    <3> QED
      BY <2>1, <3>1
  <2> QED
    BY <2>2, <2>3, <2>4 DEF IsSpace, Space
<1> QED
  BY <1>1, <1>2, <1>3

LEMMA InitialsAreSmall ==
  ASSUME NEW S, NEW s \in Seq(S), ~ ContainsKorean(s)
  PROVE  \A c \in ToSet(ExtractEnglishInitials(s)) : c \in SmallLetters
<1> DEFINE t == Subsequence(s, Heads(s))
<1>1. Heads(s) \in SUBSET DOMAIN s /\ \A i \in Heads(s) : s[i] \in Letters
  BY DEF Heads
<1>2. \A i \in DOMAIN s : s[i] \in Letters => s[i] \in Capitals \cup SmallLetters
  BY DEF ContainsKorean, ToSet, Letters, SmallLetters
<1>3. t \in Seq(S) /\ ToSet(t) = {s[i] : i \in Heads(s)}
  BY <1>1, SubsequenceIsPart
<1>4. \A k \in DOMAIN t : t[k] \in Capitals \cup SmallLetters
  BY <1>1, <1>2, <1>3 DEF ToSet
<1> HIDE DEF t
<1>5. ExtractEnglishInitials(s) = [k \in DOMAIN t |-> Lower(t[k])]
  BY DEF ExtractEnglishInitials, ToLower, Apply, t
<1>6. \A k \in DOMAIN t : Lower(t[k]) \in SmallLetters
  BY <1>4, LowerOfAscii
<1> QED
  BY <1>5, <1>6 DEF ToSet

LEMMA FoundByInitialsAlways ==
  ASSUME TextTypeOK
  PROVE  FoundByInitials
<1> SUFFICES ASSUME right # <<>>, Len(right) <= InitialsMaxBytes, ~ ContainsKorean(left),
                    ToLower(right) = ExtractEnglishInitials(left), NEW artist \in Artists
             PROVE  BleveFinds(right, FetchedSong(left, artist, <<49, 49>>))
  BY DEF FoundByInitials, SongsTitled
<1> DEFINE song == FetchedSong(left, artist, <<49, 49>>)
           doc == toSongDocument(song)
           C == QueryChars \cup MatchChars
<1>1. left \in Seq(C) /\ right \in Seq(C) /\ artist \in Seq(Nat)
  BY ArtistsAreTexts DEF TextTypeOK
<1>2. doc.title_initials = ToLower(right)
  BY <1>1, DocumentOf
<1>3. \A i \in DOMAIN right : right[i] \in Capitals \cup SmallLetters
  <2>1. ToLower(right) = [i \in DOMAIN right |-> Lower(right[i])]
    BY DEF ToLower, Apply
  <2>2. \A i \in DOMAIN right : Lower(right[i]) \in SmallLetters
    BY <1>1, <2>1, InitialsAreSmall DEF ToSet
  <2> QED
    BY <2>2, LowerOfAscii
<1>4. \A c \in ToSet(right) : ~ IsSpace(c) /\ c \notin Syllables /\ c \notin Jamo
  BY <1>3, LowerOfAscii DEF ToSet
<1>5. TrimSpace(right) = right
  <2>1. DOMAIN right = 1 .. Len(right) /\ Len(right) \in Nat /\ Len(right) # 0
    BY <1>1
  <2>2. right[1] \in ToSet(right) /\ right[Len(right)] \in ToSet(right)
    BY <2>1 DEF ToSet
  <2> QED
    BY <1>1, <1>4, <2>2, NothingToTrim
<1>6. ~ ContainsKorean(right) /\ ~ IsChosungOnly(right)
  BY <1>4 DEF ContainsKorean, IsChosungOnly
<1>7. Term("title_initials", ToLower(right)) \in buildSubQueries(right)
  BY <1>6 DEF buildSubQueries
<1>8. doc["title_initials"] = ToLower(right)
  BY <1>2
<1> HIDE DEF song
<1> QED
  BY <1>5, <1>7, <1>8, BleveFindsTerm DEF song

\* A title without Korean is found by the first letters of its words.
THEOREM InitialsFindSong == Spec => []FoundByInitials
<1>1. TextTypeOK => FoundByInitials
  BY FoundByInitialsAlways
<1> QED
  BY <1>1, TextTypes, PTL

LEMMA LikeItself ==
  ASSUME NEW S, NEW s \in Seq(S)
  PROVE  Like(s, s)
<1> DEFINE low == ToLower(s)
<1>1. low = [i \in 1 .. Len(s) |-> Lower(s[i])] /\ Len(s) \in Nat
  BY DEF ToLower, Apply
<1>2. low \in Seq({Lower(s[i]) : i \in 1 .. Len(s)})
  BY <1>1
<1> HIDE DEF low
<1>3. Len(low) \in Nat /\ SubSeq(low, 1, Len(low)) = low
  BY <1>2
<1>4. 1 \in 1 .. (Len(low) - Len(low)) + 1 /\ (1 + Len(low)) - 1 = Len(low)
  BY <1>3
<1>5. IsInfix(low, low)
  BY <1>3, <1>4 DEF IsInfix
<1> QED
  BY <1>5 DEF Like, low

LEMMA ChosungIsSharperAlways ==
  ASSUME TextTypeOK
  PROVE  ChosungIsSharper
<1> SUFFICES ASSUME IsChosungOnly(right), right = TrimSpace(right), NEW artist \in Artists,
                    BleveFinds(right, FetchedSong(left, artist, <<49, 49>>))
             PROVE  SqlFinds(right, FetchedSong(left, artist, <<49, 49>>))
  BY DEF ChosungIsSharper, SongsTitled
<1> DEFINE song == FetchedSong(left, artist, <<49, 49>>)
           doc == toSongDocument(song)
           C == QueryChars \cup MatchChars
<1>1. left \in Seq(C) /\ right \in Seq(C) /\ artist \in Seq(Nat)
  BY ArtistsAreTexts DEF TextTypeOK
<1>2. song.title_chosung = doc.title_chosung /\ song.artist_chosung = doc.artist_chosung
  BY <1>1, DocumentOf
<1> HIDE DEF song
<1>3. PICK sub \in buildSubQueries(right) : Satisfies(doc, sub)
  BY DEF BleveFinds, song
<1>4. sub = Term("title_chosung", right) \/ sub = Term("artist_chosung", right)
  BY <1>3, ChosungQuery
<1>5. sub.kind = "term" /\ sub.text = right
      /\ (sub.field = "title_chosung" \/ sub.field = "artist_chosung")
  BY <1>4 DEF Term
<1>6. doc["title_chosung"] = right \/ doc["artist_chosung"] = right
  BY <1>3, <1>5 DEF Satisfies
<1>7. song["title_chosung"] = right \/ song["artist_chosung"] = right
  BY <1>2, <1>6
<1>8. Like(right, right)
  BY <1>1, LikeItself
<1>9. SqlFinds(right, song)
  BY <1>7, <1>8 DEF SqlFinds
<1> QED
  BY <1>9 DEF song

\* By consonants the index finds nothing that LIKE would not find.
THEOREM SqlFindsWhatChosungFinds == Spec => []ChosungIsSharper
<1>1. TextTypeOK => ChosungIsSharper
  BY ChosungIsSharperAlways
<1> QED
  BY <1>1, TextTypes, PTL
=============================================================================
