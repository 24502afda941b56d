-------------------------------- MODULE Text --------------------------------
(* Strings as sequences of code points, as far as the search and the        *)
(* matcher tell characters apart, and the library functions they use.       *)
EXTENDS Integers, SequencesExt, Subsequences

Syllables == 44032 .. 55203           \* 0xAC00 .. 0xD7A3
Jamo == 12593 .. 12622                \* 0x3131 .. 0x314E
Space == 32
Digits == 48 .. 57
Capitals == 65 .. 90
Letters == Syllables \cup Jamo \cup Capitals \cup 97 .. 122

IsSpace(c) == c = Space
IsWordChar(c) == c \in Letters \cup Digits
IsAsciiWordChar(c) == c \in Capitals \cup 97 .. 122 \cup Digits

Apply(Op(_), s) == [i \in DOMAIN s |-> Op(s[i])]

Lower(c) == IF c \in Capitals THEN c + 32 ELSE c

ToLower(s) == Apply(Lower, s)

First(s, n) == SubSeq(s, 1, Min({n, Len(s)}))

IsInfix(s, t) == \E i \in 1 .. Len(t) - Len(s) + 1 : SubSeq(t, i, i + Len(s) - 1) = s

TrimSpace(s) ==
    LET ink == {i \in DOMAIN s : ~ IsSpace(s[i])}
    IN  IF ink = {} THEN <<>> ELSE SubSeq(s, Min(ink), Max(ink))

\* A LIKE with the pattern between two percent signs.
Like(text, pattern) == IsInfix(ToLower(pattern), ToLower(text))
=============================================================================
