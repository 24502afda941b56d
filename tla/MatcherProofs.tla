--------------------------- MODULE MatcherProofs ---------------------------
(***************************************************************************)
(* Which song a track is matched with, for strings of any length and of    *)
(* any characters: the similarity does not depend on the order of the      *)
(* strings, is the whole for equal strings only, and the song a track has  *)
(* in the table wins over every other.                                     *)
(***************************************************************************)
EXTENDS QueryProofs

-----------------------------------------------------------------------------
(* The greedy pairing as a sequence of steps.                              *)

Near(s, t, i, j) == j - i \in -MatchWindow(s, t) .. MatchWindow(s, t) /\ s[i] = t[j]

Free(s, t, pairs, i) ==
    {j \in DOMAIN t : /\ j - i \in -MatchWindow(s, t) .. MatchWindow(s, t)
                      /\ s[i] = t[j]
                      /\ \A pair \in pairs : pair[2] # j}

Take(s, t, pairs, i) ==
    IF Free(s, t, pairs, i) = {} THEN pairs
    ELSE pairs \cup {<<i, Min(Free(s, t, pairs, i))>>}

Steps(s, t, n, f) == f = [i \in 0 .. n |-> IF i = 0 THEN {} ELSE Take(s, t, f[i - 1], i)]

\* A recursion over the characters of s has a solution.
LEMMA StepsExist ==
  ASSUME NEW s, NEW t, NEW n \in Nat
  PROVE  \E f : Steps(s, t, n, f)
<1> DEFINE T == {k \in Nat : ~ \E f : Steps(s, t, k, f)}
<1> SUFFICES ASSUME T # {}
             PROVE  FALSE
  OBVIOUS
<1>1. PICK k \in T : \A m \in T : k <= m
  <2>1. T \in SUBSET Nat
    OBVIOUS
  <2> HIDE DEF T
  <2> QED
    BY <2>1, Least
<1>2. k \in Nat /\ ~ \E f : Steps(s, t, k, f)
  OBVIOUS
<1>3. CASE k = 0
  <2> DEFINE f == [i \in 0 .. 0 |-> {}]
  <2>1. Steps(s, t, 0, f)
    BY DEF Steps
  <2> QED
    BY <1>2, <1>3, <2>1
<1>4. CASE k # 0
  <2>1. k - 1 \in Nat /\ k - 1 \notin T
    BY <1>1, <1>2, <1>4
  <2>2. PICK f : Steps(s, t, k - 1, f)
    BY <2>1
  <2> DEFINE g == [i \in 0 .. k |-> IF i = k THEN Take(s, t, f[k - 1], k) ELSE f[i]]
  <2>3. \A i \in 0 .. k - 1 : f[i] = IF i = 0 THEN {} ELSE Take(s, t, f[i - 1], i)
    BY <2>2 DEF Steps
  <2>4. \A i \in 0 .. k - 1 : g[i] = f[i]
    BY <1>2
  <2>5. \A i \in 1 .. k : g[i - 1] = f[i - 1]
    <3>1. \A i \in 1 .. k : i - 1 \in 0 .. k - 1
      BY <1>2
    <3> QED
      BY <2>4, <3>1
  <2>6. ASSUME NEW i \in 0 .. k
        PROVE  g[i] = IF i = 0 THEN {} ELSE Take(s, t, g[i - 1], i)
    <3>1. CASE i = k
      <4>1. i # 0 /\ g[i] = Take(s, t, f[k - 1], k) /\ g[k - 1] = f[k - 1]
        BY <1>2, <1>4, <2>5, <3>1
      <4> QED
        BY <3>1, <4>1
    <3>2. CASE i = 0
      BY <1>2, <1>4, <2>3, <2>4, <3>2
    <3>3. CASE i # k /\ i # 0
      <4>1. i \in 0 .. k - 1 /\ i \in 1 .. k
        BY <1>2, <3>3
      <4> HIDE DEF g
      <4> QED
        BY <2>3, <2>4, <2>5, <3>3, <4>1
    <3> QED
      BY <3>1, <3>2, <3>3
  <2>7. Steps(s, t, k, g)
    <3>1. g = [i \in 0 .. k |-> g[i]]
      OBVIOUS
    <3> HIDE DEF g
    <3>2. [i \in 0 .. k |-> g[i]]
            = [i \in 0 .. k |-> IF i = 0 THEN {} ELSE Take(s, t, g[i - 1], i)]
      BY <2>6
    <3> QED
      BY <3>1, <3>2 DEF Steps
  <2> QED
    BY <1>2, <2>7
<1> QED
  BY <1>3, <1>4

LEMMA MatchedIsLast ==
  ASSUME NEW S, NEW s \in Seq(S), NEW t
  PROVE  \E f : Steps(s, t, Len(s), f) /\ Matched(s, t) = f[Len(s)]
<1> DEFINE n == Len(s)
           m == CHOOSE f : Steps(s, t, n, f)
<1>1. n \in Nat
  OBVIOUS
<1>2. Steps(s, t, n, m)
  BY <1>1, StepsExist
<1>3. Matched(s, t) = m[n]
  BY DEF Matched, Steps, Take, Free
<1> QED
  BY <1>2, <1>3

-----------------------------------------------------------------------------
(* The pairing is stable.                                                  *)

LEMMA MinIsLeast ==
  ASSUME NEW T \in SUBSET Nat, T # {}
  PROVE  Min(T) \in T /\ \A m \in T : Min(T) <= m
<1>1. \E n \in T : \A m \in T : n <= m
  BY Least
<1> QED
  BY <1>1 DEF Min

LEMMA MaxOfTwo ==
  ASSUME NEW a \in Int, NEW b \in Int
  PROVE  Max({a, b}) \in Int /\ a <= Max({a, b}) /\ b <= Max({a, b}) /\ Max({a, b}) \in {a, b}
<1>1. \E x \in {a, b} : \A y \in {a, b} : x >= y
  <2>1. a >= b \/ b >= a
    OBVIOUS
  <2>2. a >= a /\ b >= b
    OBVIOUS
  <2> QED
    BY <2>1, <2>2
<1>2. Max({a, b}) \in {a, b} /\ \A y \in {a, b} : Max({a, b}) >= y
  BY <1>1 DEF Max
<1> QED
  BY <1>2

LEMMA WindowSymmetric ==
  ASSUME NEW S, NEW s \in Seq(S), NEW t \in Seq(S)
  PROVE  MatchWindow(s, t) \in Nat /\ MatchWindow(s, t) = MatchWindow(t, s)
<1> DEFINE longest == Max({Len(s), Len(t)})
           half == (longest \div 2) - 1
<1>1. Len(s) \in Int /\ Len(t) \in Int
  OBVIOUS
<1>2. longest \in Int
  BY <1>1, MaxOfTwo
<1>3. half \in Int
  <2> HIDE DEF longest
  <2> QED
    BY <1>2
<1>4. Max({0, half}) \in Int /\ 0 <= Max({0, half})
  <2>1. \A a, b \in Int : Max({a, b}) \in Int /\ a <= Max({a, b})
    BY MaxOfTwo
  <2> HIDE DEF half
  <2> QED
    BY <1>3, <2>1
<1>5. {Len(s), Len(t)} = {Len(t), Len(s)}
  OBVIOUS
<1>6. MatchWindow(s, t) = Max({0, half}) /\ MatchWindow(t, s) = Max({0, half})
  BY <1>5 DEF MatchWindow
<1> QED
  BY <1>4, <1>6

LEMMA NearSymmetric ==
  ASSUME NEW S, NEW s \in Seq(S), NEW t \in Seq(S), NEW i \in Nat, NEW j \in Nat
  PROVE  Near(s, t, i, j) <=> Near(t, s, j, i)
<1>1. MatchWindow(s, t) \in Nat /\ MatchWindow(s, t) = MatchWindow(t, s)
  BY WindowSymmetric
<1>2. \A w \in Nat : j - i \in -w .. w <=> i - j \in -w .. w
  OBVIOUS
<1> QED
  BY <1>1, <1>2 DEF Near

Pairing(s, t, n, pairs) ==
    /\ pairs \in SUBSET ((1 .. n) \X DOMAIN t)
    /\ \A p \in pairs : Near(s, t, p[1], p[2])
    /\ \A p, q \in pairs : p[1] = q[1] \/ p[2] = q[2] => p = q

\* Two places that match are not both left for later.
Stable(s, t, n, pairs) ==
    \A i \in 1 .. n, j \in DOMAIN t : Near(s, t, i, j) =>
      \E p \in pairs : \/ p[1] = i /\ p[2] <= j
                       \/ p[2] = j /\ p[1] <= i

LEMMA TakeKeepsPairing ==
  ASSUME NEW S, NEW s \in Seq(S), NEW t \in Seq(S), NEW n \in Nat \ {0}, NEW pairs,
         Pairing(s, t, n - 1, pairs), Stable(s, t, n - 1, pairs)
  PROVE  Pairing(s, t, n, Take(s, t, pairs, n)) /\ Stable(s, t, n, Take(s, t, pairs, n))
<1> DEFINE free == Free(s, t, pairs, n)
           next == Take(s, t, pairs, n)
<1>1. DOMAIN t \in SUBSET Nat /\ n \in Nat /\ n - 1 \in Nat
  OBVIOUS
<1>2. /\ \A k \in 1 .. n - 1 : k \in Nat /\ k < n /\ k \in 1 .. n
      /\ \A k \in 1 .. n : k \in 1 .. n - 1 \/ k = n
      /\ n \in 1 .. n
  BY <1>1
<1>3. pairs \in SUBSET ((1 .. n - 1) \X DOMAIN t)
  BY DEF Pairing
<1>4. \A p \in pairs : /\ p[1] \in 1 .. n - 1 /\ p[2] \in DOMAIN t /\ p = <<p[1], p[2]>>
                       /\ p[1] # n /\ p[1] \in 1 .. n
  <2>1. \A p \in pairs : p[1] \in 1 .. n - 1 /\ p[2] \in DOMAIN t /\ p = <<p[1], p[2]>>
    BY <1>3
  <2>2. \A k \in 1 .. n - 1 : k # n
    BY <1>2
  <2> QED
    BY <1>2, <2>1, <2>2
<1>5. \A j : j \in free <=> /\ j \in DOMAIN t
                            /\ Near(s, t, n, j)
                            /\ \A p \in pairs : p[2] # j
  BY DEF Free, Near
<1>6. \A j \in DOMAIN t : Near(s, t, n, j) /\ j \notin free =>
        \E p \in pairs : p[2] = j /\ p[1] <= n
  <2>1. \A k \in 1 .. n - 1 : k <= n
    BY <1>1
  <2> QED
    BY <1>4, <1>5, <2>1
<1> HIDE DEF free
<1>7. CASE free = {}
  <2>1. next = pairs
    BY <1>7 DEF Take, free
  <2>2. Pairing(s, t, n, pairs)
    <3>1. pairs \in SUBSET ((1 .. n) \X DOMAIN t)
      BY <1>4
    <3> QED
      BY <3>1 DEF Pairing
  <2>3. Stable(s, t, n, pairs)
    BY <1>2, <1>6, <1>7 DEF Stable
  <2> QED
    BY <2>1, <2>2, <2>3
<1>8. CASE free # {}
  <2> DEFINE m == Min(free)
  <2>1. m \in free /\ \A j \in free : m <= j
    <3>1. free \in SUBSET Nat
      BY <1>1, <1>5
    <3> QED
      BY <1>8, <3>1, MinIsLeast
  <2>2. next = pairs \cup {<<n, m>>}
    BY <1>8 DEF Take, free
  <2> HIDE DEF m, next
  <2>3. m \in DOMAIN t /\ Near(s, t, n, m) /\ \A p \in pairs : p[2] # m
    BY <1>5, <2>1
  <2>4. Pairing(s, t, n, next)
    <3>1. next \in SUBSET ((1 .. n) \X DOMAIN t)
      BY <1>2, <1>4, <2>2, <2>3
    <3>2. \A p \in next : Near(s, t, p[1], p[2])
      BY <2>2, <2>3 DEF Pairing
    <3>3. \A p, q \in next : p[1] = q[1] \/ p[2] = q[2] => p = q
      <4>1. \A p, q \in pairs : p[1] = q[1] \/ p[2] = q[2] => p = q
        BY DEF Pairing
      <4>2. \A p \in pairs : p[1] # n /\ p[2] # m
        BY <1>4, <2>3
      <4> QED
        BY <2>2, <4>1, <4>2
    <3> QED
      BY <3>1, <3>2, <3>3 DEF Pairing
  <2>5. Stable(s, t, n, next)
    <3> SUFFICES ASSUME NEW i \in 1 .. n, NEW j \in DOMAIN t, Near(s, t, i, j)
                 PROVE  \E p \in next : (p[1] = i /\ p[2] <= j) \/ (p[2] = j /\ p[1] <= i)
      BY DEF Stable
    <3>1. CASE i \in 1 .. n - 1
      <4>1. \E p \in pairs : (p[1] = i /\ p[2] <= j) \/ (p[2] = j /\ p[1] <= i)
        BY <3>1 DEF Stable
      <4> QED
        BY <2>2, <4>1
    <3>2. CASE i = n /\ j \in free
      <4>1. <<n, m>> \in next /\ m <= j
        BY <2>1, <2>2, <3>2
      <4> QED
        BY <3>2, <4>1
    <3>3. CASE i = n /\ j \notin free
      BY <1>6, <2>2, <3>3
    <3> QED
      BY <1>2, <3>1, <3>2, <3>3
  <2> QED
    BY <2>4, <2>5 DEF next
<1> QED
  BY <1>7, <1>8

\* The greedy pairing is stable: the character at i has one at j or before, or
\* that at j was taken by one before.
LEMMA MatchedStable ==
  ASSUME NEW S, NEW s \in Seq(S), NEW t \in Seq(S)
  PROVE  Pairing(s, t, Len(s), Matched(s, t)) /\ Stable(s, t, Len(s), Matched(s, t))
<1>1. PICK f : Steps(s, t, Len(s), f) /\ Matched(s, t) = f[Len(s)]
  BY MatchedIsLast
<1> DEFINE Good(k) == Pairing(s, t, k, f[k]) /\ Stable(s, t, k, f[k])
           T == {k \in Nat : k <= Len(s) /\ ~ Good(k)}
<1>2. Len(s) \in Nat
  OBVIOUS
<1> SUFFICES ASSUME T # {}
             PROVE  FALSE
  BY <1>1, <1>2
<1>3. PICK k \in T : \A m \in T : k <= m
  <2>1. T \in SUBSET Nat
    OBVIOUS
  <2> HIDE DEF T
  <2> QED
    BY <2>1, Least
<1>4. k \in Nat /\ k <= Len(s) /\ ~ Good(k)
  OBVIOUS
<1>5. f[k] = IF k = 0 THEN {} ELSE Take(s, t, f[k - 1], k)
  <2>1. \A i \in 0 .. Len(s) : f[i] = IF i = 0 THEN {} ELSE Take(s, t, f[i - 1], i)
    BY <1>1 DEF Steps
  <2>2. k \in 0 .. Len(s)
    BY <1>2, <1>4
  <2> QED
    BY <2>1, <2>2
<1>6. CASE k = 0
  <2>1. f[k] = {} /\ 1 .. k = {}
    BY <1>5, <1>6
  <2>2. Good(k)
    BY <2>1 DEF Pairing, Stable
  <2> QED
    BY <1>4, <2>2
<1>7. CASE k # 0
  <2>1. k \in Nat \ {0} /\ k - 1 \in Nat /\ k - 1 <= Len(s) /\ ~ (k <= k - 1)
    BY <1>2, <1>4, <1>7
  <2>2. k - 1 \notin T
    BY <1>3, <2>1
  <2>3. Good(k - 1)
    BY <2>1, <2>2
  <2>4. Good(k)
    BY <1>5, <1>7, <2>1, <2>3, TakeKeepsPairing
  <2> QED
    BY <1>4, <2>4
<1> QED
  BY <1>6, <1>7

\* There is no second one: take the first difference, in the order of i + j.
LEMMA StableIsUnique ==
  ASSUME NEW S, NEW s \in Seq(S), NEW t \in Seq(S), NEW n \in Nat, NEW A, NEW B,
         Pairing(s, t, n, A), Stable(s, t, n, A), Pairing(s, t, n, B), Stable(s, t, n, B)
  PROVE  A = B
<1> DEFINE D == {p \in A \cup B : p \notin A \/ p \notin B}
           T == {p[1] + p[2] : p \in D}
<1>1. /\ \A p \in A \cup B : /\ p[1] \in 1 .. n /\ p[2] \in DOMAIN t /\ p = <<p[1], p[2]>>
                             /\ p[1] \in Nat /\ p[2] \in Nat /\ Near(s, t, p[1], p[2])
      /\ \A p, q \in A : p[1] = q[1] \/ p[2] = q[2] => p = q
      /\ \A p, q \in B : p[1] = q[1] \/ p[2] = q[2] => p = q
  <2>1. \A p \in A \cup B : Near(s, t, p[1], p[2])
    BY DEF Pairing
  <2>2. A \cup B \in SUBSET ((1 .. n) \X DOMAIN t)
    BY DEF Pairing
  <2>3. \A p \in A \cup B : p[1] \in 1 .. n /\ p[2] \in DOMAIN t /\ p = <<p[1], p[2]>>
    BY <2>2
  <2>4. (\A k \in 1 .. n : k \in Nat) /\ (\A k \in DOMAIN t : k \in Nat)
    OBVIOUS
  <2> QED
    BY <2>1, <2>3, <2>4 DEF Pairing
<1> SUFFICES ASSUME D # {}
             PROVE  FALSE
  OBVIOUS
<1>2. PICK p \in D : \A q \in D : p[1] + p[2] <= q[1] + q[2]
  <2>1. T \in SUBSET Nat /\ T # {}
    BY <1>1
  <2>2. \E x \in T : \A y \in T : x <= y
    <3> HIDE DEF T
    <3> QED
      BY <2>1, Least
  <2> QED
    BY <2>2
<1> DEFINE Other(X) == \E q \in X : /\ q # p
                                    /\ q[1] = p[1] \/ q[2] = p[2]
                                    /\ q[1] + q[2] < p[1] + p[2]
<1>3. ASSUME NEW X, X = A \/ X = B, p \notin X
      PROVE  Other(X)
  <2>1. p[1] \in 1 .. n /\ p[2] \in DOMAIN t /\ Near(s, t, p[1], p[2]) /\ p \in A \cup B
    BY <1>1
  <2>2. PICK q \in X : (q[1] = p[1] /\ q[2] <= p[2]) \/ (q[2] = p[2] /\ q[1] <= p[1])
    BY <1>3, <2>1 DEF Stable
  <2>3. q # p /\ q \in A \cup B
    BY <1>3
  <2>4. p = <<p[1], p[2]>> /\ q = <<q[1], q[2]>>
    BY <1>1, <2>1, <2>3
  <2>5. q[1] # p[1] \/ q[2] # p[2]
    BY <2>3, <2>4
  <2>6. p[1] \in Nat /\ p[2] \in Nat /\ q[1] \in Nat /\ q[2] \in Nat
    BY <1>1, <2>1, <2>3
  <2>7. q[1] + q[2] < p[1] + p[2]
    BY ONLY <2>2, <2>5, <2>6
  <2> QED
    BY <2>2, <2>3, <2>7
<1>4. ASSUME NEW q \in A \cup B, q[1] + q[2] < p[1] + p[2]
      PROVE  q \in A /\ q \in B
  <2>1. p[1] + p[2] \in Nat /\ q[1] + q[2] \in Nat
    BY <1>1
  <2>2. ~ (p[1] + p[2] <= q[1] + q[2])
    BY <1>4, <2>1
  <2>3. q \notin D
    BY <1>2, <2>2
  <2> QED
    BY <2>3
<1>5. (p \in A /\ p \notin B) \/ (p \in B /\ p \notin A)
  BY <1>2
<1> HIDE DEF D
<1>6. CASE p \in A /\ p \notin B
  <2>1. Other(B)
    BY <1>3, <1>6
  <2> QED
    BY <1>1, <1>4, <1>6, <2>1
<1>7. CASE p \in B /\ p \notin A
  <2>1. Other(A)
    BY <1>3, <1>7
  <2> QED
    BY <1>1, <1>4, <1>7, <2>1
<1> QED
  BY <1>5, <1>6, <1>7

Swapped(pairs) == {<<p[2], p[1]>> : p \in pairs}

LEMMA SwappedPairs ==
  ASSUME NEW A, \A p \in A : p = <<p[1], p[2]>>
  PROVE  /\ \A q \in Swapped(A) : \E p \in A : q = <<p[2], p[1]>> /\ q[1] = p[2] /\ q[2] = p[1]
         /\ \A p \in A : \E q \in Swapped(A) : q[1] = p[2] /\ q[2] = p[1]
<1>1. ASSUME NEW q \in Swapped(A)
      PROVE  \E p \in A : q = <<p[2], p[1]>> /\ q[1] = p[2] /\ q[2] = p[1]
  <2>1. PICK p \in A : q = <<p[2], p[1]>>
    BY DEF Swapped
  <2> QED
    BY <2>1
<1>2. ASSUME NEW p \in A
      PROVE  \E q \in Swapped(A) : q[1] = p[2] /\ q[2] = p[1]
  <2> DEFINE q == <<p[2], p[1]>>
  <2>1. q \in Swapped(A)
    BY DEF Swapped
  <2>2. q[1] = p[2] /\ q[2] = p[1]
    OBVIOUS
  <2> QED
    BY <2>1, <2>2
<1> QED
  BY <1>1, <1>2

LEMMA SwappedStable ==
  ASSUME NEW S, NEW s \in Seq(S), NEW t \in Seq(S), NEW A,
         Pairing(t, s, Len(t), A), Stable(t, s, Len(t), A)
  PROVE  Pairing(s, t, Len(s), Swapped(A)) /\ Stable(s, t, Len(s), Swapped(A))
<1> DEFINE B == Swapped(A)
<1>1. /\ DOMAIN s = 1 .. Len(s) /\ DOMAIN t = 1 .. Len(t)
      /\ (\A k \in DOMAIN s : k \in Nat) /\ (\A k \in DOMAIN t : k \in Nat)
  OBVIOUS
<1>2. \A p \in A : p[1] \in DOMAIN t /\ p[2] \in DOMAIN s /\ p = <<p[1], p[2]>>
  <2>1. A \in SUBSET ((1 .. Len(t)) \X DOMAIN s)
    BY DEF Pairing
  <2> QED
    BY <1>1, <2>1
<1>3. /\ \A q \in B : \E p \in A : q = <<p[2], p[1]>> /\ q[1] = p[2] /\ q[2] = p[1]
      /\ \A p \in A : \E q \in B : q[1] = p[2] /\ q[2] = p[1]
  BY <1>2, SwappedPairs
<1>4. \A i \in DOMAIN s, j \in DOMAIN t : Near(s, t, i, j) <=> Near(t, s, j, i)
  BY <1>1, NearSymmetric
<1> HIDE DEF B
<1>5. Pairing(s, t, Len(s), B)
  <2>1. B \in SUBSET ((1 .. Len(s)) \X DOMAIN t)
    BY <1>1, <1>2, <1>3
  <2>2. ASSUME NEW q \in B
        PROVE  Near(s, t, q[1], q[2])
    <3>1. PICK p \in A : q[1] = p[2] /\ q[2] = p[1]
      BY <1>3
    <3>2. Near(t, s, p[1], p[2])
      BY DEF Pairing
    <3> QED
      BY <1>2, <1>4, <3>1, <3>2
  <2>3. \A p, q \in B : p[1] = q[1] \/ p[2] = q[2] => p = q
    <3>1. \A p, q \in A : p[1] = q[1] \/ p[2] = q[2] => p = q
      BY DEF Pairing
    <3> QED
      BY <1>3, <3>1
  <2> QED
    BY <2>1, <2>2, <2>3 DEF Pairing
<1>6. Stable(s, t, Len(s), B)
  <2> SUFFICES ASSUME NEW i \in DOMAIN s, NEW j \in DOMAIN t, Near(s, t, i, j)
               PROVE  \E q \in B : (q[1] = i /\ q[2] <= j) \/ (q[2] = j /\ q[1] <= i)
    BY <1>1 DEF Stable
  <2>1. Near(t, s, j, i)
    BY <1>4
  <2>2. PICK p \in A : (p[1] = j /\ p[2] <= i) \/ (p[2] = i /\ p[1] <= j)
    BY <1>1, <2>1 DEF Stable
  <2> QED
    BY <1>3, <2>2
<1> QED
  BY <1>5, <1>6 DEF B

\* Whichever string gives, the pairs are the same.
LEMMA MatchedSwapped ==
  ASSUME NEW S, NEW s \in Seq(S), NEW t \in Seq(S)
  PROVE  Matched(s, t) = Swapped(Matched(t, s))
<1>1. Pairing(t, s, Len(t), Matched(t, s)) /\ Stable(t, s, Len(t), Matched(t, s))
  BY MatchedStable
<1>2. /\ Pairing(s, t, Len(s), Swapped(Matched(t, s)))
      /\ Stable(s, t, Len(s), Swapped(Matched(t, s)))
  BY <1>1, SwappedStable
<1>3. Pairing(s, t, Len(s), Matched(s, t)) /\ Stable(s, t, Len(s), Matched(s, t))
  BY MatchedStable
<1>4. Len(s) \in Nat
  OBVIOUS
<1> QED
  BY <1>2, <1>3, <1>4, StableIsUnique

-----------------------------------------------------------------------------
(* The similarity.                                                         *)

\* As many places on the left, and on the right, as there are pairs.
LEMMA PairsCounted ==
  ASSUME NEW S, NEW s \in Seq(S), NEW t \in Seq(S), NEW A, Pairing(s, t, Len(s), A)
  PROVE  /\ IsFiniteSet(A) /\ Cardinality(A) \in Nat
         /\ Cardinality(A) <= Len(s) /\ Cardinality(A) <= Len(t)
         /\ MatchedLeft(A) \in SUBSET DOMAIN s /\ MatchedRight(A) \in SUBSET DOMAIN t
         /\ Cardinality(MatchedLeft(A)) = Cardinality(A)
         /\ Cardinality(MatchedRight(A)) = Cardinality(A)
         /\ (A = {} <=> Cardinality(A) = 0)
<1> DEFINE L == MatchedLeft(A)
           R == MatchedRight(A)
           toL == [p \in A |-> p[1]]
           toR == [p \in A |-> p[2]]
<1>1. DOMAIN s = 1 .. Len(s) /\ DOMAIN t = 1 .. Len(t) /\ Len(s) \in Nat /\ Len(t) \in Nat
  OBVIOUS
<1>2. \A m \in Nat : IsFiniteSet(1 .. m) /\ Cardinality(1 .. m) = m
  BY FS_Interval
<1>3. /\ IsFiniteSet(DOMAIN s) /\ Cardinality(DOMAIN s) = Len(s)
      /\ IsFiniteSet(DOMAIN t) /\ Cardinality(DOMAIN t) = Len(t)
  BY <1>1, <1>2
<1>4. \A p \in A : p[1] \in DOMAIN s /\ p[2] \in DOMAIN t
  <2>1. A \in SUBSET ((1 .. Len(s)) \X DOMAIN t)
    BY DEF Pairing
  <2> QED
    BY <1>1, <2>1
<1>5. \A p, q \in A : p[1] = q[1] \/ p[2] = q[2] => p = q
  BY DEF Pairing
<1>6. toL \in Injection(A, DOMAIN s) /\ toR \in Injection(A, DOMAIN t)
  BY <1>4, <1>5 DEF Injection, IsInjective
<1>7. IsFiniteSet(A) /\ Cardinality(A) <= Len(s) /\ Cardinality(A) <= Len(t)
  BY <1>3, <1>6, FS_Injection
<1>8. L \in SUBSET DOMAIN s /\ R \in SUBSET DOMAIN t
  BY <1>4 DEF MatchedLeft, MatchedRight
<1>9. /\ toL \in Surjection(A, L) /\ toL \in Injection(A, L)
      /\ toR \in Surjection(A, R) /\ toR \in Injection(A, R)
  BY <1>5 DEF MatchedLeft, MatchedRight, Injection, Surjection, IsInjective
<1>10. Cardinality(L) = Cardinality(A) /\ Cardinality(R) = Cardinality(A)
  BY <1>7, <1>9, FS_Surjection
<1>11. Cardinality(A) \in Nat /\ (A = {} <=> Cardinality(A) = 0)
  BY <1>7, FS_CardinalityType, FS_EmptySet
<1> QED
  BY <1>7, <1>8, <1>10, <1>11

\* The characters of the pairs differ at some of their places.
LEMMA TranspositionsCounted ==
  ASSUME NEW S, NEW s \in Seq(S), NEW t \in Seq(S), NEW A, Pairing(s, t, Len(s), A)
  PROVE  /\ Transpositions(s, t, A) \in Nat
         /\ Transpositions(s, t, A) <= Cardinality(A)
         /\ Transpositions(s, t, A) = 0 =>
              Subsequence(s, MatchedLeft(A)) = Subsequence(t, MatchedRight(A))
         /\ Transpositions(s, t, A) = Transpositions(t, s, Swapped(A))
<1> DEFINE n == Cardinality(A)
           l == Subsequence(s, MatchedLeft(A))
           r == Subsequence(t, MatchedRight(A))
           D == {k \in 1 .. n : l[k] # r[k]}
<1>1. n \in Nat /\ Cardinality(MatchedLeft(A)) = n /\ Cardinality(MatchedRight(A)) = n
  BY PairsCounted
<1>2. DOMAIN l = 1 .. n /\ DOMAIN r = 1 .. n /\ l = [k \in 1 .. n |-> l[k]]
      /\ r = [k \in 1 .. n |-> r[k]]
  BY <1>1 DEF Subsequence
<1>3. Transpositions(s, t, A) = Cardinality(D)
  BY <1>2 DEF Transpositions
<1>4. MatchedLeft(Swapped(A)) = MatchedRight(A) /\ MatchedRight(Swapped(A)) = MatchedLeft(A)
  <2>1. \A x, y : <<x, y>>[1] = x /\ <<x, y>>[2] = y
    OBVIOUS
  <2>2. MatchedLeft(Swapped(A)) = {<<p[2], p[1]>>[1] : p \in A}
    BY DEF MatchedLeft, Swapped
  <2>3. MatchedRight(Swapped(A)) = {<<p[2], p[1]>>[2] : p \in A}
    BY DEF MatchedRight, Swapped
  <2> QED
    BY <2>1, <2>2, <2>3 DEF MatchedLeft, MatchedRight
<1>5. Transpositions(t, s, Swapped(A)) = Cardinality({k \in DOMAIN r : r[k] # l[k]})
  BY <1>4 DEF Transpositions
<1>6. {k \in DOMAIN r : r[k] # l[k]} = D
  BY <1>2
<1> HIDE DEF n, l, r
<1>7. IsFiniteSet(1 .. n) /\ Cardinality(1 .. n) = n
  BY <1>1, FS_Interval
<1>8. D \in SUBSET (1 .. n)
  OBVIOUS
<1>9. IsFiniteSet(D) /\ Cardinality(D) <= n
  BY <1>7, <1>8, FS_Subset
<1>10. Cardinality(D) \in Nat /\ (Cardinality(D) = 0 => D = {})
  BY <1>9, FS_CardinalityType, FS_EmptySet
<1>11. D = {} => l = r
  BY <1>2
<1> QED
  BY <1>3, <1>5, <1>6, <1>9, <1>10, <1>11 DEF n, l, r

\* The greedy assignment of one string's characters to the other's gives both
\* the same number of matches and of transpositions.
LEMMA JaroIsSymmetric ==
  ASSUME NEW S, NEW s \in Seq(S), NEW t \in Seq(S)
  PROVE  Jaro(s, t) = Jaro(t, s)
<1> DEFINE A == Matched(s, t)
           B == Matched(t, s)
           n == Cardinality(A)
<1>1. Pairing(s, t, Len(s), A) /\ Pairing(t, s, Len(t), B)
  BY MatchedStable
<1>2. A = Swapped(B)
  BY MatchedSwapped
<1>3. B = Swapped(A)
  BY MatchedSwapped
<1> HIDE DEF A, B
<1>4. Transpositions(s, t, A) = Transpositions(t, s, B)
  BY <1>1, <1>3, TranspositionsCounted
<1>5. Cardinality(B) = n
  <2>1. IsFiniteSet(A) /\ IsFiniteSet(B)
    BY <1>1, PairsCounted
  <2> DEFINE f == [p \in A |-> <<p[2], p[1]>>]
  <2>2. f \in Surjection(A, B)
    BY <1>3 DEF Swapped, Surjection
  <2>3. \A p \in A : p = <<p[1], p[2]>>
    BY <1>1 DEF Pairing
  <2>4. f \in Injection(A, B)
    <3>1. f \in [A -> B]
      BY <2>2 DEF Surjection
    <3>2. ASSUME NEW p \in A, NEW q \in A, f[p] = f[q]
          PROVE  p = q
      <4>1. <<p[2], p[1]>> = <<q[2], q[1]>>
        BY <3>2
      <4>2. p[1] = q[1] /\ p[2] = q[2]
        BY <4>1
      <4> QED
        BY <2>3, <4>2
    <3> QED
      BY <3>1, <3>2 DEF Injection, IsInjective
  <2> QED
    BY <2>1, <2>2, <2>4, FS_Surjection
<1>6. n \in Nat /\ Transpositions(s, t, A) \in Nat
  BY <1>1, PairsCounted, TranspositionsCounted
<1>7. CASE (s = <<>> /\ t = <<>>) \/ n = 0
  BY <1>5, <1>7 DEF Jaro, A, B
<1>8. CASE ~ (s = <<>> /\ t = <<>>) /\ n # 0
  <2> DEFINE a == (Whole * n) \div Len(s)
             b == (Whole * n) \div Len(t)
             c == (Whole * (2 * n - Transpositions(s, t, A))) \div (2 * n)
  <2>1. Jaro(s, t) = (a + b + c) \div 3
    BY <1>8 DEF Jaro, A
  <2>2. Jaro(t, s) = (b + a + c) \div 3
    BY <1>4, <1>5, <1>8 DEF Jaro, B
  <2>3. a \in Int /\ b \in Int
    <3>1. n <= Len(s) /\ n <= Len(t)
      BY <1>1, PairsCounted
    <3>2. Whole * n \in Int /\ Len(s) \in Nat \ {0} /\ Len(t) \in Nat \ {0}
      BY <1>6, <1>8, <3>1 DEF Whole
    <3> QED
      BY <3>2
  <2> HIDE DEF a, b, c
  <2>4. a + b = b + a
    BY <2>3
  <2> QED
    BY <2>1, <2>2, <2>4
<1> QED
  BY <1>7, <1>8

\* Two strings have a longest common prefix.
LEMMA PrefixIsNumber ==
  ASSUME NEW S, NEW s \in Seq(S), NEW t \in Seq(S)
  PROVE  Len(LongestCommonPrefix({s, t})) \in Nat
<1> DEFINE C == CommonPrefixes({s, t})
           T == {Len(s) - Len(p) : p \in C}
<1>1. \A p \in C : p \in Seq(S) /\ Len(p) <= Len(s)
  <2> SUFFICES ASSUME NEW p \in C
               PROVE  p \in Seq(S) /\ Len(p) <= Len(s)
    OBVIOUS
  <2>1. IsPrefix(p, s)
    BY DEF CommonPrefixes
  <2>2. PICK u \in {s, t} : p \in Prefixes(u)
    BY DEF CommonPrefixes
  <2>3. u \in Seq(S)
    OBVIOUS
  <2>4. PICK l \in 0 .. Len(u) : p = SubSeq(u, 1, l)
    BY <2>2 DEF Prefixes
  <2>5. p \in Seq(S)
    BY <2>3, <2>4
  <2> QED
    BY <2>1, <2>5 DEF IsPrefix
<1>2. <<>> \in C
  <2>1. <<>> \in Prefixes(s)
    <3>1. SubSeq(s, 1, 0) = <<>> /\ 0 \in 0 .. Len(s)
      OBVIOUS
    <3> QED
      BY <3>1 DEF Prefixes
  <2>2. \A u \in {s, t} : IsPrefix(<<>>, u)
    BY DEF IsPrefix
  <2> QED
    BY <2>1, <2>2 DEF CommonPrefixes
<1>3. T \in SUBSET Nat /\ T # {}
  <2> HIDE DEF C
  <2> QED
    BY <1>1, <1>2
<1>4. PICK x \in T : \A y \in T : x <= y
  <2> HIDE DEF T
  <2> QED
    BY <1>3, Least
<1> HIDE DEF C
<1>5. PICK p \in C : x = Len(s) - Len(p)
  OBVIOUS
<1>6. \A q \in C : Len(q) <= Len(p)
  <2> SUFFICES ASSUME NEW q \in C
               PROVE  Len(q) <= Len(p)
    OBVIOUS
  <2>1. Len(s) - Len(p) <= Len(s) - Len(q)
    BY <1>4, <1>5
  <2>2. Len(s) \in Int /\ Len(p) \in Int /\ Len(q) \in Int
    BY <1>1
  <2> QED
    BY ONLY <2>1, <2>2
<1>7. LongestCommonPrefix({s, t}) \in C
  BY <1>6 DEF LongestCommonPrefix, C
<1> QED
  BY <1>1, <1>7

\* What a common prefix adds.
Boost(s, t) == Min({4, Len(LongestCommonPrefix({s, t}))})

LEMMA BoostIsSmall ==
  ASSUME NEW S, NEW s \in Seq(S), NEW t \in Seq(S)
  PROVE  /\ Boost(s, t) \in Nat /\ Boost(s, t) <= 4
         /\ Boost(s, t) = Boost(t, s)
<1> DEFINE n == Len(LongestCommonPrefix({s, t}))
<1>1. n \in Nat
  BY PrefixIsNumber
<1>2. Boost(s, t) = Min({4, n}) /\ Boost(t, s) = Min({4, n})
  <2>1. {s, t} = {t, s}
    OBVIOUS
  <2> QED
    BY <2>1 DEF Boost
<1> HIDE DEF n
<1>3. {4, n} \in SUBSET Nat /\ {4, n} # {}
  BY <1>1
<1>4. Min({4, n}) \in {4, n} /\ \A m \in {4, n} : Min({4, n}) <= m
  BY <1>3, MinIsLeast
<1>5. Min({4, n}) \in Nat /\ Min({4, n}) <= 4
  BY <1>3, <1>4
<1> QED
  BY <1>2, <1>5

LEMMA JaroWinklerIsSymmetric ==
  ASSUME NEW S, NEW s \in Seq(S), NEW t \in Seq(S)
  PROVE  JaroWinkler(s, t) = JaroWinkler(t, s)
BY JaroIsSymmetric, BoostIsSmall DEF JaroWinkler, Boost

LEMMA JaroSymmetricAlways ==
  ASSUME TextTypeOK
  PROVE  JaroSymmetric
<1>1. left \in Seq(QueryChars \cup MatchChars) /\ right \in Seq(QueryChars \cup MatchChars)
  BY DEF TextTypeOK
<1> QED
  BY <1>1, JaroWinklerIsSymmetric DEF JaroSymmetric

(* Jaro-Winkler does not depend on the order of its arguments: the pairing *)
(* of jaroSimilarity, which lets the characters of one string choose, is the *)
(* one the characters of the other would have come to.                     *)
THEOREM SimilarityIsSymmetric == Spec => []JaroSymmetric
BY JaroSymmetricAlways, TextTypes, PTL

\* A string's characters are matched with themselves.
LEMMA MatchedWithItself ==
  ASSUME NEW S, NEW s \in Seq(S)
  PROVE  Matched(s, s) = {<<k, k>> : k \in 1 .. Len(s)}
<1> DEFINE A == {<<k, k>> : k \in 1 .. Len(s)}
<1>1. DOMAIN s = 1 .. Len(s) /\ Len(s) \in Nat /\ \A k \in 1 .. Len(s) : k \in Nat
  OBVIOUS
<1>2. \A p \in A : p[1] \in 1 .. Len(s) /\ p[2] = p[1] /\ p = <<p[1], p[1]>>
  OBVIOUS
<1>3. \A k \in 1 .. Len(s) : \E p \in A : p[1] = k /\ p[2] = k
  <2>1. ASSUME NEW k \in 1 .. Len(s)
        PROVE  \E p \in A : p[1] = k /\ p[2] = k
    <3>1. <<k, k>> \in A /\ <<k, k>>[1] = k /\ <<k, k>>[2] = k
      OBVIOUS
    <3> HIDE DEF A
    <3> QED
      BY <3>1
  <2> QED
    BY <2>1
<1>4. \A k \in 1 .. Len(s) : Near(s, s, k, k)
  <2>1. MatchWindow(s, s) \in Nat
    BY WindowSymmetric
  <2>2. \A k, w \in Nat : k - k \in -w .. w
    OBVIOUS
  <2> QED
    BY <1>1, <2>1, <2>2 DEF Near
<1> HIDE DEF A
<1>5. Pairing(s, s, Len(s), A)
  <2>1. A \in SUBSET ((1 .. Len(s)) \X DOMAIN s)
    BY <1>1, <1>2
  <2> QED
    BY <1>2, <1>4, <2>1 DEF Pairing
<1>6. Stable(s, s, Len(s), A)
  <2> SUFFICES ASSUME NEW i \in DOMAIN s, NEW j \in DOMAIN s
               PROVE  \E p \in A : (p[1] = i /\ p[2] <= j) \/ (p[2] = j /\ p[1] <= i)
    BY <1>1 DEF Stable
  <2>1. i \in Nat /\ j \in Nat
    BY <1>1
  <2>2. i <= j \/ j <= i
    BY <2>1
  <2> QED
    BY <1>1, <1>3, <2>2
<1>7. Pairing(s, s, Len(s), Matched(s, s)) /\ Stable(s, s, Len(s), Matched(s, s))
  BY MatchedStable
<1> QED
  BY <1>1, <1>5, <1>6, <1>7, StableIsUnique DEF A

LEMMA Division ==
  ASSUME NEW a \in Nat, NEW n \in Nat \ {0}
  PROVE  a \div n \in Nat /\ (a \div n) * n <= a /\ a < (a \div n) * n + n
OBVIOUS

\* The share of k in n, in parts of w, is the whole for all of n only.
LEMMA ShareOf ==
  ASSUME NEW w \in Nat \ {0}, NEW k \in Nat, NEW n \in Nat \ {0}, k <= n
  PROVE  /\ (w * k) \div n \in Nat /\ (w * k) \div n <= w
         /\ (w * k) \div n = w <=> k = n
<1> DEFINE a == w * k
           q == a \div n
<1>1. a \in Nat
  OBVIOUS
<1>2. q \in Nat /\ q * n <= a /\ a < q * n + n
  <2> HIDE DEF a
  <2> QED
    BY <1>1, Division
<1>3. a <= w * n
  OBVIOUS
<1>4. k < n => a <= w * n - w
  <2>1. k < n => k + 1 <= n
    OBVIOUS
  <2>2. k + 1 <= n => w * (k + 1) <= w * n
    OBVIOUS
  <2>3. w * (k + 1) = w * k + w
    OBVIOUS
  <2> QED
    BY <2>1, <2>2, <2>3
<1>5. k = n => a = w * n
  OBVIOUS
<1> HIDE DEF a, q
<1>6. q <= w
  <2> SUFFICES ASSUME q >= w + 1
               PROVE  FALSE
    BY <1>2
  <2>1. q * n >= (w + 1) * n
    BY <1>2
  <2>2. (w + 1) * n = w * n + n
    OBVIOUS
  <2> QED
    BY <1>1, <1>2, <1>3, <2>1, <2>2
<1>7. k < n => q # w
  BY <1>1, <1>2, <1>4
<1>8. k = n => q = w
  <2> SUFFICES ASSUME k = n, q <= w - 1
               PROVE  FALSE
    BY <1>2, <1>6
  <2>1. q * n <= (w - 1) * n
    BY <1>2
  <2>2. (w - 1) * n = w * n - n
    OBVIOUS
  <2> QED
    BY <1>1, <1>2, <1>5, <2>1, <2>2
<1> QED
  BY <1>2, <1>6, <1>7, <1>8 DEF a, q

\* The similarity of strings of l and r characters, with n matches and d
\* transpositions.
OfParts(l, r, n, d) ==
    ((Whole * n) \div l + (Whole * n) \div r + (Whole * (2 * n - d)) \div (2 * n)) \div 3

IsShare(l, r, n, d) ==
    /\ OfParts(l, r, n, d) \in Nat /\ OfParts(l, r, n, d) <= Whole
    /\ OfParts(l, r, n, d) = Whole <=> n = l /\ n = r /\ d = 0

LEMMA JaroOfParts ==
  ASSUME NEW l \in Nat, NEW r \in Nat, NEW n \in Nat, NEW d \in Nat,
         n # 0, n <= l, n <= r, d <= n
  PROVE  IsShare(l, r, n, d)
<1> DEFINE a == (Whole * n) \div l
           b == (Whole * n) \div r
           c == (Whole * (2 * n - d)) \div (2 * n)
           j == (a + b + c) \div 3
<1>1. Whole \in Nat \ {0}
  BY DEF Whole
<1> l \in Nat \ {0} /\ r \in Nat \ {0} /\ n \in Nat \ {0}
  OBVIOUS
<1>2. a \in Nat /\ a <= Whole /\ (a = Whole <=> n = l)
  BY <1>1, ShareOf
<1>3. b \in Nat /\ b <= Whole /\ (b = Whole <=> n = r)
  BY <1>1, ShareOf
<1>4. c \in Nat /\ c <= Whole /\ (c = Whole <=> d = 0)
  <2> DEFINE x == 2 * n - d
             y == 2 * n
  <2>1. x \in Nat /\ y \in Nat \ {0} /\ x <= y /\ (x = y <=> d = 0)
    OBVIOUS
  <2>2. \A u \in Nat, v \in Nat \ {0} : u <= v =>
          /\ (Whole * u) \div v \in Nat /\ (Whole * u) \div v <= Whole
          /\ (Whole * u) \div v = Whole <=> u = v
    BY <1>1, ShareOf
  <2> HIDE DEF x, y
  <2>3. /\ (Whole * x) \div y \in Nat /\ (Whole * x) \div y <= Whole
        /\ (Whole * x) \div y = Whole <=> x = y
    BY <2>1, <2>2
  <2> QED
    BY <2>1, <2>3 DEF x, y
<1> HIDE DEF a, b, c
<1>5. j \in Nat /\ j <= Whole
  BY <1>1, <1>2, <1>3, <1>4
<1>6. j = Whole <=> a = Whole /\ b = Whole /\ c = Whole
  BY <1>1, <1>2, <1>3, <1>4
<1> QED
  BY <1>2, <1>3, <1>4, <1>5, <1>6 DEF a, b, c, OfParts, IsShare

\* It is the whole for equal strings only.
LEMMA JaroIsShare ==
  ASSUME NEW S, NEW s \in Seq(S), NEW t \in Seq(S)
  PROVE  /\ Jaro(s, t) \in Nat /\ Jaro(s, t) <= Whole
         /\ Jaro(s, t) = Whole <=> s = t
<1> DEFINE A == Matched(s, t)
           n == Cardinality(A)
           d == Transpositions(s, t, A)
<1>1. Pairing(s, t, Len(s), A)
  BY MatchedStable
<1>2. /\ n \in Nat /\ n <= Len(s) /\ n <= Len(t)
      /\ MatchedLeft(A) \in SUBSET DOMAIN s /\ MatchedRight(A) \in SUBSET DOMAIN t
      /\ Cardinality(MatchedLeft(A)) = n /\ Cardinality(MatchedRight(A)) = n
      /\ (A = {} <=> n = 0)
  BY <1>1, PairsCounted
<1>3. /\ d \in Nat /\ d <= n
      /\ d = 0 => Subsequence(s, MatchedLeft(A)) = Subsequence(t, MatchedRight(A))
  BY <1>1, TranspositionsCounted
<1>4. Len(s) \in Nat /\ Len(t) \in Nat /\ DOMAIN s = 1 .. Len(s) /\ DOMAIN t = 1 .. Len(t)
  OBVIOUS
<1>5. ASSUME s = t
      PROVE  n = Len(s) /\ n = Len(t) /\ d = 0
  <2>1. A = {<<k, k>> : k \in 1 .. Len(s)}
    BY <1>5, MatchedWithItself
  <2>2. MatchedLeft(A) = 1 .. Len(s) /\ MatchedRight(A) = 1 .. Len(s)
    <3>1. \A k : <<k, k>>[1] = k /\ <<k, k>>[2] = k
      OBVIOUS
    <3>2. MatchedLeft(A) = {<<k, k>>[1] : k \in 1 .. Len(s)}
      BY <2>1 DEF MatchedLeft
    <3>3. MatchedRight(A) = {<<k, k>>[2] : k \in 1 .. Len(s)}
      BY <2>1 DEF MatchedRight
    <3> QED
      BY <3>1, <3>2, <3>3
  <2>3. n = Len(s)
    <3>1. \A m \in Nat : Cardinality(1 .. m) = m
      BY FS_Interval
    <3> QED
      BY <1>2, <1>4, <2>2, <3>1
  <2>4. d = Cardinality({})
    <3> DEFINE l == Subsequence(s, MatchedLeft(A))
    <3>1. d = Cardinality({k \in DOMAIN l : l[k] # l[k]})
      BY <1>5, <2>2 DEF Transpositions
    <3>2. {k \in DOMAIN l : l[k] # l[k]} = {}
      OBVIOUS
    <3> QED
      BY <3>1, <3>2
  <2> QED
    BY <1>5, <2>3, <2>4, FS_EmptySet
<1>6. ASSUME n = Len(s), n = Len(t), d = 0
      PROVE  s = t
  <2>1. \A m \in Nat : IsFiniteSet(1 .. m) /\ Cardinality(1 .. m) = m
    BY FS_Interval
  <2>2. MatchedLeft(A) = DOMAIN s
    <3>1. IsFiniteSet(DOMAIN s) /\ Cardinality(DOMAIN s) = n
      BY <1>4, <1>6, <2>1
    <3> QED
      BY <1>2, <3>1, FS_Subset
  <2>3. MatchedRight(A) = DOMAIN t
    <3>1. IsFiniteSet(DOMAIN t) /\ Cardinality(DOMAIN t) = n
      BY <1>4, <1>6, <2>1
    <3> QED
      BY <1>2, <3>1, FS_Subset
  <2> QED
    BY <1>3, <1>6, <2>2, <2>3, SubsequenceOfAll
<1>7. Jaro(s, t) = IF s = <<>> /\ t = <<>> THEN Whole
                   ELSE IF n = 0 THEN 0
                   ELSE OfParts(Len(s), Len(t), n, d)
  BY DEF Jaro, OfParts
<1>8. Whole \in Nat \ {0}
  BY DEF Whole
<1> HIDE DEF A, n, d
<1>9. CASE s = <<>> /\ t = <<>>
  BY <1>7, <1>8, <1>9
<1>10. CASE ~ (s = <<>> /\ t = <<>>) /\ n = 0
  <2>1. Jaro(s, t) = 0
    BY <1>7, <1>10
  <2>2. s # t
    BY <1>5, <1>10
  <2> QED
    BY <1>8, <2>1, <2>2
<1>11. CASE ~ (s = <<>> /\ t = <<>>) /\ n # 0
  <2>1. Jaro(s, t) = OfParts(Len(s), Len(t), n, d)
    BY <1>7, <1>11
  <2>2. IsShare(Len(s), Len(t), n, d)
    BY <1>2, <1>3, <1>4, <1>11, JaroOfParts
  <2> QED
    BY <1>5, <1>6, <2>1, <2>2 DEF IsShare
<1> QED
  BY <1>9, <1>10, <1>11

LEMMA JaroWinklerIsShare ==
  ASSUME NEW S, NEW s \in Seq(S), NEW t \in Seq(S)
  PROVE  /\ JaroWinkler(s, t) \in 0 .. Whole
         /\ JaroWinkler(s, t) = Whole <=> s = t
<1> DEFINE j == Jaro(s, t)
           b == Boost(s, t)
<1>1. j \in Nat /\ j <= Whole /\ (j = Whole <=> s = t)
  BY JaroIsShare
<1>2. b \in Nat /\ b <= 4
  BY BoostIsSmall
<1>3. JaroWinkler(s, t) = IF j = 0 THEN 0 ELSE j + (b * (Whole - j)) \div 10
  BY DEF JaroWinkler, Boost
<1>4. Whole \in Nat \ {0}
  BY DEF Whole
<1> HIDE DEF j, b
<1>5. Whole - j \in Nat /\ b * (Whole - j) \in Nat /\ b * (Whole - j) <= 4 * (Whole - j)
  BY <1>1, <1>2, <1>4
<1> DEFINE x == b * (Whole - j)
           q == x \div 10
<1> HIDE DEF x
<1>6. q \in Nat /\ 10 * q <= x
  BY <1>5 DEF x
<1> HIDE DEF q
<1>7. j + q \in Nat /\ j + q <= Whole /\ (j + q = Whole => j = Whole)
  <2>1. 10 * q <= 4 * (Whole - j)
    BY <1>1, <1>4, <1>5, <1>6 DEF x
  <2> QED
    BY <1>1, <1>4, <1>6, <2>1
<1>8. JaroWinkler(s, t) = IF j = 0 THEN 0 ELSE j + q
  BY <1>3 DEF x, q
<1>9. j = Whole => j + q = Whole
  BY <1>1, <1>7, <1>6, <1>4
<1> QED
  BY <1>1, <1>4, <1>7, <1>8, <1>9

LEMMA OneIfEqualAlways ==
  ASSUME TextTypeOK
  PROVE  OneIfEqual
<1>1. left \in Seq(QueryChars \cup MatchChars) /\ right \in Seq(QueryChars \cup MatchChars)
  BY DEF TextTypeOK
<1> QED
  BY <1>1, JaroWinklerIsShare DEF OneIfEqual

(* The similarity of two strings is between 0 and 1, whatever the common   *)
(* prefix adds, and 1 for equal strings only: for others, jaroSimilarity   *)
(* has lost a match or found a transposition.  In the model's arithmetic,  *)
(* which rounds down and is exact for strings of up to 6 characters.       *)
THEOREM SimilarityIsOneIfEqual == Spec => []OneIfEqual
BY OneIfEqualAlways, TextTypes, PTL

-----------------------------------------------------------------------------
(* The song of a track.                                                    *)

LowerOf(S) == {Lower(c) : c \in S}

LEMMA LowerIsText ==
  ASSUME NEW S, NEW s \in Seq(S)
  PROVE  /\ ToLower(s) \in Seq(LowerOf(S)) /\ Len(ToLower(s)) = Len(s)
         /\ \A k \in DOMAIN s : ToLower(s)[k] = Lower(s[k])
<1>1. ToLower(s) = [i \in 1 .. Len(s) |-> Lower(s[i])] /\ Len(s) \in Nat /\ DOMAIN s = 1 .. Len(s)
  BY DEF ToLower, Apply
<1>2. \A i \in 1 .. Len(s) : Lower(s[i]) \in LowerOf(S)
  BY DEF LowerOf
<1> QED
  BY <1>1, <1>2

LEMMA WithoutIsText ==
  ASSUME NEW S, NEW s \in Seq(S), NEW P
  PROVE  Without(s, P) \in Seq(S)
<1>1. DOMAIN s \ P \in SUBSET DOMAIN s
  OBVIOUS
<1> QED
  BY <1>1, SubsequenceIsPart DEF Without

LEMMA NormalizeIsText ==
  ASSUME NEW S, NEW s \in Seq(S)
  PROVE  Normalize(s) \in Seq(LowerOf(S))
<1> DEFINE plain == Without(ToLower(s), Bracketed(s))
           quiet == Without(plain, Noise(plain))
<1>1. plain \in Seq(LowerOf(S))
  BY LowerIsText, WithoutIsText
<1>2. quiet \in Seq(LowerOf(S))
  <2> HIDE DEF plain
  <2> QED
    BY <1>1, WithoutIsText
<1>3. CollapseSpaces(quiet) \in Seq(LowerOf(S))
  <2> HIDE DEF quiet
  <2> QED
    BY <1>2, WithoutIsText DEF CollapseSpaces
<1>4. Normalize(s) = TrimSpace(CollapseSpaces(quiet))
  BY DEF Normalize
<1> HIDE DEF quiet
<1> QED
  BY <1>3, <1>4, TrimKeeps

\* What contains a string contains the first characters of it.
LEMMA InfixOfFirst ==
  ASSUME NEW S, NEW p \in Seq(S), NEW t \in Seq(S), NEW m \in Nat,
         m # 0, m <= Len(p), IsInfix(p, t)
  PROVE  IsInfix(SubSeq(p, 1, m), t)
<1>1. PICK i \in 1 .. Len(t) - Len(p) + 1 : SubSeq(t, i, i + Len(p) - 1) = p
  BY DEF IsInfix
<1>2. Len(p) \in Nat /\ Len(t) \in Nat
  OBVIOUS
<1>3. i \in Nat /\ 1 <= i /\ i + Len(p) - 1 <= Len(t)
  BY <1>1, <1>2
<1> DEFINE q == SubSeq(p, 1, m)
<1>4. q = [k \in 1 .. m |-> p[k]] /\ Len(q) = m
  <2>1. q \in Seq(S) /\ Len(q) = m /\ \A k \in 1 .. m : q[k] = p[k]
    BY <1>2
  <2> QED
    BY <2>1
<1>5. \A k \in 1 .. m : p[k] = t[i + k - 1]
  <2>1. \A k \in 1 .. Len(p) : SubSeq(t, i, i + Len(p) - 1)[k] = t[i + k - 1]
    BY <1>2, <1>3
  <2>2. \A k \in 1 .. m : k \in 1 .. Len(p)
    BY <1>2
  <2> QED
    BY <1>1, <2>1, <2>2
<1>6. SubSeq(t, i, i + m - 1) = [k \in 1 .. m |-> t[i + k - 1]]
  <2> DEFINE u == SubSeq(t, i, i + m - 1)
  <2>1. u \in Seq(S) /\ Len(u) = m /\ \A k \in 1 .. m : u[k] = t[i + k - 1]
    BY <1>2, <1>3
  <2> HIDE DEF u
  <2>2. u = [k \in 1 .. m |-> u[k]]
    BY <2>1
  <2> QED
    BY <2>1, <2>2 DEF u
<1>7. SubSeq(t, i, i + m - 1) = q
  BY <1>4, <1>5, <1>6
<1>8. i \in 1 .. Len(t) - m + 1
  BY <1>2, <1>3
<1> HIDE DEF q
<1> QED
  BY <1>4, <1>7, <1>8 DEF IsInfix, q

LEMMA LowerOfFirst ==
  ASSUME NEW S, NEW p \in Seq(S), NEW m \in Nat, m <= Len(p)
  PROVE  ToLower(SubSeq(p, 1, m)) = SubSeq(ToLower(p), 1, m)
<1> DEFINE q == SubSeq(p, 1, m)
           low == ToLower(p)
<1>1. q \in Seq(S) /\ Len(q) = m /\ \A k \in 1 .. m : q[k] = p[k]
  OBVIOUS
<1>2. low \in Seq(LowerOf(S)) /\ Len(low) = Len(p) /\ \A k \in 1 .. Len(p) : low[k] = Lower(p[k])
  <2>1. DOMAIN p = 1 .. Len(p)
    OBVIOUS
  <2>2. low \in Seq(LowerOf(S)) /\ Len(low) = Len(p) /\ \A k \in DOMAIN p : low[k] = Lower(p[k])
    BY LowerIsText
  <2> QED
    BY <2>1, <2>2
<1>3. \A k \in 1 .. m : k \in 1 .. Len(p)
  OBVIOUS
<1> HIDE DEF q, low
<1>4. ToLower(q) = [k \in 1 .. m |-> Lower(p[k])]
  BY <1>1 DEF ToLower, Apply
<1>5. SubSeq(low, 1, m) = [k \in 1 .. m |-> Lower(p[k])]
  <2> DEFINE u == SubSeq(low, 1, m)
  <2>1. u \in Seq(LowerOf(S)) /\ Len(u) = m /\ \A k \in 1 .. m : u[k] = low[k]
    BY <1>2
  <2> HIDE DEF u
  <2>2. u = [k \in 1 .. m |-> u[k]]
    BY <2>1
  <2>3. \A k \in 1 .. m : u[k] = Lower(p[k])
    BY <1>2, <1>3, <2>1
  <2> QED
    BY <2>2, <2>3 DEF u
<1> QED
  BY <1>4, <1>5 DEF q, low

\* The keyword of a title is found in the title, if the normalised title is.
LEMMA KeywordInside ==
  ASSUME NEW S, NEW s \in Seq(S), PlainInside(s)
  PROVE  ExtractKeyword(s) # <<>> /\ Like(s, ExtractKeyword(s))
<1> DEFINE p == Normalize(s)
           m == Min({KeywordLength, Len(p)})
<1>1. p \in Seq(LowerOf(S)) /\ p # <<>> /\ IsInfix(ToLower(p), ToLower(s))
  BY NormalizeIsText DEF PlainInside, Like
<1>2. ExtractKeyword(s) = SubSeq(p, 1, m)
  BY DEF ExtractKeyword, First
<1> HIDE DEF p
<1>3. m \in Nat /\ m # 0 /\ m <= Len(p)
  <2>1. Len(p) \in Nat \ {0} /\ KeywordLength \in Nat \ {0}
    BY <1>1, TrackMatchingAssumption
  <2>2. {KeywordLength, Len(p)} \in SUBSET Nat /\ {KeywordLength, Len(p)} # {}
    BY <2>1
  <2>3. m \in {KeywordLength, Len(p)} /\ \A k \in {KeywordLength, Len(p)} : m <= k
    BY <2>2, MinIsLeast
  <2> QED
    BY <2>1, <2>3
<1> HIDE DEF m
<1>4. SubSeq(p, 1, m) # <<>>
  <2>1. Len(SubSeq(p, 1, m)) = m
    BY <1>1, <1>3
  <2> QED
    BY <1>3, <2>1
<1>5. /\ ToLower(p) \in Seq(LowerOf(LowerOf(S)) \cup LowerOf(S))
      /\ ToLower(s) \in Seq(LowerOf(LowerOf(S)) \cup LowerOf(S))
      /\ Len(ToLower(p)) = Len(p)
  <2>1. ToLower(p) \in Seq(LowerOf(LowerOf(S))) /\ Len(ToLower(p)) = Len(p)
    BY <1>1, LowerIsText
  <2>2. ToLower(s) \in Seq(LowerOf(S))
    BY LowerIsText
  <2> QED
    BY <2>1, <2>2
<1>6. IsInfix(SubSeq(ToLower(p), 1, m), ToLower(s))
  BY <1>1, <1>3, <1>5, InfixOfFirst
<1>7. ToLower(SubSeq(p, 1, m)) = SubSeq(ToLower(p), 1, m)
  BY <1>1, <1>3, LowerOfFirst
<1> QED
  BY <1>2, <1>4, <1>6, <1>7 DEF Like

\* A score is a share as well, and the whole for the same title only.
LEMMA ScoreIsShare ==
  ASSUME NEW S, NEW x, NEW y, x.title \in Seq(S), y.title \in Seq(S),
         x.artist \in Seq(S), y.artist \in Seq(S)
  PROVE  /\ Score(x, y) \in Nat /\ Score(x, y) <= Whole
         /\ Score(x, y) = Whole => x.title = y.title
         /\ x.title = y.title /\ x.artist = y.artist => Score(x, y) = Whole
<1> DEFINE a == JaroWinkler(x.title, y.title)
           b == JaroWinkler(x.artist, y.artist)
<1>1. a \in 0 .. Whole /\ (a = Whole <=> x.title = y.title)
  BY JaroWinklerIsShare
<1>2. b \in 0 .. Whole /\ (b = Whole <=> x.artist = y.artist)
  BY JaroWinklerIsShare
<1>3. Score(x, y) = IF x.artist = <<>> THEN a ELSE (6 * a + 4 * b) \div 10
  BY DEF Score
<1>4. Whole \in Nat
  BY DEF Whole
<1> HIDE DEF a, b
<1> DEFINE c == (6 * a + 4 * b) \div 10
<1>5. c \in Nat /\ c <= Whole /\ (c = Whole <=> a = Whole /\ b = Whole)
  BY <1>1, <1>2, <1>4
<1> HIDE DEF c
<1>6. a \in Nat /\ a <= Whole
  BY <1>1, <1>4
<1>7. Score(x, y) = a \/ Score(x, y) = c
  BY <1>3 DEF c
<1>8. CASE x.artist = <<>>
  BY <1>1, <1>3, <1>6, <1>8
<1>9. CASE x.artist # <<>>
  <2>1. Score(x, y) = c
    BY <1>3, <1>9 DEF c
  <2> QED
    BY <1>1, <1>2, <1>5, <2>1
<1> QED
  BY <1>8, <1>9

\* If one candidate is the track, the best match is one with its title.
LEMMA BestMatchHasTitle ==
  ASSUME NEW S, NEW track, track.title \in Seq(S), track.artist \in Seq(S),
         NEW C, NEW candidates \in Seq(C), track \in ToSet(candidates),
         \A song \in C : song.title \in Seq(S) /\ song.artist \in Seq(S)
  PROVE  \E song \in ToSet(BestMatch(track, candidates)) :
           song \in C /\ Normalize(song.title) = Normalize(track.title)
<1> DEFINE norm == Normalized(track)
           value == [i \in DOMAIN candidates |-> Score(norm, Normalized(candidates[i]))]
           good == GoodMatches(track, candidates)
           best == {c \in good : \A d \in good : d.score <= c.score}
           places == {c.at : c \in best}
           L == LowerOf(S)
<1>1. /\ norm.title = Normalize(track.title) /\ norm.title \in Seq(L)
      /\ norm.artist = Normalize(track.artist) /\ norm.artist \in Seq(L)
  BY NormalizeIsText DEF Normalized
<1>2. DOMAIN candidates \in SUBSET Nat /\ \A i \in DOMAIN candidates : candidates[i] \in C
  OBVIOUS
<1>3. \A i \in DOMAIN candidates :
        /\ value[i] \in Nat /\ value[i] <= Whole
        /\ value[i] = Whole => Normalize(candidates[i].title) = norm.title
        /\ candidates[i] = track => value[i] = Whole
  <2> SUFFICES ASSUME NEW i \in DOMAIN candidates
               PROVE  /\ value[i] \in Nat /\ value[i] <= Whole
                      /\ value[i] = Whole => Normalize(candidates[i].title) = norm.title
                      /\ candidates[i] = track => value[i] = Whole
    OBVIOUS
  <2> DEFINE other == Normalized(candidates[i])
  <2>1. /\ other.title = Normalize(candidates[i].title) /\ other.title \in Seq(L)
        /\ other.artist = Normalize(candidates[i].artist) /\ other.artist \in Seq(L)
    BY <1>2, NormalizeIsText DEF Normalized
  <2>2. value[i] = Score(norm, other)
    OBVIOUS
  <2> HIDE DEF other, norm, value
  <2>3. /\ Score(norm, other) \in Nat /\ Score(norm, other) <= Whole
        /\ Score(norm, other) = Whole => norm.title = other.title
        /\ norm.title = other.title /\ norm.artist = other.artist => Score(norm, other) = Whole
    BY <1>1, <2>1, ScoreIsShare
  <2>4. candidates[i] = track => norm.title = other.title /\ norm.artist = other.artist
    BY <1>1, <2>1
  <2> QED
    BY <2>1, <2>2, <2>3, <2>4
<1>4. good = {c \in {[at |-> i, score |-> value[i]] : i \in DOMAIN candidates} :
                c.score >= MinMatchScore}
  <2>1. {[at |-> i, score |-> value[i]] : i \in DOMAIN candidates}
          = {[at |-> i, score |-> Score(norm, Normalized(candidates[i]))] :
               i \in DOMAIN candidates}
    OBVIOUS
  <2> HIDE DEF value
  <2> QED
    BY <2>1 DEF GoodMatches
<1> HIDE DEF value, norm, good
<1>5. \A c \in good : /\ c.at \in DOMAIN candidates /\ c.score = value[c.at]
  BY <1>4
<1>6. PICK k \in DOMAIN candidates : candidates[k] = track
  BY DEF ToSet
<1> DEFINE top == [at |-> k, score |-> value[k]]
<1>7. top \in good /\ top.score = Whole
  <2>1. value[k] = Whole
    BY <1>3, <1>6
  <2>2. Whole >= MinMatchScore
    BY DEF Whole, MinMatchScore
  <2> QED
    BY <1>4, <2>1, <2>2
<1>8. top \in best
  BY <1>3, <1>5, <1>7
<1>9. \A c \in best : c.at \in DOMAIN candidates /\ value[c.at] = Whole
  <2> SUFFICES ASSUME NEW c \in best
               PROVE  c.at \in DOMAIN candidates /\ value[c.at] = Whole
    OBVIOUS
  <2>1. c \in good /\ Whole <= c.score
    BY <1>7
  <2>2. c.at \in DOMAIN candidates /\ c.score = value[c.at]
    BY <1>5, <2>1
  <2>3. value[c.at] \in Nat /\ value[c.at] <= Whole
    BY <1>3, <2>2
  <2>4. Whole \in Nat
    BY DEF Whole
  <2> QED
    BY <2>1, <2>2, <2>3, <2>4
<1>10. Min(places) \in places
  <2>1. places \in SUBSET Nat /\ places # {}
    BY <1>2, <1>8, <1>9
  <2> HIDE DEF places
  <2> QED
    BY <2>1, MinIsLeast
<1> DEFINE song == candidates[Min(places)]
<1>11. BestMatch(track, candidates) = <<song>>
  BY <1>7 DEF BestMatch, good
<1> HIDE DEF best
<1>12. PICK c \in best : Min(places) = c.at
  BY <1>10
<1>13. song \in C /\ Normalize(song.title) = norm.title
  BY <1>2, <1>3, <1>9, <1>12
<1> HIDE DEF song
<1>14. song \in ToSet(BestMatch(track, candidates))
  BY <1>11 DEF ToSet
<1> QED
  BY <1>1, <1>13, <1>14

\* A hit is among the candidates, if there is room for all songs.
LEMMA HitIsCandidate ==
  ASSUME NEW C, NEW songs \in Seq(C), Len(songs) <= MaxCandidates, NEW keyword,
         NEW i \in DOMAIN songs, Like(songs[i].title, keyword)
  PROVE  /\ FindCandidateSongs(songs, keyword) \in Seq(C)
         /\ songs[i] \in ToSet(FindCandidateSongs(songs, keyword))
<1> DEFINE P == {k \in DOMAIN songs : Like(songs[k].title, keyword) \/ Like(songs[k].artist, keyword)}
           hits == Subsequence(songs, P)
           m == Min({MaxCandidates, Len(hits)})
<1>1. P \in SUBSET DOMAIN songs /\ i \in P
  OBVIOUS
<1>2. FindCandidateSongs(songs, keyword) = SubSeq(hits, 1, m)
  BY DEF FindCandidateSongs, First
<1> HIDE DEF P
<1>3. hits \in Seq(C) /\ Len(hits) <= Len(songs) /\ ToSet(hits) = {songs[k] : k \in P}
  BY <1>1, SubsequenceIsPart
<1> HIDE DEF hits
<1>4. Len(hits) \in Nat /\ Len(songs) \in Nat /\ MaxCandidates \in Nat
  BY <1>3, TrackMatchingAssumption
<1>5. m = Len(hits)
  <2>1. {MaxCandidates, Len(hits)} \in SUBSET Nat /\ {MaxCandidates, Len(hits)} # {}
    BY <1>4
  <2>2. m \in {MaxCandidates, Len(hits)} /\ \A k \in {MaxCandidates, Len(hits)} : m <= k
    BY <2>1, MinIsLeast
  <2>3. Len(hits) <= MaxCandidates
    BY <1>3, <1>4
  <2>4. m <= Len(hits) /\ Len(hits) <= m
    BY <1>4, <2>2, <2>3
  <2>5. m \in Nat
    BY <1>4, <2>2
  <2> QED
    BY <1>4, <2>4, <2>5
<1>6. SubSeq(hits, 1, Len(hits)) = hits
  BY <1>3
<1> QED
  BY <1>1, <1>2, <1>3, <1>5, <1>6

\* A song of two that is the track, by its title and artist.
LEMMA SameOfTwoWins ==
  ASSUME MaxCandidates >= 2, NEW S, NEW artist \in Seq(S), NEW u \in Seq(S), NEW v \in Seq(S),
         PlainInside(u), NEW songs,
         \/ songs = <<Titled(u, artist), Titled(v, artist)>>
         \/ songs = <<Titled(v, artist), Titled(u, artist)>>
  PROVE  \E song \in ToSet(MatchTrack(Titled(u, artist), songs)) :
           Normalized(song) = Normalized(Titled(u, artist))
<1> DEFINE track == Titled(u, artist)
           other == Titled(v, artist)
           C == {track, other}
           keyword == ExtractKeyword(u)
           candidates == FindCandidateSongs(songs, keyword)
<1>1. \A song \in C : song.title \in Seq(S) /\ song.artist = artist
  BY DEF Titled
<1>2. track \in C /\ track.title = u /\ track.artist = artist
  BY DEF Titled
<1>3. songs = <<track, other>> \/ songs = <<other, track>>
  OBVIOUS
<1>4. keyword # <<>> /\ Like(u, keyword)
  BY KeywordInside
<1> HIDE DEF keyword, track, other
<1>5. songs \in Seq(C) /\ Len(songs) = 2
  <2>1. CASE songs = <<track, other>>
    BY <2>1
  <2>2. CASE songs = <<other, track>>
    BY <2>2
  <2> QED
    BY <1>3, <2>1, <2>2
<1>6. \E i \in DOMAIN songs : songs[i] = track
  <2>1. CASE songs = <<track, other>>
    <3>1. 1 \in DOMAIN songs /\ songs[1] = track
      BY <2>1
    <3> QED
      BY <3>1
  <2>2. CASE songs = <<other, track>>
    <3>1. 2 \in DOMAIN songs /\ songs[2] = track
      BY <2>2
    <3> QED
      BY <3>1
  <2> QED
    BY <1>3, <2>1, <2>2
<1>7. Len(songs) <= MaxCandidates
  BY <1>5, TrackMatchingAssumption
<1>8. candidates \in Seq(C) /\ track \in ToSet(candidates)
  <2>1. PICK i \in DOMAIN songs : songs[i] = track
    BY <1>6
  <2>2. Like(songs[i].title, keyword)
    BY <1>2, <1>4, <2>1
  <2> HIDE DEF C
  <2> QED
    BY <1>5, <1>7, <2>1, <2>2, HitIsCandidate
<1>9. MatchTrack(track, songs) = BestMatch(track, candidates)
  BY <1>2, <1>4 DEF MatchTrack, keyword
<1> HIDE DEF candidates, C
<1>10. PICK song \in ToSet(BestMatch(track, candidates)) :
          song \in C /\ Normalize(song.title) = Normalize(track.title)
  <2>1. \A song \in C : song.title \in Seq(S) /\ song.artist \in Seq(S)
    BY <1>1
  <2>2. track.title \in Seq(S) /\ track.artist \in Seq(S)
    BY <1>2
  <2> QED
    BY <1>8, <2>1, <2>2, BestMatchHasTitle
<1>11. Normalized(song) = Normalized(track)
  BY <1>1, <1>2, <1>10 DEF Normalized
<1> QED
  BY <1>9, <1>10, <1>11 DEF track

LEMMA SameSongWinsAlways ==
  ASSUME TextTypeOK, MaxCandidates >= 2
  PROVE  SameSongWins
<1> DEFINE S == QueryChars \cup MatchChars \cup {97}
<1>1. left \in Seq(S) /\ right \in Seq(S)
  BY DEF TextTypeOK
<1>2. ASSUME NEW artist \in {<<>>, << 97 >>}
      PROVE  artist \in Seq(S)
  <2>1. CASE artist = <<>>
    BY <2>1
  <2>2. CASE artist = << 97 >>
    BY <2>2
  <2> QED
    BY <2>1, <2>2
<1> HIDE DEF S
<1> SUFFICES ASSUME PlainInside(left), NEW artist \in {<<>>, << 97 >>},
                    NEW songs \in {<<Titled(left, artist), Titled(right, artist)>>,
                                   <<Titled(right, artist), Titled(left, artist)>>}
             PROVE  \E song \in ToSet(MatchTrack(Titled(left, artist), songs)) :
                      Normalized(song) = Normalized(Titled(left, artist))
  BY DEF SameSongWins
<1>3. artist \in Seq(S)
  BY <1>2
<1>4. \/ songs = <<Titled(left, artist), Titled(right, artist)>>
      \/ songs = <<Titled(right, artist), Titled(left, artist)>>
  OBVIOUS
<1> QED
  BY <1>1, <1>3, <1>4, SameOfTwoWins

(* A track is matched with a song of its title and artist, or with one of  *)
(* the same normalised title: the keyword is a part of the title, LIKE     *)
(* lets the song through, its score is the whole, and a score that is the  *)
(* whole is of equal titles.  For titles of which normalisation removes    *)
(* nothing in between, and where LIMIT (100 in the code) leaves room for   *)
(* both songs.                                                             *)
THEOREM TrackFindsItsSong ==
  ASSUME MaxCandidates >= 2
  PROVE  Spec => []SameSongWins
<1>1. TextTypeOK => SameSongWins
  BY SameSongWinsAlways
<1> QED
  BY <1>1, TextTypes, PTL
=============================================================================
