--------------------------- MODULE StringLib_proofs ---------------------------
EXTENDS StringLib, TLAPS, NaturalsInduction, WellFoundedInduction

\* A set of numbers has a least one.
LEMMA LeastElement == ASSUME NEW T, T \subseteq Nat, T # {} PROVE \E m \in T : \A k \in T : m <= k
<1> DEFINE R == OpToRel(<, Nat)
<1>1. IsWellFoundedOn(R, Nat)
  BY NatLessThanWellFounded
<1> HIDE DEF R
<1>2. PICK m \in T : \A k \in T : ~ (<<k, m>> \in R)
  BY <1>1, WFMin
<1>3. \A k \in T : ~ (k < m)
  BY <1>2 DEF R, OpToRel
<1> QED
  BY <1>3

\* What holds at a and goes on from each place to the next holds up to b.
LEMMA GoesOn ==
  ASSUME NEW P, NEW a \in Nat, NEW b \in Nat, a \in P, \A k \in a + 1 .. b : k - 1 \in P => k \in P
  PROVE  \A k \in a .. b : k \in P
<1> DEFINE T == {k \in a .. b : k \notin P}
<1> SUFFICES ASSUME T # {} PROVE FALSE
  OBVIOUS
<1>1. PICK m \in T : \A k \in T : m <= k
  <2>1. T \subseteq Nat
    OBVIOUS
  <2> HIDE DEF T
  <2> QED
    BY <2>1, LeastElement
<1>2. m \in a + 1 .. b /\ m - 1 \in a .. b /\ m - 1 < m
  BY <1>1
<1>3. m - 1 \notin T
  <2> HIDE DEF T
  <2> QED
    BY <1>1, <1>2
<1> QED
  BY <1>1, <1>2, <1>3

\* next[k] takes every value in S to one in S.
Closed(S, next, n) == \A k \in 1 .. n : \A y \in S : next[k][y] \in S

\* f is x and then what next makes of the value before.
Runs(S, x, next, n, f) ==
  f \in [0 .. n -> S] /\ f[0] = x /\ \A k \in 1 .. n : f[k] = next[k][f[k - 1]]

\* A function whose values are defined one after the other exists.
LEMMA Recursion ==
  ASSUME NEW S, NEW x \in S, NEW next, NEW n \in Nat, Closed(S, next, n)
  PROVE  \E f : Runs(S, x, next, n, f)
<1> USE DEF Closed
<1> DEFINE Ok(m) == \E f \in [0 .. m -> S] : f[0] = x /\ \A k \in 1 .. m : f[k] = next[k][f[k - 1]]
<1> DEFINE P == {m \in 0 .. n : Ok(m)}
<1>1. Ok(0)
  <2>1. PICK f : f = [k \in 0 .. 0 |-> x]
    OBVIOUS
  <2>2. f \in [0 .. 0 -> S] /\ f[0] = x /\ \A k \in 1 .. 0 : f[k] = next[k][f[k - 1]]
    BY <2>1
  <2> QED
    BY <2>2
<1>2. ASSUME NEW m \in 1 .. n, Ok(m - 1) PROVE Ok(m)
  <2>1. PICK f \in [0 .. m - 1 -> S] : f[0] = x /\ \A k \in 1 .. m - 1 : f[k] = next[k][f[k - 1]]
    BY <1>2
  <2> DEFINE g == [k \in 0 .. m |-> IF k = m THEN next[m][f[m - 1]] ELSE f[k]]
  <2>2. f[m - 1] \in S /\ m - 1 \in 0 .. m - 1
    BY <2>1
  <2>3. g \in [0 .. m -> S] /\ g[0] = x
    BY <2>1, <2>2
  <2>4. \A k \in 1 .. m : g[k] = next[k][g[k - 1]]
    BY <2>1, <2>2
  <2> HIDE DEF g
  <2> QED
    BY <2>3, <2>4
<1>3. 0 \in P
  <2> HIDE DEF Ok
  <2> QED
    BY <1>1
<1>4. \A k \in 0 + 1 .. n : k - 1 \in P => k \in P
  <2> HIDE DEF Ok
  <2> QED
    BY <1>2
<1>5. n \in P
  <2> HIDE DEF P
  <2>1. \A k \in 0 .. n : k \in P
    BY <1>3, <1>4, GoesOn
  <2> QED
    BY <2>1
<1> QED
  BY <1>5 DEF Runs

\* Min is the least number of a set, and Max one of its numbers.
LEMMA MinFacts ==
  ASSUME NEW T, T \subseteq Nat, T # {}
  PROVE  Min(T) \in T /\ \A j \in T : Min(T) <= j
<1>1. \E m \in T : \A j \in T : m <= j
  BY LeastElement
<1> QED
  BY <1>1 DEF Min

\* Max is the greatest number of a set that has one.
LEMMA MaxFacts ==
  ASSUME NEW n \in Nat, NEW T, T \subseteq 0 .. n, T # {}
  PROVE  Max(T) \in T /\ \A j \in T : j <= Max(T)
<1> DEFINE U == {n - j : j \in T}
<1>1. U \subseteq Nat /\ U # {}
  <2>1. \A j \in T : j \in 0 .. n /\ n - j \in Nat
    OBVIOUS
  <2> QED
    BY <2>1
<1>2. PICK m \in U : \A j \in U : m <= j
  <2> HIDE DEF U
  <2> QED
    BY <1>1, LeastElement
<1>3. PICK x \in T : m = n - x
  BY <1>2
<1>4. \A j \in T : x >= j
  <2> TAKE j \in T
  <2>1. n - j \in U /\ j \in 0 .. n /\ x \in 0 .. n
    OBVIOUS
  <2>2. n - x <= n - j
    BY <1>2, <1>3, <2>1
  <2> HIDE DEF U
  <2> QED
    BY <2>1, <2>2
<1>5. Max(T) \in T /\ \A j \in T : Max(T) >= j
  BY <1>4 DEF Max
<1>6. \A j \in T : j \in Nat
  OBVIOUS
<1> QED
  BY <1>5, <1>6

\* What InsertAt returns.
LEMMA InsertAtFacts ==
  ASSUME NEW S, NEW q \in Seq(S), NEW e \in S, NEW p \in 1 .. Len(q) + 1
  PROVE  /\ InsertAt(q, p, e) \in Seq(S) /\ Len(InsertAt(q, p, e)) = Len(q) + 1
         /\ \A i \in 1 .. Len(q) + 1 :
              InsertAt(q, p, e)[i] = IF i < p THEN q[i] ELSE IF i = p THEN e ELSE q[i - 1]
<1>1. Len(q) \in Nat
  OBVIOUS
<1> DEFINE l == SubSeq(q, 1, p - 1)
<1> DEFINE r == SubSeq(q, p, Len(q))
<1>2. l \in Seq(S) /\ Len(l) = p - 1 /\ \A i \in 1 .. p - 1 : l[i] = q[i]
  BY <1>1
<1>3. r \in Seq(S) /\ Len(r) = Len(q) - p + 1 /\ \A i \in 1 .. Len(q) - p + 1 : r[i] = q[p + i - 1]
  BY <1>1
<1>4. <<e>> \in Seq(S) /\ Len(<<e>>) = 1 /\ <<e>>[1] = e
  OBVIOUS
<1>5. InsertAt(q, p, e) = l \o <<e>> \o r
  BY DEF InsertAt
<1> HIDE DEF l, r
<1>6. PICK m : m = l \o <<e>>
  OBVIOUS
<1>7. m \in Seq(S) /\ Len(m) = p /\ (\A i \in 1 .. p - 1 : m[i] = q[i]) /\ m[p] = e
  BY <1>1, <1>2, <1>4, <1>6
<1>8. PICK t : t = m \o r
  OBVIOUS
<1>9. /\ t \in Seq(S) /\ Len(t) = Len(q) + 1
      /\ \A i \in 1 .. p : t[i] = m[i]
      /\ \A i \in p + 1 .. Len(q) + 1 : t[i] = r[i - p]
  <2>1. /\ t \in Seq(S) /\ Len(t) = Len(m) + Len(r)
        /\ \A i \in 1 .. Len(m) : t[i] = m[i]
        /\ \A i \in Len(m) + 1 .. Len(m) + Len(r) : t[i] = r[i - Len(m)]
    BY <1>3, <1>7, <1>8
  <2>2. Len(m) = p /\ Len(m) + Len(r) = Len(q) + 1
    BY <1>1, <1>3, <1>7
  <2> QED
    BY <2>1, <2>2
<1>10. \A i \in 1 .. Len(q) + 1 : t[i] = IF i < p THEN q[i] ELSE IF i = p THEN e ELSE q[i - 1]
  <2> TAKE i \in 1 .. Len(q) + 1
  <2>1. CASE i < p
    BY <1>1, <1>7, <1>9, <2>1
  <2>2. CASE i = p
    BY <1>1, <1>7, <1>9, <2>2
  <2>3. CASE i > p
    <3>1. i \in p + 1 .. Len(q) + 1 /\ i - p \in 1 .. Len(q) - p + 1 /\ p + (i - p) - 1 = i - 1
      BY <1>1, <2>3
    <3> QED
      BY <1>3, <1>9, <2>3, <3>1
  <2> QED
    BY <1>1, <2>1, <2>2, <2>3
<1> QED
  BY <1>5, <1>6, <1>8, <1>9, <1>10
\* The greater of two numbers, and the smaller.
LEMMA OfTwo ==
  ASSUME NEW m \in Int, NEW n \in Int
  PROVE  /\ Max({m, n}) = IF m >= n THEN m ELSE n
         /\ Min({m, n}) = IF m <= n THEN m ELSE n
<1>1. \E x \in {m, n} : \A y \in {m, n} : x >= y
  <2>1. CASE m >= n
    BY <2>1
  <2>2. CASE n >= m
    BY <2>2
  <2> QED
    BY <2>1, <2>2
<1>2. \E x \in {m, n} : \A y \in {m, n} : x <= y
  <2>1. CASE m >= n
    BY <2>1
  <2>2. CASE n >= m
    BY <2>2
  <2> QED
    BY <2>1, <2>2
<1>3. Max({m, n}) \in {m, n} /\ \A y \in {m, n} : Max({m, n}) >= y
  BY <1>1 DEF Max
<1>4. Min({m, n}) \in {m, n} /\ \A y \in {m, n} : Min({m, n}) <= y
  BY <1>2 DEF Min
<1> QED
  BY <1>3, <1>4

-----------------------------------------------------------------------------
(***************************************************************************)
(* Searching.  Cased(how, c) is the character the searches compare.        *)
(***************************************************************************)
Ways == {"cased", "folded"}
Bytes == 1 .. 255
WordTexts == Seq(Bytes)

\* A byte is a number, and not NUL.
LEMMA ByteFacts == \A c \in Bytes : c \in Nat /\ c \in Int /\ c # 0
  BY DEF Bytes

Cased(how, c) == IF how = "folded" THEN Lower(c) ELSE c

\* t begins with the same characters as r.
Begins(how, r, t) ==
  /\ Len(t) <= Len(r)
  /\ \A k \in 1 .. Len(t) : Cased(how, r[k]) = Cased(how, t[k])

Comparing(how, r, t, n) == IF how = "folded" THEN Strncasecmp(r, t, n) ELSE Strncmp(r, t, n)

\* The characters of words, and what is read behind their ends.
LEMMA CharFacts ==
  ASSUME NEW r \in WordTexts, NEW how \in Ways, NEW i \in Nat \ {0}
  PROVE  /\ Len(r) \in Nat
         /\ i <= Len(r) => /\ CharAt(r, i) = r[i] /\ r[i] \in Bytes
                           /\ Cased(how, r[i]) \in Bytes
         /\ i > Len(r) => CharAt(r, i) = 0 /\ Cased(how, CharAt(r, i)) = 0
<1>1. Len(r) \in Nat /\ DOMAIN r = 1 .. Len(r) /\ \A k \in 1 .. Len(r) : r[k] \in Bytes
  BY DEF WordTexts
<1>2. \A c \in Bytes : Cased(how, c) \in Bytes
  BY DEF Bytes, Cased, Lower
<1>3. CASE i <= Len(r)
  <2>1. i \in DOMAIN r
    BY <1>1, <1>3
  <2> QED
    BY <1>1, <1>2, <1>3, <2>1 DEF CharAt
<1>4. CASE i > Len(r)
  <2>1. i \notin DOMAIN r
    BY <1>1, <1>4
  <2>2. Cased(how, 0) = 0
    BY DEF Cased, Lower
  <2> QED
    BY <1>1, <1>4, <2>1, <2>2 DEF CharAt
<1> QED
  BY <1>1, <1>3, <1>4

\* A word compares equal over its length to what begins with it, and to nothing else.
LEMMA ComparesEqual ==
  ASSUME NEW how \in Ways, NEW r \in WordTexts, NEW t \in WordTexts
  PROVE  Comparing(how, r, t, Len(t)) = 0 <=> Begins(how, r, t)
<1> DEFINE a(i) == Cased(how, CharAt(r, i))
<1> DEFINE b(i) == Cased(how, CharAt(t, i))
<1> DEFINE N == Min({Len(t), Max({Len(r), Len(t)}) + 1})
<1> DEFINE ends == {i \in 1 .. N : a(i) # b(i) \/ a(i) = 0}
<1>0. Len(r) \in Nat /\ Len(t) \in Nat
  BY DEF WordTexts
<1>1. N = Len(t)
  <2>1. PICK m \in Nat : m = Max({Len(r), Len(t)}) /\ m >= Len(t)
    BY <1>0, OfTwo
  <2>2. m + 1 \in Int /\ Len(t) \in Int /\ m + 1 >= Len(t)
    BY <1>0, <2>1
  <2>3. Min({Len(t), m + 1}) = Len(t)
    BY <2>2, OfTwo
  <2> QED
    BY <2>1, <2>3
<1>2. Comparing(how, r, t, Len(t)) =
        IF ends = {} THEN 0
        ELSE IF a(Min(ends)) = b(Min(ends)) THEN 0
        ELSE a(Min(ends)) - b(Min(ends))
  <2>1. CASE how = "folded"
    BY <2>1 DEF Comparing, Strncasecmp, Compared, Minus, Cased
  <2>2. CASE how # "folded"
    BY <2>2 DEF Comparing, Strncmp, Compared, Minus, Same, Cased
  <2> QED
    BY <2>1, <2>2
<1>3. \A i \in 1 .. Len(t) : a(i) \in Nat /\ b(i) \in Nat /\ b(i) # 0 /\ b(i) = Cased(how, t[i])
  <2> TAKE i \in 1 .. Len(t)
  <2>1. i \in Nat \ {0} /\ i <= Len(t)
    BY <1>0
  <2>2. b(i) = Cased(how, t[i]) /\ b(i) \in Bytes
    BY <2>1, CharFacts
  <2>3. a(i) \in Bytes \/ a(i) = 0
    BY <2>1, <1>0, CharFacts
  <2>4. \A x \in Bytes : x \in Nat /\ x # 0
    BY DEF Bytes
  <2> HIDE DEF a, b
  <2>5. a(i) \in Nat
    BY <2>3, <2>4
  <2> QED
    BY <2>2, <2>4, <2>5
<1>4. ends = {i \in 1 .. Len(t) : a(i) # b(i)}
  BY <1>1, <1>3
<1>5. \A i \in 1 .. Len(t) : a(i) = b(i) <=> i <= Len(r) /\ Cased(how, r[i]) = Cased(how, t[i])
  <2> TAKE i \in 1 .. Len(t)
  <2>1. i \in Nat \ {0}
    BY <1>0
  <2>2. CASE i <= Len(r)
    <3>1. a(i) = Cased(how, r[i])
      BY <2>1, <2>2, CharFacts
    <3> HIDE DEF a, b
    <3> QED
      BY <1>3, <2>2, <3>1
  <2>3. CASE i > Len(r)
    <3>1. a(i) = 0
      BY <2>1, <2>3, CharFacts
    <3> HIDE DEF a, b
    <3> QED
      BY <1>0, <1>3, <2>3, <3>1
  <2> QED
    BY <1>0, <2>2, <2>3
<1> HIDE DEF a, b, ends, N
<1>6. CASE ends = {}
  <2>1. \A i \in 1 .. Len(t) : i <= Len(r) /\ Cased(how, r[i]) = Cased(how, t[i])
    BY <1>4, <1>5, <1>6
  <2>2. Len(t) <= Len(r)
    <3>1. Len(t) = 0 \/ Len(t) \in 1 .. Len(t)
      BY <1>0
    <3> QED
      BY <1>0, <2>1, <3>1
  <2> QED
    BY <1>2, <1>6, <2>1, <2>2 DEF Begins
<1>7. CASE ends # {}
  <2>1. ends \subseteq Nat
    BY <1>0, <1>4
  <2>2. PICK i \in ends : i = Min(ends)
    BY <1>7, <2>1, MinFacts
  <2>3. i \in 1 .. Len(t) /\ a(i) # b(i) /\ a(i) \in Nat /\ b(i) \in Nat
    BY <1>3, <1>4, <2>2
  <2>4. Comparing(how, r, t, Len(t)) = a(i) - b(i)
    BY <1>2, <1>7, <2>2, <2>3
  <2>5. ~ Begins(how, r, t)
    BY <1>0, <1>5, <2>3 DEF Begins
  <2> QED
    BY <2>3, <2>4, <2>5
<1> QED
  BY <1>6, <1>7

\* s2 stands at a place of s1.
StandsAt(how, s1, s2, at) ==
  /\ at + Len(s2) - 1 <= Len(s1)
  /\ \A k \in 1 .. Len(s2) : Cased(how, s1[at + k - 1]) = Cased(how, s2[k])

PlacesOf(how, s1, s2, n) == {at \in 1 .. n : StandsAt(how, s1, s2, at)}

First(places) == IF places = {} THEN NULL ELSE Min(places)

\* A search goes to the first place where the word stands.
LEMMA SearchedFacts ==
  ASSUME NEW how \in Ways, NEW s1 \in WordTexts, NEW s2 \in WordTexts, s2 # << >>,
         NEW end \in Int, end <= Len(s1)
  PROVE  /\ how = "folded" => Searched(s1, s2, end, TRUE) = First(PlacesOf(how, s1, s2, end))
         /\ how = "cased" => Searched(s1, s2, end, FALSE) = First(PlacesOf(how, s1, s2, end))
<1> DEFINE rest(at) == SubSeq(s1, at + 1, Len(s1))
<1> DEFINE places == {at \in 1 .. end : /\ Cased(how, s1[at]) = Cased(how, s2[1])
                                        /\ Comparing(how, rest(at), Tail(s2), Len(s2) - 1) = 0}
<1>1. /\ how = "folded" => Searched(s1, s2, end, TRUE) = First(places)
      /\ how = "cased" => Searched(s1, s2, end, FALSE) = First(places)
  <2>1. CASE how = "folded"
    BY <2>1 DEF Searched, Cased, Comparing, First
  <2>2. CASE how = "cased"
    BY <2>2 DEF Searched, Cased, Comparing, First
  <2> QED
    BY <2>1, <2>2 DEF Ways
<1>2. ASSUME NEW at \in 1 .. end
      PROVE  /\ Cased(how, s1[at]) = Cased(how, s2[1])
             /\ Comparing(how, rest(at), Tail(s2), Len(s2) - 1) = 0
             <=> StandsAt(how, s1, s2, at)
  <2>1. Len(s1) \in Nat /\ Len(s2) \in Nat /\ Len(s2) >= 1 /\ at \in 1 .. Len(s1)
    BY DEF WordTexts
  <2>2. /\ rest(at) \in WordTexts /\ Len(rest(at)) = Len(s1) - at
        /\ \A k \in 1 .. Len(s1) - at : rest(at)[k] = s1[at + k]
    BY <2>1 DEF WordTexts
  <2>3. /\ Tail(s2) \in WordTexts /\ Len(Tail(s2)) = Len(s2) - 1
        /\ \A k \in 1 .. Len(s2) - 1 : Tail(s2)[k] = s2[k + 1]
    BY <2>1 DEF WordTexts
  <2>4. PICK r \in WordTexts : r = rest(at)
    BY <2>2
  <2>5. PICK t \in WordTexts : t = Tail(s2)
    BY <2>3
  <2> HIDE DEF rest
  <2>6. Comparing(how, r, t, Len(t)) = 0 <=> Begins(how, r, t)
    BY ComparesEqual
  <2>7. Begins(how, r, t) <=>
          /\ Len(s2) - 1 <= Len(s1) - at
          /\ \A k \in 1 .. Len(s2) - 1 : Cased(how, s1[at + k]) = Cased(how, s2[k + 1])
    <3>1. Len(t) = Len(s2) - 1 /\ Len(r) = Len(s1) - at
      BY <2>2, <2>3, <2>4, <2>5
    <3>2. ASSUME Len(s2) - 1 <= Len(s1) - at, NEW k \in 1 .. Len(s2) - 1
          PROVE  r[k] = s1[at + k] /\ t[k] = s2[k + 1]
      <4>1. k \in 1 .. Len(s1) - at
        BY <2>1, <3>2
      <4> QED
        BY <2>2, <2>3, <2>4, <2>5, <4>1
    <3> QED
      BY <3>1, <3>2 DEF Begins
  <2>8. ASSUME Cased(how, s1[at]) = Cased(how, s2[1]), Begins(how, r, t)
        PROVE  StandsAt(how, s1, s2, at)
    <3>1. at + Len(s2) - 1 <= Len(s1)
      BY <2>1, <2>7, <2>8
    <3>2. ASSUME NEW k \in 1 .. Len(s2) PROVE Cased(how, s1[at + k - 1]) = Cased(how, s2[k])
      <4>1. CASE k = 1
        <5>1. at + k - 1 = at
          BY <2>1, <4>1
        <5> QED
          BY <2>8, <4>1, <5>1
      <4>2. CASE k > 1
        <5>1. k - 1 \in 1 .. Len(s2) - 1 /\ at + (k - 1) = at + k - 1 /\ (k - 1) + 1 = k
          BY <2>1, <4>2
        <5> QED
          BY <2>7, <2>8, <5>1
      <4> QED
        BY <4>1, <4>2
    <3> QED
      BY <3>1, <3>2 DEF StandsAt
  <2>9. ASSUME StandsAt(how, s1, s2, at)
        PROVE  Cased(how, s1[at]) = Cased(how, s2[1]) /\ Begins(how, r, t)
    <3>1. /\ Len(s2) - 1 <= Len(s1) - at
          /\ \A k \in 1 .. Len(s2) : Cased(how, s1[at + k - 1]) = Cased(how, s2[k])
      BY <2>1, <2>9 DEF StandsAt
    <3>2. 1 \in 1 .. Len(s2) /\ at + 1 - 1 = at
      BY <2>1
    <3>3. Cased(how, s1[at]) = Cased(how, s2[1])
      BY <3>1, <3>2
    <3>4. ASSUME NEW k \in 1 .. Len(s2) - 1 PROVE Cased(how, s1[at + k]) = Cased(how, s2[k + 1])
      <4>1. k + 1 \in 1 .. Len(s2) /\ at + (k + 1) - 1 = at + k
        BY <2>1
      <4> QED
        BY <3>1, <4>1
    <3> QED
      BY <2>7, <3>1, <3>3, <3>4
  <2> QED
    BY <2>3, <2>4, <2>5, <2>6, <2>8, <2>9
<1>3. places = {at \in 1 .. end : StandsAt(how, s1, s2, at)}
  BY <1>2
<1> QED
  BY <1>1, <1>3 DEF PlacesOf

\* Where a word stands, the text reads as the word.
LEMMA FirstPlaceFacts ==
  ASSUME NEW how \in Ways, NEW s1 \in WordTexts, NEW s2 \in WordTexts, s2 # << >>,
         NEW last \in Int, last <= Len(s1), NEW x \in WordTexts, NEW y \in WordTexts,
         Len(x) = Len(s1), Len(y) = Len(s2),
         \A i \in 1 .. Len(s1) : x[i] = Cased(how, s1[i]),
         \A i \in 1 .. Len(s2) : y[i] = Cased(how, s2[i]),
         NEW to \in Int, to = last - Len(s2) + 1
  PROVE  FirstPlace(x, y, last) =
           First(PlacesOf(how, s1, s2, to))
<1>1. Len(s1) \in Nat /\ Len(s2) \in Nat /\ Len(s2) >= 1
  BY DEF WordTexts
<1>2. ASSUME NEW at \in 1 .. last - Len(s2) + 1
      PROVE  SubSeq(x, at, at + Len(y) - 1) = y <=> StandsAt(how, s1, s2, at)
  <2>1. at \in 1 .. Len(s1) /\ at + Len(s2) - 1 \in 1 .. Len(s1) /\ at \in Nat
    BY <1>1
  <2>2. PICK z : z = SubSeq(x, at, at + Len(y) - 1)
    OBVIOUS
  <2>3. z \in WordTexts /\ Len(z) = Len(s2) /\ \A k \in 1 .. Len(s2) : z[k] = x[at + k - 1]
    BY <1>1, <2>1, <2>2 DEF WordTexts
  <2>4. z = y <=> \A k \in 1 .. Len(s2) : z[k] = y[k]
    <3>1. \A q \in WordTexts : q = [k \in 1 .. Len(q) |-> q[k]]
      BY DEF WordTexts
    <3>2. z = [k \in 1 .. Len(s2) |-> z[k]] /\ y = [k \in 1 .. Len(s2) |-> y[k]]
      BY <2>3, <3>1
    <3> QED
      BY <3>2
  <2>5. \A k \in 1 .. Len(s2) : z[k] = Cased(how, s1[at + k - 1]) /\ y[k] = Cased(how, s2[k])
    <3> TAKE k \in 1 .. Len(s2)
    <3>1. at + k - 1 \in 1 .. Len(s1)
      BY <1>1, <2>1
    <3> QED
      BY <2>3, <3>1
  <2>6. at + Len(s2) - 1 <= Len(s1)
    BY <1>1
  <2>7. StandsAt(how, s1, s2, at) <=> \A k \in 1 .. Len(s2) : z[k] = y[k]
    BY <2>5, <2>6 DEF StandsAt
  <2> QED
    BY <2>2, <2>4, <2>7
<1>3. {i \in 1 .. last - Len(y) + 1 : SubSeq(x, i, i + Len(y) - 1) = y}
        = {at \in 1 .. last - Len(s2) + 1 : StandsAt(how, s1, s2, at)}
  BY <1>2
<1> QED
  BY <1>3 DEF FirstPlace, First, PlacesOf

\* Up to its end, a word has no NUL.
LEMMA NoNul ==
  ASSUME NEW s \in WordTexts
  PROVE  Strnlen(s, Len(s)) = Len(s)
<1>1. \A i \in 1 .. Len(s) : CharAt(s, i) # 0
  <2> TAKE i \in 1 .. Len(s)
  <2>1. i \in DOMAIN s /\ s[i] \in Bytes
    BY DEF WordTexts
  <2>2. CharAt(s, i) = s[i]
    BY <2>1 DEF CharAt
  <2> QED
    BY <2>1, <2>2, ByteFacts
<1>2. {i \in 1 .. Len(s) : CharAt(s, i) = 0} = {}
  BY <1>1
<1> QED
  BY <1>2 DEF Strnlen

\* A word in lower case.
LEMMA FoldedFacts ==
  ASSUME NEW s \in WordTexts
  PROVE  /\ Folded(s) \in WordTexts /\ Len(Folded(s)) = Len(s)
         /\ \A i \in 1 .. Len(s) : Folded(s)[i] = Cased("folded", s[i])
<1>1. Len(s) \in Nat /\ \A i \in 1 .. Len(s) : s[i] \in Bytes
  BY DEF WordTexts
<1>2. \A c \in Bytes : Lower(c) \in Bytes
  BY DEF Bytes, Lower
<1>3. Folded(s) = [i \in 1 .. Len(s) |-> Lower(s[i])]
  BY DEF Folded, Strlow
<1>4. Folded(s) \in Seq(Bytes)
  BY <1>1, <1>2, <1>3
<1> QED
  BY <1>1, <1>3, <1>4 DEF WordTexts, Cased

\* The places the four searches look at are those where the word has room.
LEMMA SearchesFindFirst ==
  ASSUME NEW s1 \in WordTexts, NEW s2 \in WordTexts, s2 # << >>, NEW len \in Nat
  PROVE  /\ Strstrn(s1, s2) = FirstPlace(s1, s2, Len(s1))
         /\ Strnstr(s1, s2, len) = FirstPlace(s1, s2, Min({len, Len(s1)}))
         /\ s2[1] < 128 => Strcasestrn(s1, s2) = FirstPlace(Folded(s1), Folded(s2), Len(s1))
         /\ Strlcasestrn(s1, s2) = FirstPlace(Folded(s1), Folded(s2), Len(s1))
<1>1. Len(s1) \in Nat /\ Len(s2) \in Nat /\ Len(s2) >= 1 /\ Strnlen(s1, Len(s1)) = Len(s1)
  BY NoNul DEF WordTexts
<1> DEFINE Found(how, n) == PlacesOf(how, s1, s2, n)
<1>2. \A n \in Int : n <= Len(s1) => /\ Searched(s1, s2, n, FALSE) = First(Found("cased", n))
                                   /\ Searched(s1, s2, n, TRUE) = First(Found("folded", n))
  BY SearchedFacts DEF Ways
<1>3. \A n \in Int : n <= Len(s1) => FirstPlace(s1, s2, n) = First(Found("cased", n - Len(s2) + 1))
  <2>1. \A i : s1[i] = Cased("cased", s1[i]) /\ s2[i] = Cased("cased", s2[i])
    BY DEF Cased
  <2> TAKE n \in Int
  <2> HAVE n <= Len(s1)
  <2> HIDE DEF Found
  <2>2. PICK to \in Int : to = n - Len(s2) + 1
    BY <1>1
  <2>3. FirstPlace(s1, s2, n) = First(PlacesOf("cased", s1, s2, to))
    BY <2>1, <2>2, FirstPlaceFacts DEF Ways
  <2> QED
    BY <2>2, <2>3 DEF Found
<1>4. \A n \in Int : n <= Len(s1) =>
        FirstPlace(Folded(s1), Folded(s2), n) = First(Found("folded", n - Len(s2) + 1))
  <2> TAKE n \in Int
  <2> HAVE n <= Len(s1)
  <2>1. PICK x \in WordTexts : /\ x = Folded(s1) /\ Len(x) = Len(s1)
                               /\ \A i \in 1 .. Len(s1) : x[i] = Cased("folded", s1[i])
    BY FoldedFacts
  <2>2. PICK y \in WordTexts : /\ y = Folded(s2) /\ Len(y) = Len(s2)
                               /\ \A i \in 1 .. Len(s2) : y[i] = Cased("folded", s2[i])
    BY FoldedFacts
  <2> HIDE DEF Found
  <2>3. n - Len(s2) + 1 \in Int
    BY <1>1
  <2>4. PICK to \in Int : to = n - Len(s2) + 1
    BY <2>3
  <2>5. "folded" \in Ways /\ Len(x) = Len(s1) /\ Len(y) = Len(s2)
    BY <2>1, <2>2 DEF Ways
  <2>6. FirstPlace(x, y, n) = First(PlacesOf("folded", s1, s2, to))
    BY <2>1, <2>2, <2>4, <2>5, FirstPlaceFacts
  <2> QED
    BY <2>1, <2>2, <2>4, <2>6 DEF Found
<1>5. \A how \in Ways : Found(how, Len(s1)) = Found(how, Len(s1) - Len(s2) + 1)
  BY <1>1 DEF StandsAt, PlacesOf
<1>6. PICK m \in Nat : m = Min({len, Len(s1)}) /\ m <= Len(s1) /\ m <= len /\ (m = len \/ m = Len(s1))
  <2>1. len \in Int /\ Len(s1) \in Int
    BY <1>1
  <2>2. Min({len, Len(s1)}) = IF len <= Len(s1) THEN len ELSE Len(s1)
    BY <2>1, OfTwo
  <2> QED
    BY <1>1, <2>1, <2>2
<1>7. PICK n \in Int : /\ n = Min({len - (Len(s2) - 1), Len(s1)})
                       /\ n <= Len(s1) /\ n <= len - (Len(s2) - 1)
                       /\ n = len - (Len(s2) - 1) \/ n = Len(s1)
  <2>1. len - (Len(s2) - 1) \in Int /\ Len(s1) \in Int
    BY <1>1
  <2>2. Min({len - (Len(s2) - 1), Len(s1)})
          = IF len - (Len(s2) - 1) <= Len(s1) THEN len - (Len(s2) - 1) ELSE Len(s1)
    BY <2>1, OfTwo
  <2> QED
    BY <2>1, <2>2
<1>8. Found("cased", n) = Found("cased", m - Len(s2) + 1)
  <2>1. \A at \in Nat : at + Len(s2) - 1 <= Len(s1) => (at <= n <=> at <= m - Len(s2) + 1)
    BY <1>1, <1>6, <1>7
  <2>2. \A at : at \in Found("cased", n) <=> at \in Found("cased", m - Len(s2) + 1)
    BY <1>1, <1>6, <1>7, <2>1 DEF StandsAt, PlacesOf
  <2> HIDE DEF Found
  <2>3. Found("cased", n) \subseteq Found("cased", m - Len(s2) + 1) /\ Found("cased", m - Len(s2) + 1) \subseteq Found("cased", n)
    BY <2>2
  <2> QED
    BY <2>3
<1>9. Len(s1) \in Int /\ m \in Int /\ Len(s1) - (Len(s2) - 1) \in Int
      /\ Len(s1) - (Len(s2) - 1) <= Len(s1) /\ Len(s1) - (Len(s2) - 1) = Len(s1) - Len(s2) + 1
  BY <1>1
<1> HIDE DEF Found
<1>10. Strstrn(s1, s2) = FirstPlace(s1, s2, Len(s1))
  <2>0. PICK l \in Int : l = Len(s1) /\ l <= Len(s1)
    BY <1>9
  <2>1. Strstrn(s1, s2) = First(Found("cased", Len(s1)))
    <3>1. Strstrn(s1, s2) = Searched(s1, s2, l, FALSE)
      BY <1>1, <2>0 DEF Strstrn
    <3> QED
      BY <1>2, <2>0, <3>1
  <2>2. FirstPlace(s1, s2, Len(s1)) = First(Found("cased", Len(s1) - Len(s2) + 1))
    BY <1>1, <1>3, <1>9
  <2> QED
    BY <1>5, <2>1, <2>2 DEF Ways
<1>11. Strnstr(s1, s2, len) = FirstPlace(s1, s2, Min({len, Len(s1)}))
  <2>1. Strnstr(s1, s2, len) = Searched(s1, s2, n, FALSE)
    BY <1>1, <1>7 DEF Strnstr
  <2>2. FirstPlace(s1, s2, m) = First(Found("cased", m - Len(s2) + 1))
    BY <1>3, <1>6, <1>9
  <2> QED
    BY <1>2, <1>6, <1>7, <1>8, <2>1, <2>2
<1>12. ASSUME s2[1] < 128 PROVE Strcasestrn(s1, s2) = FirstPlace(Folded(s1), Folded(s2), Len(s1))
  <2>1. 1 \in 1 .. Len(s2) /\ s2[1] \in Bytes
    BY <1>1 DEF WordTexts
  <2>2. ~ (s2[1] >= 128)
    BY <1>12, <2>1, ByteFacts
  <2>0. PICK l \in Int : l = Len(s1) /\ l <= Len(s1)
    BY <1>9
  <2>3. Strcasestrn(s1, s2) = First(Found("folded", Len(s1)))
    <3>1. Strcasestrn(s1, s2) = Searched(s1, s2, l, TRUE)
      BY <1>1, <2>0, <2>2 DEF Strcasestrn
    <3> QED
      BY <1>2, <2>0, <3>1
  <2>4. FirstPlace(Folded(s1), Folded(s2), Len(s1)) = First(Found("folded", Len(s1) - Len(s2) + 1))
    BY <1>4, <1>9
  <2> QED
    BY <1>5, <2>3, <2>4 DEF Ways
<1>13. Strlcasestrn(s1, s2) = FirstPlace(Folded(s1), Folded(s2), Len(s1))
  <2>1. PICK l \in Int : /\ l = Len(s1) - (Len(s2) - 1)
                         /\ l <= Len(s1) /\ l = Len(s1) - Len(s2) + 1
    BY <1>9
  <2>2. Strlcasestrn(s1, s2) = First(Found("folded", l))
    BY <1>2, <2>1 DEF Strlcasestrn
  <2>3. FirstPlace(Folded(s1), Folded(s2), Len(s1)) = First(Found("folded", l))
    BY <1>4, <1>9, <2>1
  <2> QED
    BY <2>2, <2>3
<1> QED
  BY <1>10, <1>11, <1>12, <1>13

\* What a program called.
LEMMA CallsMade ==
  /\ PrintText => call'.fn = "print"
  /\ Parse => call'.fn = "parse"
  /\ Compare => call'.fn = "compare"
  /\ Search => call'.fn = "search"
  /\ SortWords => call'.fn = "sort"
  /\ CopyWord => call'.fn = "copy"
  /\ Encode => call'.fn = "encode"
  /\ Decode => call'.fn = "decode"
  /\ ReadUtf8 => call'.fn = "utf8"
  /\ Return => call'.fn = "idle"
<1>1. PrintText => call'.fn = "print"
  BY DEF PrintText, Calls
<1>2. Parse => call'.fn = "parse"
  BY DEF Parse, Calls
<1>3. Compare => call'.fn = "compare"
  BY DEF Compare, Calls
<1>4. Search => call'.fn = "search"
  BY DEF Search, Calls
<1>5. SortWords => call'.fn = "sort"
  BY DEF SortWords, Calls
<1>6. CopyWord => call'.fn = "copy"
  BY DEF CopyWord, Calls
<1>7. Encode => call'.fn = "encode"
  BY DEF Encode, Calls
<1>8. Decode => call'.fn = "decode"
  BY DEF Decode, Calls
<1>9. ReadUtf8 => call'.fn = "utf8"
  BY DEF ReadUtf8, Calls
<1>10. Return => call'.fn = "idle"
  BY DEF Return, Idle
<1> QED
  BY <1>1, <1>2, <1>3, <1>4, <1>5, <1>6, <1>7, <1>8, <1>9, <1>10

(***************************************************************************)
(* FindsFirst: a search returns the first place where the word stands,     *)
(* within the length it was given.                                         *)
(***************************************************************************)
THEOREM SearchesFindTheFirst == Spec => []FindsFirst
<1>1. Init => FindsFirst
  BY DEF Init, Idle, FindsFirst
<1>2. FindsFirst /\ [Next]_vars => FindsFirst'
  <2> SUFFICES ASSUME FindsFirst, [Next]_vars PROVE FindsFirst'
    OBVIOUS
  <2>1. CASE Search
    <3>1. PICK s1 \in Words \ {<< >>}, s2 \in Words \ {<< >>}, len \in Rooms :
            Calls([fn |-> "search", s1 |-> s1, s2 |-> s2, len |-> len],
                  [strnstr |-> Strnstr(s1, s2, len), strstrn |-> Strstrn(s1, s2),
                   strcasestrn |-> Strcasestrn(s1, s2), strlcasestrn |-> Strlcasestrn(s1, s2)])
      BY <2>1 DEF Search
    <3>2. s1 \in WordTexts /\ s2 \in WordTexts /\ s2 # << >> /\ len \in Nat
      BY <3>1, InputsAssumption DEF WordTexts, Bytes
    <3>3. call'.s1 = s1 /\ call'.s2 = s2 /\ call'.len = len
      BY <3>1 DEF Calls
    <3>4. /\ result'.strstrn = Strstrn(s1, s2) /\ result'.strnstr = Strnstr(s1, s2, len)
          /\ result'.strcasestrn = Strcasestrn(s1, s2)
          /\ result'.strlcasestrn = Strlcasestrn(s1, s2)
      BY <3>1 DEF Calls
    <3> QED
      BY <3>2, <3>3, <3>4, SearchesFindFirst DEF FindsFirst
  <2>2. CASE PrintText \/ Parse \/ Compare \/ SortWords \/ CopyWord \/ Encode \/ Decode \/ ReadUtf8 \/ Return
    <3>1. call'.fn # "search"
      BY <2>2, CallsMade
    <3> QED
      BY <3>1 DEF FindsFirst
  <2>3. CASE UNCHANGED vars
    BY <2>3 DEF FindsFirst, vars
  <2> QED
    BY <2>1, <2>2, <2>3 DEF Next
<1> QED
  BY <1>1, <1>2, PTL DEF Spec
-----------------------------------------------------------------------------
(***************************************************************************)
(* An order of ranks: of two lists of ranks that never end, the first      *)
(* place where they differ decides.                                        *)
(***************************************************************************)
Places == Nat \ {0}
Ranks == [Places -> Nat]

Agree(x, y, n) == \A j \in 1 .. n : x[j] = y[j]
Below(x, y) == \E i \in Places : Agree(x, y, i - 1) /\ x[i] < y[i]
AtMost(x, y) == x = y \/ Below(x, y)

\* Lists of ranks that differ first differ at some place.
LEMMA DifferFirst ==
  ASSUME NEW x \in Ranks, NEW y \in Ranks, x # y
  PROVE  \E i \in Places : Agree(x, y, i - 1) /\ x[i] # y[i]
<1> DEFINE T == {j \in Places : x[j] # y[j]}
<1>1. T \subseteq Nat /\ T # {}
  <2>1. x = [j \in Places |-> x[j]] /\ y = [j \in Places |-> y[j]]
    BY DEF Ranks
  <2>2. \E j \in Places : x[j] # y[j]
    BY <2>1
  <2> QED
    BY <2>2 DEF Places
<1>2. PICK i \in T : \A j \in T : i <= j
  <2> HIDE DEF T
  <2> QED
    BY <1>1, LeastElement
<1>3. i \in Places /\ x[i] # y[i]
  OBVIOUS
<1>4. ASSUME NEW j \in 1 .. i - 1 PROVE x[j] = y[j]
  <2>1. j \in Places /\ ~ (i <= j)
    BY <1>3 DEF Places
  <2> QED
    BY <1>2, <2>1
<1> QED
  BY <1>3, <1>4 DEF Agree

\* Of two lists one is at most the other.
LEMMA OrderTotal ==
  ASSUME NEW x \in Ranks, NEW y \in Ranks
  PROVE  AtMost(x, y) \/ AtMost(y, x)
<1> SUFFICES ASSUME x # y PROVE Below(x, y) \/ Below(y, x)
  BY DEF AtMost
<1>1. PICK i \in Places : Agree(x, y, i - 1) /\ x[i] # y[i]
  BY DifferFirst
<1>2. Agree(y, x, i - 1)
  BY <1>1 DEF Agree
<1>3. x[i] < y[i] \/ y[i] < x[i]
  BY <1>1 DEF Ranks
<1> QED
  BY <1>1, <1>2, <1>3 DEF Below

\* Where lists that are in order agree, the next ranks are in order.
LEMMA OrderedThere ==
  ASSUME NEW x \in Ranks, NEW y \in Ranks, AtMost(x, y), NEW i \in Places, Agree(x, y, i - 1)
  PROVE  x[i] <= y[i]
<1>1. x[i] \in Nat /\ y[i] \in Nat
  BY DEF Ranks
<1>2. CASE x = y
  BY <1>1, <1>2
<1>3. CASE Below(x, y)
  <2>1. PICK k \in Places : Agree(x, y, k - 1) /\ x[k] < y[k]
    BY <1>3 DEF Below
  <2>2. x[k] \in Nat /\ y[k] \in Nat
    BY DEF Ranks
  <2>3. CASE k < i
    <3>1. k \in 1 .. i - 1
      BY <2>3 DEF Places
    <3> QED
      BY <2>1, <2>2, <3>1 DEF Agree
  <2>4. CASE k = i
    BY <1>1, <2>1, <2>4
  <2>5. CASE k > i
    <3>1. i \in 1 .. k - 1
      BY <2>5 DEF Places
    <3> QED
      BY <1>1, <2>1, <3>1 DEF Agree
  <2> QED
    BY <2>3, <2>4, <2>5 DEF Places
<1> QED
  BY <1>2, <1>3 DEF AtMost

\* What lies between two lists that agree agrees with them.
LEMMA Between ==
  ASSUME NEW x \in Ranks, NEW y \in Ranks, NEW z \in Ranks, AtMost(x, y), AtMost(y, z),
         NEW n \in Nat, Agree(x, z, n)
  PROVE  Agree(x, y, n)
<1> SUFFICES ASSUME ~ Agree(x, y, n) PROVE FALSE
  OBVIOUS
<1>1. x # y
  BY DEF Agree
<1>2. PICK i \in Places : Agree(x, y, i - 1) /\ x[i] # y[i]
  BY <1>1, DifferFirst
<1>3. i <= n
  <2> SUFFICES ASSUME i > n PROVE FALSE
    BY DEF Places
  <2>1. \A j \in 1 .. n : j \in 1 .. i - 1
    BY DEF Places
  <2> QED
    BY <1>2, <2>1 DEF Agree
<1>4. x[i] = z[i] /\ Agree(y, z, i - 1)
  <2>1. i \in 1 .. n /\ \A j \in 1 .. i - 1 : j \in 1 .. n
    BY <1>3 DEF Places
  <2> QED
    BY <1>2, <2>1 DEF Agree
<1>5. x[i] <= y[i] /\ y[i] <= z[i]
  BY <1>2, <1>4, OrderedThere
<1>6. x[i] \in Nat /\ y[i] \in Nat
  BY DEF Ranks
<1> QED
  BY <1>2, <1>4, <1>5, <1>6

\* Being in order is transitive.
LEMMA OrderTransitive ==
  ASSUME NEW x \in Ranks, NEW y \in Ranks, NEW z \in Ranks, AtMost(x, y), AtMost(y, z)
  PROVE  AtMost(x, z)
<1> SUFFICES ASSUME x # z, ~ Below(x, z) PROVE FALSE
  BY DEF AtMost
<1>1. PICK i \in Places : Agree(x, z, i - 1) /\ x[i] # z[i]
  BY DifferFirst
<1>2. i - 1 \in Nat
  BY DEF Places
<1>3. Agree(x, y, i - 1)
  BY <1>1, <1>2, Between
<1>4. Agree(y, z, i - 1)
  BY <1>1, <1>3 DEF Agree
<1>5. x[i] <= y[i] /\ y[i] <= z[i]
  BY <1>3, <1>4, OrderedThere
<1>6. x[i] \in Nat /\ y[i] \in Nat /\ z[i] \in Nat
  BY DEF Ranks
<1>7. x[i] < z[i]
  BY <1>1, <1>5, <1>6
<1> QED
  BY <1>1, <1>7 DEF Below

-----------------------------------------------------------------------------
(***************************************************************************)
(* The ranks of the characters of a word for each function that orders     *)
(* words: the end is lowest, then the dot of a name or the slash of a path. *)
(***************************************************************************)
Rank(how, c) ==
  CASE how = "strcasecmp" -> Lower(c)
    [] how = "dns" -> IF c = 46 THEN 32 ELSE Lower(c)
    [] how = "filename" -> IF c = 0 THEN 0 ELSE IF c = 47 THEN 1 ELSE c + 1
    [] how = "memn2" -> c

RanksOf(how, s) == [i \in Places |-> Rank(how, CharAt(s, i))]

\* What rap_dns_strcmp orders.
Named == {w \in WordTexts : ToSet(w) \cap 1 .. 32 = {}}

Ordered(how) == IF how = "dns" THEN Named ELSE WordTexts

Characters == 0 .. 255

\* The characters of a word, and their ranks.
LEMMA RankFacts ==
  ASSUME NEW how \in Orders, NEW s \in WordTexts
  PROVE  /\ RanksOf(how, s) \in Ranks /\ Len(s) \in Nat
         /\ \A i \in Places : /\ CharAt(s, i) \in Characters
                              /\ RanksOf(how, s)[i] = Rank(how, CharAt(s, i))
                              /\ CharAt(s, i) = 0 <=> i > Len(s)
                              /\ how = "dns" /\ s \in Named => CharAt(s, i) \notin 1 .. 32
<1>1. Len(s) \in Nat /\ DOMAIN s = 1 .. Len(s) /\ \A i \in 1 .. Len(s) : s[i] \in Bytes
  BY DEF WordTexts
<1>2. ASSUME NEW i \in Places
      PROVE  /\ CharAt(s, i) \in Characters /\ (CharAt(s, i) = 0 <=> i > Len(s))
             /\ s \in Named => CharAt(s, i) \notin 1 .. 32
  <2>1. CASE i \in 1 .. Len(s)
    <3>1. CharAt(s, i) = s[i] /\ s[i] \in Bytes
      BY <1>1, <2>1 DEF CharAt
    <3>2. s \in Named => s[i] \notin 1 .. 32
      <4>1. s[i] \in ToSet(s)
        BY <1>1, <2>1 DEF ToSet
      <4> QED
        BY <4>1 DEF Named
    <3>3. \A c \in Bytes : c \in Characters /\ c # 0
      BY DEF Bytes, Characters
    <3>4. ~ (i > Len(s))
      BY <1>1, <2>1
    <3> QED
      BY <3>1, <3>2, <3>3, <3>4
  <2>2. CASE i > Len(s)
    <3>1. CharAt(s, i) = 0
      BY <1>1, <2>2 DEF CharAt
    <3> QED
      BY <2>2, <3>1 DEF Characters
  <2> QED
    BY <1>1, <2>1, <2>2 DEF Places
<1>3. \A c \in Characters : Rank(how, c) \in Nat
  BY DEF Orders, Rank, Characters, Lower
<1>4. RanksOf(how, s) \in Ranks
  BY <1>2, <1>3 DEF RanksOf, Ranks
<1> QED
  BY <1>1, <1>2, <1>4 DEF RanksOf

\* The first place where two lists differ, and that it decides.
FirstOf(x, y) == CHOOSE i \in Places : Agree(x, y, i - 1) /\ x[i] # y[i]

LEMMA FirstOfFacts ==
  ASSUME NEW x \in Ranks, NEW y \in Ranks, x # y
  PROVE  /\ FirstOf(x, y) \in Places /\ Agree(x, y, FirstOf(x, y) - 1)
         /\ x[FirstOf(x, y)] # y[FirstOf(x, y)]
         /\ FirstOf(y, x) = FirstOf(x, y)
         /\ \A i \in Places : Agree(x, y, i - 1) /\ x[i] # y[i] => i = FirstOf(x, y)
         /\ AtMost(x, y) <=> x[FirstOf(x, y)] < y[FirstOf(x, y)]
<1>1. \A u, v \in Ranks : u # v => /\ FirstOf(u, v) \in Places
                                   /\ Agree(u, v, FirstOf(u, v) - 1)
                                   /\ u[FirstOf(u, v)] # v[FirstOf(u, v)]
  BY DifferFirst DEF FirstOf
<1>2. PICK f \in Places : f = FirstOf(x, y) /\ Agree(x, y, f - 1) /\ x[f] # y[f]
  BY <1>1
<1>3. ASSUME NEW i \in Places, Agree(x, y, i - 1), x[i] # y[i] PROVE i = f
  <2>1. ~ (i < f)
    <3> SUFFICES ASSUME i < f PROVE FALSE
      OBVIOUS
    <3>1. i \in 1 .. f - 1
      BY DEF Places
    <3> QED
      BY <1>2, <1>3, <3>1 DEF Agree
  <2>2. ~ (f < i)
    <3> SUFFICES ASSUME f < i PROVE FALSE
      OBVIOUS
    <3>1. f \in 1 .. i - 1
      BY DEF Places
    <3> QED
      BY <1>2, <1>3, <3>1 DEF Agree
  <2> QED
    BY <2>1, <2>2 DEF Places
<1>4. PICK g \in Places : g = FirstOf(y, x) /\ Agree(y, x, g - 1) /\ y[g] # x[g]
  BY <1>1
<1>5. g = f
  <2>1. Agree(x, y, g - 1)
    BY <1>4 DEF Agree
  <2> QED
    BY <1>3, <1>4, <2>1
<1>6. AtMost(x, y) <=> x[f] < y[f]
  <2>1. x[f] \in Nat /\ y[f] \in Nat
    BY DEF Ranks
  <2>2. AtMost(x, y) => x[f] <= y[f]
    BY <1>2, OrderedThere
  <2>3. x[f] < y[f] => Below(x, y)
    BY <1>2 DEF Below
  <2> QED
    BY <1>2, <2>1, <2>2, <2>3 DEF AtMost
<1> QED
  BY <1>2, <1>3, <1>4, <1>5, <1>6

(***************************************************************************)
(* The loop of the comparing functions, on the ranks of the characters: it *)
(* ends where they first differ, or where both words end.                  *)
(***************************************************************************)
LEMMA LoopBound ==
  ASSUME NEW m \in Nat, NEW n \in Nat
  PROVE  /\ Min({m + n + 1, Max({m, n}) + 1}) \in Nat
         /\ Min({m + n + 1, Max({m, n}) + 1}) > m /\ Min({m + n + 1, Max({m, n}) + 1}) > n
<1>1. PICK k \in Nat : k = Max({m, n}) /\ k >= m /\ k >= n /\ (k = m \/ k = n)
  BY OfTwo
<1>2. PICK p \in Int : p = m + n + 1
  OBVIOUS
<1>3. PICK q \in Int : q = k + 1
  OBVIOUS
<1>4. Min({p, q}) = q
  <2>1. q <= p
    BY <1>1, <1>2, <1>3
  <2>2. Min({p, q}) = IF p <= q THEN p ELSE q
    BY OfTwo
  <2> QED
    BY <2>1, <2>2
<1>5. Min({m + n + 1, Max({m, n}) + 1}) = q
  BY <1>1, <1>2, <1>3, <1>4
<1> QED
  BY <1>1, <1>3, <1>5

\* The places where the loop over two words of lengths m and n stops.
Loop(x, y, m, n, last, ends) ==
  /\ x \in Ranks /\ y \in Ranks /\ m \in Nat /\ n \in Nat /\ last \in Nat /\ last > m /\ last > n
  /\ \A i \in Places : (x[i] = 0 <=> i > m) /\ (y[i] = 0 <=> i > n)
  /\ ends \in SUBSET (1 .. last) /\ \A i \in 1 .. last : i \in ends <=> x[i] # y[i] \/ x[i] = 0

LEMMA LoopEnds ==
  ASSUME NEW x, NEW y, NEW m, NEW n, NEW last, NEW ends, Loop(x, y, m, n, last, ends)
  PROVE  /\ ends # {} /\ Min(ends) \in Places /\ Min(ends) \in ends
         /\ x = y => x[Min(ends)] = y[Min(ends)]
         /\ x # y => Min(ends) = FirstOf(x, y) /\ x[Min(ends)] # y[Min(ends)]
<1> USE DEF Loop
<1>1. \A i \in 1 .. last : i \in Places
  BY DEF Places
<1>2. last \in 1 .. last /\ x[last] = 0 /\ ends \subseteq Nat /\ ends # {}
  <2>1. last \in 1 .. last
    OBVIOUS
  <2> QED
    BY <1>1, <2>1
<1>3. PICK e \in ends : e = Min(ends) /\ \A j \in ends : e <= j
  BY <1>2, MinFacts
<1>4. e \in 1 .. last /\ e \in Places /\ (x[e] # y[e] \/ x[e] = 0)
  BY <1>1, <1>3
<1>5. Agree(x, y, e - 1)
  <2> SUFFICES ASSUME NEW j \in 1 .. e - 1 PROVE x[j] = y[j]
    BY DEF Agree
  <2>1. j \in 1 .. last /\ ~ (e <= j)
    BY <1>4
  <2>2. j \notin ends
    BY <1>3, <2>1
  <2> QED
    BY <2>1, <2>2
<1>6. ASSUME x[e] = y[e] PROVE x = y
  <2>1. e > m /\ e > n
    BY <1>4, <1>6
  <2>2. ASSUME NEW j \in Places PROVE x[j] = y[j]
    <3>1. CASE j < e
      <4>1. j \in 1 .. e - 1
        BY <1>4, <3>1 DEF Places
      <4> QED
        BY <1>5, <4>1 DEF Agree
    <3>2. CASE j >= e
      <4>1. j > m /\ j > n
        BY <1>4, <2>1, <3>2 DEF Places
      <4> QED
        BY <4>1
    <3> QED
      BY <1>4, <3>1, <3>2 DEF Places
  <2>3. x = [j \in Places |-> x[j]] /\ y = [j \in Places |-> y[j]]
    BY DEF Ranks
  <2> QED
    BY <2>2, <2>3
<1>7. x # y => e = FirstOf(x, y)
  BY <1>4, <1>5, <1>6, FirstOfFacts
<1> QED
  BY <1>2, <1>3, <1>4, <1>6, <1>7

-----------------------------------------------------------------------------
(***************************************************************************)
(* What the functions do with two characters: the images they compare, and *)
(* how two images that differ decide.                                      *)
(***************************************************************************)
ImageOf(how, c) == IF how = "filename" THEN c ELSE Lower(c)

Decides(how, c1, c2) ==
  CASE how = "strcasecmp" -> Minus(c1, c2)
    [] how = "dns" -> DnsMinus(c1, c2)
    [] how = "filename" -> FilenameMinus(c1, c2)

Looping == {"strcasecmp", "dns", "filename"}

Compares(how, s, t) ==
  CASE how = "strcasecmp" -> Strcasecmp(s, t)
    [] how = "dns" -> DnsStrcmp(s, t)
    [] how = "filename" -> FilenameCmp(s, t, Whole(s, t))
    [] how = "memn2" -> Memn2cmp(s, t)

\* Two characters compare as their ranks do.
LEMMA CharactersDecide ==
  ASSUME NEW how \in Looping, NEW c1 \in Characters, NEW c2 \in Characters,
         how = "dns" => c1 \notin 1 .. 32 /\ c2 \notin 1 .. 32
  PROVE  /\ ImageOf(how, c1) = ImageOf(how, c2) <=> Rank(how, c1) = Rank(how, c2)
         /\ ImageOf(how, c1) = 0 <=> Rank(how, c1) = 0
         /\ Rank(how, c1) = 0 <=> c1 = 0
         /\ Decides(how, ImageOf(how, c1), ImageOf(how, c2)) \in Int
         /\ Decides(how, ImageOf(how, c1), ImageOf(how, c2)) < 0 <=> Rank(how, c1) < Rank(how, c2)
         /\ Decides(how, ImageOf(how, c1), ImageOf(how, c2)) = 0 <=> Rank(how, c1) = Rank(how, c2)
<1>1. CASE how = "strcasecmp"
  <2>1. \A c : ImageOf(how, c) = Lower(c) /\ Rank(how, c) = Lower(c)
    BY <1>1 DEF ImageOf, Rank
  <2>2. \A a, b : Decides(how, a, b) = a - b
    BY <1>1 DEF Decides, Minus
  <2>3. \A c \in Characters : Lower(c) \in Nat /\ (Lower(c) = 0 <=> c = 0)
    BY DEF Characters, Lower
  <2> QED
    BY <2>1, <2>2, <2>3
<1>2. CASE how = "dns"
  <2>1. \A c : ImageOf(how, c) = Lower(c) /\ Rank(how, c) = IF c = 46 THEN 32 ELSE Lower(c)
    BY <1>2 DEF ImageOf, Rank
  <2>2. \A a, b : Decides(how, a, b) = (IF a = 46 THEN 32 ELSE a) - (IF b = 46 THEN 32 ELSE b)
    BY <1>2 DEF Decides, DnsMinus
  <2>3. \A c \in Characters : /\ Lower(c) \in Nat /\ (Lower(c) = 0 <=> c = 0)
                              /\ Lower(c) = 46 <=> c = 46
                              /\ Lower(c) = 32 <=> c = 32
    BY DEF Characters, Lower
  <2>4. c1 # 32 /\ c2 # 32
    BY <1>2
  <2>5. PICK a \in Nat, b \in Nat : a = Lower(c1) /\ b = Lower(c2)
    BY <2>3
  <2>6. (a = 46 <=> c1 = 46) /\ (b = 46 <=> c2 = 46) /\ a # 32 /\ b # 32 /\ (a = 0 <=> c1 = 0)
    BY <2>3, <2>4, <2>5
  <2>7. /\ ImageOf(how, c1) = a /\ Rank(how, c1) = IF a = 46 THEN 32 ELSE a
        /\ ImageOf(how, c2) = b /\ Rank(how, c2) = IF b = 46 THEN 32 ELSE b
    BY <2>1, <2>5, <2>6
  <2> QED
    BY <2>2, <2>6, <2>7
<1>3. CASE how = "filename"
  <2>1. \A c : ImageOf(how, c) = c /\ Rank(how, c) = IF c = 0 THEN 0 ELSE IF c = 47 THEN 1 ELSE c + 1
    BY <1>3 DEF ImageOf, Rank
  <2>2. \A a, b : Decides(how, a, b) =
          IF a = 0 \/ b = 0 THEN a - b ELSE (IF a = 47 THEN 0 ELSE a) - (IF b = 47 THEN 0 ELSE b)
    BY <1>3 DEF Decides, FilenameMinus
  <2>3. c1 \in Nat /\ c2 \in Nat
    BY DEF Characters
  <2> QED
    BY <2>1, <2>2, <2>3
<1> QED
  BY <1>1, <1>2, <1>3 DEF Looping

\* The loop of a function that compares two words compares their ranks.
LEMMA LoopCompares ==
  ASSUME NEW how \in Looping, NEW s \in Ordered(how), NEW t \in Ordered(how)
  PROVE  LET x == RanksOf(how, s) y == RanksOf(how, t)
         IN  \E d \in Int : /\ d = Compares(how, s, t)
                            /\ d <= 0 <=> AtMost(x, y)
                            /\ d = 0 <=> x = y
<1>1. s \in WordTexts /\ t \in WordTexts /\ how \in Orders /\ (how = "dns" => s \in Named /\ t \in Named)
  BY DEF Ordered, Named, Looping, Orders
<1> DEFINE x == RanksOf(how, s)
<1> DEFINE y == RanksOf(how, t)
<1> DEFINE last == Min({Whole(s, t), Max({Len(s), Len(t)}) + 1})
<1> DEFINE a(i) == ImageOf(how, CharAt(s, i))
<1> DEFINE b(i) == ImageOf(how, CharAt(t, i))
<1> DEFINE ends == {i \in 1 .. last : a(i) # b(i) \/ a(i) = 0}
<1>2. /\ x \in Ranks /\ y \in Ranks /\ Len(s) \in Nat /\ Len(t) \in Nat
      /\ \A i \in Places : /\ CharAt(s, i) \in Characters /\ CharAt(t, i) \in Characters
                           /\ x[i] = Rank(how, CharAt(s, i)) /\ y[i] = Rank(how, CharAt(t, i))
                           /\ CharAt(s, i) = 0 <=> i > Len(s)
                           /\ CharAt(t, i) = 0 <=> i > Len(t)
                           /\ how = "dns" => CharAt(s, i) \notin 1 .. 32 /\ CharAt(t, i) \notin 1 .. 32
  BY <1>1, RankFacts
<1>3. last \in Nat /\ last > Len(s) /\ last > Len(t)
  BY <1>2, LoopBound DEF Whole
<1>4. Compares(how, s, t) = IF ends = {} THEN 0
                            ELSE IF a(Min(ends)) = b(Min(ends)) THEN 0
                            ELSE Decides(how, a(Min(ends)), b(Min(ends)))
  <2>1. CASE how = "strcasecmp"
    BY <2>1 DEF Compares, Strcasecmp, Compared, ImageOf, Decides
  <2>2. CASE how = "dns"
    BY <2>2 DEF Compares, DnsStrcmp, Compared, ImageOf, Decides
  <2>3. CASE how = "filename"
    BY <2>3 DEF Compares, FilenameCmp, Compared, ImageOf, Decides, Same
  <2> QED
    BY <2>1, <2>2, <2>3 DEF Looping
<1>5. ASSUME NEW i \in Places
      PROVE  /\ a(i) = b(i) <=> x[i] = y[i]
             /\ a(i) = 0 <=> x[i] = 0
             /\ (x[i] = 0 <=> i > Len(s)) /\ (y[i] = 0 <=> i > Len(t))
             /\ Decides(how, a(i), b(i)) \in Int
             /\ Decides(how, a(i), b(i)) < 0 <=> x[i] < y[i]
             /\ Decides(how, a(i), b(i)) = 0 <=> x[i] = y[i]
  <2>1. PICK c1 \in Characters : c1 = CharAt(s, i)
    BY <1>2
  <2>2. PICK c2 \in Characters : c2 = CharAt(t, i)
    BY <1>2
  <2>3. how = "dns" => c1 \notin 1 .. 32 /\ c2 \notin 1 .. 32
    BY <1>2, <2>1, <2>2
  <2>4. x[i] = Rank(how, c1) /\ y[i] = Rank(how, c2) /\ (c1 = 0 <=> i > Len(s)) /\ (c2 = 0 <=> i > Len(t))
    BY <1>2, <2>1, <2>2
  <2>5. a(i) = ImageOf(how, c1) /\ b(i) = ImageOf(how, c2)
    BY <2>1, <2>2
  <2> HIDE DEF a, b, x, y
  <2>6. /\ ImageOf(how, c1) = ImageOf(how, c2) <=> Rank(how, c1) = Rank(how, c2)
        /\ ImageOf(how, c1) = 0 <=> Rank(how, c1) = 0
        /\ Rank(how, c1) = 0 <=> c1 = 0
        /\ Decides(how, ImageOf(how, c1), ImageOf(how, c2)) \in Int
        /\ Decides(how, ImageOf(how, c1), ImageOf(how, c2)) < 0 <=> Rank(how, c1) < Rank(how, c2)
        /\ Decides(how, ImageOf(how, c1), ImageOf(how, c2)) = 0 <=> Rank(how, c1) = Rank(how, c2)
    BY <2>3, CharactersDecide
  <2>7. Rank(how, c2) = 0 <=> c2 = 0
    BY <2>3, CharactersDecide
  <2> QED
    BY <2>4, <2>5, <2>6, <2>7
<1> HIDE DEF x, y, last, a, b
<1>6. /\ ends \in SUBSET (1 .. last)
      /\ \A i \in 1 .. last : i \in ends <=> x[i] # y[i] \/ x[i] = 0
  <2>1. \A i \in 1 .. last : i \in Places
    BY <1>3 DEF Places
  <2> QED
    BY <1>5, <2>1
<1> HIDE DEF ends
<1>7. PICK e \in Places : /\ ends # {} /\ e = Min(ends)
                          /\ x = y => x[e] = y[e]
                          /\ x # y => e = FirstOf(x, y) /\ x[e] # y[e]
  <2>1. \A i \in Places : (x[i] = 0 <=> i > Len(s)) /\ (y[i] = 0 <=> i > Len(t))
    BY <1>5
  <2>2. /\ ends # {} /\ Min(ends) \in Places
        /\ x = y => x[Min(ends)] = y[Min(ends)]
        /\ x # y => Min(ends) = FirstOf(x, y) /\ x[Min(ends)] # y[Min(ends)]
    <3>1. x \in Ranks /\ y \in Ranks /\ Len(s) \in Nat /\ Len(t) \in Nat
      BY <1>2
    <3> QED
      <4>1. Loop(x, y, Len(s), Len(t), last, ends)
        BY <1>3, <1>6, <2>1, <3>1 DEF Loop
      <4> QED
        BY <4>1, LoopEnds
  <2> QED
    BY <2>2
<1>8. Compares(how, s, t) = IF a(e) = b(e) THEN 0 ELSE Decides(how, a(e), b(e))
  BY <1>4, <1>7
<1>9. PICK d \in Int : d = Compares(how, s, t)
  BY <1>5, <1>8
<1>10. d = 0 <=> x = y
  BY <1>5, <1>7, <1>8, <1>9
<1>11. d <= 0 <=> AtMost(x, y)
  <2>1. CASE x = y
    BY <1>10, <2>1 DEF AtMost
  <2>2. CASE x # y
    <3>1. AtMost(x, y) <=> x[e] < y[e]
      BY <1>2, <1>7, <2>2, FirstOfFacts
    <3>2. d < 0 <=> x[e] < y[e]
      BY <1>5, <1>7, <1>8, <1>9, <2>2
    <3> QED
      BY <1>10, <2>2, <3>1, <3>2
  <2> QED
    BY <2>1, <2>2
<1> QED
  BY <1>9, <1>10, <1>11 DEF x, y

\* rap_memn2cmp compares the ranks too: the shorter word ends first.
LEMMA Memn2Compares ==
  ASSUME NEW s \in WordTexts, NEW t \in WordTexts
  PROVE  LET x == RanksOf("memn2", s) y == RanksOf("memn2", t)
         IN  \E d \in Int : /\ d = Memn2cmp(s, t)
                            /\ d <= 0 <=> AtMost(x, y)
                            /\ d = 0 <=> x = y
<1> DEFINE x == RanksOf("memn2", s)
<1> DEFINE y == RanksOf("memn2", t)
<1> DEFINE n == Min({Len(s), Len(t)})
<1> DEFINE differ == {i \in 1 .. n : s[i] # t[i]}
<1>1. /\ x \in Ranks /\ y \in Ranks /\ Len(s) \in Nat /\ Len(t) \in Nat
      /\ \A i \in Places : /\ CharAt(s, i) \in Characters /\ CharAt(t, i) \in Characters
                           /\ x[i] = CharAt(s, i) /\ y[i] = CharAt(t, i)
                           /\ CharAt(s, i) = 0 <=> i > Len(s)
                           /\ CharAt(t, i) = 0 <=> i > Len(t)
  <2>1. "memn2" \in Orders /\ \A c : Rank("memn2", c) = c
    BY DEF Orders, Rank
  <2> QED
    BY <2>1, RankFacts
<1>2. n \in Nat /\ n <= Len(s) /\ n <= Len(t) /\ (n = Len(s) \/ n = Len(t))
  <2>1. Len(s) \in Int /\ Len(t) \in Int
    BY <1>1
  <2>2. n = IF Len(s) <= Len(t) THEN Len(s) ELSE Len(t)
    BY <2>1, OfTwo
  <2> QED
    BY <1>1, <2>2
<1>3. \A i \in 1 .. n : i \in Places /\ s[i] = x[i] /\ t[i] = y[i] /\ x[i] \in Nat /\ y[i] \in Nat
  <2> TAKE i \in 1 .. n
  <2>1. i \in Places /\ i \in DOMAIN s /\ i \in DOMAIN t
    BY <1>2, <1>1 DEF Places, WordTexts
  <2>2. CharAt(s, i) = s[i] /\ CharAt(t, i) = t[i]
    BY <2>1 DEF CharAt
  <2>3. x[i] \in Nat /\ y[i] \in Nat
    BY <1>1, <2>1 DEF Ranks
  <2> QED
    BY <1>1, <2>1, <2>2, <2>3
<1>4. Memn2cmp(s, t) = IF differ # {} THEN s[Min(differ)] - t[Min(differ)]
                       ELSE IF Len(s) = Len(t) THEN 0
                       ELSE IF Len(s) < Len(t) THEN -1 ELSE 1
  BY DEF Memn2cmp
<1> HIDE DEF x, y, n
<1>5. CASE differ # {}
  <2>1. differ \subseteq Nat
    BY <1>2
  <2>2. PICK e \in differ : e = Min(differ) /\ \A j \in differ : e <= j
    BY <1>5, <2>1, MinFacts
  <2>3. e \in 1 .. n /\ e \in Places /\ x[e] # y[e] /\ Memn2cmp(s, t) = x[e] - y[e]
    BY <1>3, <1>4, <1>5, <2>2
  <2>4. Agree(x, y, e - 1)
    <3> SUFFICES ASSUME NEW j \in 1 .. e - 1 PROVE x[j] = y[j]
      BY DEF Agree
    <3>1. j \in 1 .. n /\ ~ (e <= j)
      BY <1>2, <2>3
    <3>2. j \notin differ
      BY <2>2, <3>1
    <3> QED
      BY <1>3, <3>1, <3>2
  <2>5. x # y /\ e = FirstOf(x, y)
    <3>1. x # y
      BY <2>3
    <3> QED
      BY <1>1, <2>3, <2>4, <3>1, FirstOfFacts
  <2>6. AtMost(x, y) <=> x[e] < y[e]
    BY <1>1, <2>5, FirstOfFacts
  <2>7. x[e] \in Nat /\ y[e] \in Nat
    BY <1>3, <2>3
  <2> QED
    BY <2>3, <2>5, <2>6, <2>7 DEF x, y
<1>6. CASE differ = {}
  <2>1. \A i \in 1 .. n : x[i] = y[i]
    BY <1>3, <1>6
  <2>2. CASE Len(s) = Len(t)
    <3>1. ASSUME NEW i \in Places PROVE x[i] = y[i]
      <4>1. CASE i <= n
        <5>1. i \in 1 .. n
          BY <1>2, <4>1 DEF Places
        <5> QED
          BY <2>1, <5>1
      <4>2. CASE i > n
        <5>1. i > Len(s) /\ i > Len(t)
          BY <1>2, <2>2, <4>2
        <5> QED
          BY <1>1, <5>1
      <4> QED
        BY <1>2, <4>1, <4>2 DEF Places
    <3>2. x = [i \in Places |-> x[i]] /\ y = [i \in Places |-> y[i]]
      BY <1>1 DEF Ranks
    <3>3. x = y
      BY <3>1, <3>2
    <3> QED
      BY <1>4, <1>6, <2>2, <3>3 DEF x, y, AtMost
  <2>3. CASE Len(s) # Len(t)
    <3> DEFINE e == n + 1
    <3>1. e \in Places /\ Agree(x, y, e - 1)
      <4>1. e - 1 = n
        BY <1>2
      <4> QED
        BY <1>2, <2>1, <4>1 DEF Places, Agree
    <3>2. /\ x[e] \in Nat /\ y[e] \in Nat
          /\ (x[e] = 0 <=> e > Len(s)) /\ (y[e] = 0 <=> e > Len(t))
      BY <1>1, <3>1 DEF Ranks
    <3>3. Len(s) < Len(t) => x[e] = 0 /\ y[e] > 0
      BY <1>1, <1>2, <3>2
    <3>4. Len(t) < Len(s) => y[e] = 0 /\ x[e] > 0
      BY <1>1, <1>2, <3>2
    <3> HIDE DEF e
    <3>5. x[e] # y[e] /\ (x[e] < y[e] <=> Len(s) < Len(t))
      BY <1>1, <2>3, <3>2, <3>3, <3>4
    <3>6. x # y
      BY <3>5
    <3>7. AtMost(x, y) <=> x[e] < y[e]
      BY <1>1, <3>1, <3>5, <3>6, FirstOfFacts
    <3>8. Memn2cmp(s, t) = IF Len(s) < Len(t) THEN -1 ELSE 1
      BY <1>4, <1>6, <2>3
    <3>9. PICK d \in Int : d = Memn2cmp(s, t) /\ d # 0 /\ (d <= 0 <=> Len(s) < Len(t))
      BY <3>8
    <3> QED
      BY <3>5, <3>6, <3>7, <3>9 DEF x, y
  <2> QED
    BY <2>2, <2>3
<1> QED
  BY <1>5, <1>6

\* So every function orders the words as their ranks are ordered.
LEMMA ComparesInOrder ==
  ASSUME NEW how \in Orders, NEW s \in Ordered(how), NEW t \in Ordered(how)
  PROVE  LET x == RanksOf(how, s) y == RanksOf(how, t)
         IN  \E d \in Int : /\ d = Compares(how, s, t)
                            /\ d <= 0 <=> AtMost(x, y)
                            /\ d = 0 <=> x = y
<1>1. CASE how = "memn2"
  <2>1. s \in WordTexts /\ t \in WordTexts
    BY DEF Ordered, Named
  <2>2. Compares(how, s, t) = Memn2cmp(s, t)
    BY <1>1 DEF Compares
  <2> QED
    BY <1>1, <2>1, <2>2, Memn2Compares
<1>2. CASE how # "memn2"
  <2>1. how \in Looping
    BY <1>2 DEF Orders, Looping
  <2> QED
    BY <2>1, LoopCompares
<1> QED
  BY <1>1, <1>2

\* Being in order is transitive for every function.
LEMMA ComparesTransitively ==
  ASSUME NEW how \in Orders, NEW s \in Ordered(how), NEW t \in Ordered(how), NEW u \in Ordered(how),
         Compares(how, s, t) <= 0, Compares(how, t, u) <= 0
  PROVE  Compares(how, s, u) <= 0
<1> DEFINE x(w) == RanksOf(how, w)
<1>1. s \in WordTexts /\ t \in WordTexts /\ u \in WordTexts
  BY DEF Ordered, Named
<1>2. x(s) \in Ranks /\ x(t) \in Ranks /\ x(u) \in Ranks
  BY <1>1, RankFacts
<1>3. AtMost(x(s), x(t)) /\ AtMost(x(t), x(u))
  BY ComparesInOrder
<1>4. AtMost(x(s), x(u))
  BY <1>2, <1>3, OrderTransitive
<1> QED
  BY <1>4, ComparesInOrder

-----------------------------------------------------------------------------
(***************************************************************************)
(* Antisymmetry, of any two words: what decides between them decides the   *)
(* other way round when they are exchanged.                                *)
(***************************************************************************)
Opposite(d, e) == d \in Int /\ e \in Int /\ d + e = 0

LEMMA OppositeSigns ==
  ASSUME NEW d, NEW e, Opposite(d, e)
  PROVE  Sign(d) = -Sign(e)
  BY DEF Opposite, Sign

\* What is read of a word at any place.
LEMMA CharsRead ==
  ASSUME NEW s \in WordTexts, NEW i \in Places
  PROVE  CharAt(s, i) \in Characters
<1>1. "memn2" \in Orders
  BY DEF Orders
<1> QED
  BY <1>1, RankFacts

LEMMA LoopsMirror ==
  ASSUME NEW how \in Looping, NEW s \in WordTexts, NEW t \in WordTexts
  PROVE  Opposite(Compares(how, s, t), Compares(how, t, s))
<1> DEFINE a(i) == ImageOf(how, CharAt(s, i))
<1> DEFINE b(i) == ImageOf(how, CharAt(t, i))
<1> DEFINE last == Min({Whole(s, t), Max({Len(s), Len(t)}) + 1})
<1> DEFINE tsal == Min({Whole(t, s), Max({Len(t), Len(s)}) + 1})
<1> DEFINE ends == {i \in 1 .. last : a(i) # b(i) \/ a(i) = 0}
<1> DEFINE sdne == {i \in 1 .. tsal : b(i) # a(i) \/ b(i) = 0}
<1> DEFINE e == Min(ends)
<1>1. Len(s) \in Nat /\ Len(t) \in Nat
  BY DEF WordTexts
<1>2. last \in Nat
  BY <1>1, LoopBound DEF Whole
<1>3. tsal = last
  <2>1. Whole(s, t) = Whole(t, s)
    BY <1>1 DEF Whole
  <2>2. {Len(s), Len(t)} = {Len(t), Len(s)}
    OBVIOUS
  <2> QED
    BY <2>1, <2>2
<1>4. Compares(how, s, t) = IF ends = {} THEN 0
                            ELSE IF a(e) = b(e) THEN 0 ELSE Decides(how, a(e), b(e))
  <2>1. CASE how = "strcasecmp"
    BY <2>1 DEF Compares, Strcasecmp, Compared, ImageOf, Decides
  <2>2. CASE how = "dns"
    BY <2>2 DEF Compares, DnsStrcmp, Compared, ImageOf, Decides
  <2>3. CASE how = "filename"
    BY <2>3 DEF Compares, FilenameCmp, Compared, ImageOf, Decides, Same
  <2> QED
    BY <2>1, <2>2, <2>3 DEF Looping
<1>5. Compares(how, t, s) = IF sdne = {} THEN 0
                            ELSE IF b(Min(sdne)) = a(Min(sdne)) THEN 0
                            ELSE Decides(how, b(Min(sdne)), a(Min(sdne)))
  <2>1. CASE how = "strcasecmp"
    BY <2>1 DEF Compares, Strcasecmp, Compared, ImageOf, Decides
  <2>2. CASE how = "dns"
    BY <2>2 DEF Compares, DnsStrcmp, Compared, ImageOf, Decides
  <2>3. CASE how = "filename"
    BY <2>3 DEF Compares, FilenameCmp, Compared, ImageOf, Decides, Same
  <2> QED
    BY <2>1, <2>2, <2>3 DEF Looping
<1> HIDE DEF a, b, last, tsal
<1>6. sdne = ends
  BY <1>3
<1>7. ends \subseteq Nat
  BY <1>2
<1> HIDE DEF ends, sdne
<1>8. CASE ends = {}
  <2>1. Compares(how, s, t) = 0 /\ Compares(how, t, s) = 0
    BY <1>4, <1>5, <1>6, <1>8
  <2> QED
    BY <2>1 DEF Opposite
<1>9. CASE ends # {}
  <2>1. e \in Places
    <3>1. e \in ends
      BY <1>7, <1>9, MinFacts
    <3> QED
      BY <1>2, <3>1 DEF ends, Places
  <2>2. PICK c1 \in Characters, c2 \in Characters : c1 = CharAt(s, e) /\ c2 = CharAt(t, e)
    BY <2>1, CharsRead
  <2>3. PICK m \in Nat, n \in Nat : m = a(e) /\ n = b(e)
    <3>1. \A c \in Characters : ImageOf(how, c) \in Nat
      BY DEF Characters, ImageOf, Lower
    <3> QED
      BY <2>2, <3>1 DEF a, b
  <2>4. Opposite(Decides(how, m, n), Decides(how, n, m))
    <3>1. CASE how = "strcasecmp"
      BY <3>1 DEF Opposite, Decides, Minus
    <3>2. CASE how = "dns"
      <4>1. /\ Decides(how, m, n) = (IF m = 46 THEN 32 ELSE m) - (IF n = 46 THEN 32 ELSE n)
            /\ Decides(how, n, m) = (IF n = 46 THEN 32 ELSE n) - (IF m = 46 THEN 32 ELSE m)
        BY <3>2 DEF Decides, DnsMinus
      <4> QED
        BY <4>1 DEF Opposite
    <3>3. CASE how = "filename"
      <4>1. \A x, y : Decides(how, x, y) =
              IF x = 0 \/ y = 0 THEN x - y ELSE (IF x = 47 THEN 0 ELSE x) - (IF y = 47 THEN 0 ELSE y)
        BY <3>3 DEF Decides, FilenameMinus
      <4> QED
        BY <4>1 DEF Opposite
    <3> QED
      BY <3>1, <3>2, <3>3 DEF Looping
  <2>5. /\ Compares(how, s, t) = IF m = n THEN 0 ELSE Decides(how, m, n)
        /\ Compares(how, t, s) = IF m = n THEN 0 ELSE Decides(how, n, m)
    BY <1>4, <1>5, <1>6, <1>9, <2>3
  <2> QED
    BY <2>4, <2>5 DEF Opposite
<1> QED
  BY <1>8, <1>9

LEMMA OthersMirror ==
  ASSUME NEW s \in WordTexts, NEW t \in WordTexts
  PROVE  /\ Opposite(Memn2cmp(s, t), Memn2cmp(t, s))
         /\ \A n \in Nat : n <= Len(s) /\ n <= Len(t) =>
              /\ Opposite(Rstrncmp(s, t, n), Rstrncmp(t, s, n))
              /\ Opposite(Rstrncasecmp(s, t, n), Rstrncasecmp(t, s, n))
<1>1. Len(s) \in Nat /\ Len(t) \in Nat /\ \A i \in Nat \ {0} : /\ i <= Len(s) => s[i] \in Bytes
                                                               /\ i <= Len(t) => t[i] \in Bytes
  BY DEF WordTexts
<1>2. ASSUME NEW n \in Nat, n <= Len(s), n <= Len(t), NEW i \in 1 .. n
      PROVE  /\ s[i] \in Nat /\ t[i] \in Nat /\ Upper(s[i]) \in Nat /\ Upper(t[i]) \in Nat
  <2>1. s[i] \in Bytes /\ t[i] \in Bytes
    BY <1>1, <1>2
  <2>2. \A c \in Bytes : c \in Nat /\ Upper(c) \in Nat
    BY DEF Bytes, Upper
  <2> QED
    BY <2>1, <2>2
<1>3. Opposite(Memn2cmp(s, t), Memn2cmp(t, s))
  <2> DEFINE n == Min({Len(s), Len(t)})
  <2> DEFINE differ == {i \in 1 .. n : s[i] # t[i]}
  <2>1. n \in Nat /\ n <= Len(s) /\ n <= Len(t)
    <3>1. Len(s) \in Int /\ Len(t) \in Int
      BY <1>1
    <3>2. n = IF Len(s) <= Len(t) THEN Len(s) ELSE Len(t)
      BY <3>1, OfTwo
    <3> QED
      BY <1>1, <3>2
  <2>2. n = Min({Len(t), Len(s)})
    <3>1. {Len(s), Len(t)} = {Len(t), Len(s)}
      OBVIOUS
    <3> QED
      BY <3>1
  <2>3. differ = {i \in 1 .. n : t[i] # s[i]}
    OBVIOUS
  <2>4. Memn2cmp(s, t) = IF differ # {} THEN s[Min(differ)] - t[Min(differ)]
                         ELSE IF Len(s) = Len(t) THEN 0
                         ELSE IF Len(s) < Len(t) THEN -1 ELSE 1
    BY DEF Memn2cmp
  <2>5. Memn2cmp(t, s) = IF {i \in 1 .. n : t[i] # s[i]} # {}
                         THEN t[Min({i \in 1 .. n : t[i] # s[i]})] - s[Min({i \in 1 .. n : t[i] # s[i]})]
                         ELSE IF Len(t) = Len(s) THEN 0
                         ELSE IF Len(t) < Len(s) THEN -1 ELSE 1
    BY <2>2 DEF Memn2cmp
  <2>6. Memn2cmp(t, s) = IF differ # {} THEN t[Min(differ)] - s[Min(differ)]
                         ELSE IF Len(t) = Len(s) THEN 0
                         ELSE IF Len(t) < Len(s) THEN -1 ELSE 1
    BY <2>3, <2>5
  <2>7. CASE differ # {}
    <3>1. differ \subseteq Nat
      BY <2>1
    <3>2. Min(differ) \in 1 .. n
      BY <2>7, <3>1, MinFacts
    <3>3. s[Min(differ)] \in Nat /\ t[Min(differ)] \in Nat
      BY <1>2, <2>1, <3>2
    <3> QED
      BY <2>4, <2>6, <2>7, <3>3 DEF Opposite
  <2>8. CASE differ = {}
    <3>1. /\ Memn2cmp(s, t) = IF Len(s) = Len(t) THEN 0 ELSE IF Len(s) < Len(t) THEN -1 ELSE 1
          /\ Memn2cmp(t, s) = IF Len(t) = Len(s) THEN 0 ELSE IF Len(t) < Len(s) THEN -1 ELSE 1
      BY <2>4, <2>6, <2>8
    <3>2. PICK m \in Nat, n2 \in Nat : m = Len(s) /\ n2 = Len(t)
      BY <1>1
    <3>3. CASE m = n2
      <4>1. Memn2cmp(s, t) = 0 /\ Memn2cmp(t, s) = 0
        BY <3>1, <3>2, <3>3
      <4> QED
        BY <4>1 DEF Opposite
    <3>4. CASE m < n2
      <4>1. Memn2cmp(s, t) = -1 /\ Memn2cmp(t, s) = 1
        BY <3>1, <3>2, <3>4
      <4> QED
        BY <4>1 DEF Opposite
    <3>5. CASE n2 < m
      <4>1. Memn2cmp(s, t) = 1 /\ Memn2cmp(t, s) = -1
        BY <3>1, <3>2, <3>5
      <4> QED
        BY <4>1 DEF Opposite
    <3> QED
      BY <3>3, <3>4, <3>5
  <2> QED
    BY <2>7, <2>8
<1>4. ASSUME NEW n \in Nat, n <= Len(s), n <= Len(t)
      PROVE  Opposite(Rstrncmp(s, t, n), Rstrncmp(t, s, n))
  <2> DEFINE differ == {i \in 1 .. n : s[i] # t[i]}
  <2>1. differ = {i \in 1 .. n : t[i] # s[i]}
    OBVIOUS
  <2>2. Rstrncmp(s, t, n) = IF differ = {} THEN 0 ELSE s[Max(differ)] - t[Max(differ)]
    BY DEF Rstrncmp, ComparedBack, Same
  <2>3. Rstrncmp(t, s, n) = IF differ = {} THEN 0 ELSE t[Max(differ)] - s[Max(differ)]
    BY <2>1 DEF Rstrncmp, ComparedBack, Same
  <2>4. CASE differ # {}
    <3>1. differ \subseteq 0 .. n
      OBVIOUS
    <3>2. Max(differ) \in 1 .. n
      BY <2>4, <3>1, MaxFacts
    <3>3. s[Max(differ)] \in Nat /\ t[Max(differ)] \in Nat
      BY <1>2, <1>4, <3>2
    <3> QED
      BY <2>2, <2>3, <2>4, <3>3 DEF Opposite
  <2> QED
    BY <2>2, <2>3, <2>4 DEF Opposite
<1>5. ASSUME NEW n \in Nat, n <= Len(s), n <= Len(t)
      PROVE  Opposite(Rstrncasecmp(s, t, n), Rstrncasecmp(t, s, n))
  <2> DEFINE differ == {i \in 1 .. n : Upper(s[i]) # Upper(t[i])}
  <2>1. differ = {i \in 1 .. n : Upper(t[i]) # Upper(s[i])}
    OBVIOUS
  <2>2. Rstrncasecmp(s, t, n) = IF differ = {} THEN 0 ELSE Upper(s[Max(differ)]) - Upper(t[Max(differ)])
    BY DEF Rstrncasecmp, ComparedBack
  <2>3. Rstrncasecmp(t, s, n) = IF differ = {} THEN 0 ELSE Upper(t[Max(differ)]) - Upper(s[Max(differ)])
    BY <2>1 DEF Rstrncasecmp, ComparedBack
  <2>4. CASE differ # {}
    <3>1. differ \subseteq 0 .. n
      OBVIOUS
    <3>2. Max(differ) \in 1 .. n
      BY <2>4, <3>1, MaxFacts
    <3>3. Upper(s[Max(differ)]) \in Nat /\ Upper(t[Max(differ)]) \in Nat
      BY <1>2, <1>5, <3>2
    <3> QED
      BY <2>2, <2>3, <2>4, <3>3 DEF Opposite
  <2> QED
    BY <2>2, <2>3, <2>4 DEF Opposite
<1> QED
  BY <1>3, <1>4, <1>5

\* Every result of a comparison has the opposite sign of the exchanged one.
LEMMA ComparisonsMirror ==
  ASSUME NEW s \in WordTexts, NEW t \in WordTexts, NEW how \in DOMAIN Comparisons(s, t)
  PROVE  Sign(Comparisons(s, t)[how]) = -Sign(Comparisons(t, s)[how])
<1> DEFINE n == Min({Len(s), Len(t)})
<1>1. n \in Nat /\ n <= Len(s) /\ n <= Len(t)
  <2>1. Len(s) \in Int /\ Len(t) \in Int /\ Len(s) \in Nat /\ Len(t) \in Nat
    BY DEF WordTexts
  <2>2. n = IF Len(s) <= Len(t) THEN Len(s) ELSE Len(t)
    BY <2>1, OfTwo
  <2> QED
    BY <2>1, <2>2
<1>2. Min({Len(t), Len(s)}) = n
  <2>1. {Len(s), Len(t)} = {Len(t), Len(s)}
    OBVIOUS
  <2> QED
    BY <2>1
<1> HIDE DEF n
<1>3. Comparisons(s, t) =
       [strcasecmp |-> Strcasecmp(s, t), dns |-> DnsStrcmp(s, t),
        filename |-> FilenameCmp(s, t, Whole(s, t)), memn2 |-> Memn2cmp(s, t),
        rstrn |-> Rstrncmp(s, t, n), rstrncase |-> Rstrncasecmp(s, t, n)]
  BY DEF Comparisons, n
<1>4. Comparisons(t, s) =
       [strcasecmp |-> Strcasecmp(t, s), dns |-> DnsStrcmp(t, s),
        filename |-> FilenameCmp(t, s, Whole(t, s)), memn2 |-> Memn2cmp(t, s),
        rstrn |-> Rstrncmp(t, s, n), rstrncase |-> Rstrncasecmp(t, s, n)]
  BY <1>2 DEF Comparisons
<1>5. how \in {"strcasecmp", "dns", "filename", "memn2", "rstrn", "rstrncase"}
  BY <1>3
<1>6. Opposite(Comparisons(s, t)[how], Comparisons(t, s)[how])
  <2>1. Opposite(Strcasecmp(s, t), Strcasecmp(t, s))
    BY LoopsMirror DEF Looping, Compares
  <2>2. Opposite(DnsStrcmp(s, t), DnsStrcmp(t, s))
    <3>1. "dns" \in Looping
      BY DEF Looping
    <3>2. Opposite(Compares("dns", s, t), Compares("dns", t, s))
      BY <3>1, LoopsMirror
    <3> QED
      BY <3>2 DEF Compares
  <2>3. Opposite(FilenameCmp(s, t, Whole(s, t)), FilenameCmp(t, s, Whole(t, s)))
    <3>1. "filename" \in Looping
      BY DEF Looping
    <3>2. Opposite(Compares("filename", s, t), Compares("filename", t, s))
      BY <3>1, LoopsMirror
    <3> QED
      BY <3>2 DEF Compares
  <2>4. /\ Opposite(Memn2cmp(s, t), Memn2cmp(t, s))
        /\ Opposite(Rstrncmp(s, t, n), Rstrncmp(t, s, n))
        /\ Opposite(Rstrncasecmp(s, t, n), Rstrncasecmp(t, s, n))
    BY <1>1, OthersMirror
  <2> QED
    BY <1>3, <1>4, <1>5, <2>1, <2>2, <2>3, <2>4
<1> QED
  BY <1>6, OppositeSigns

-----------------------------------------------------------------------------
(***************************************************************************)
(* The first label of a name: the ranks before the first that is the rank  *)
(* of a dot, or of the end.                                                *)
(***************************************************************************)
Labelled(x, k) == k \in Nat /\ x[k + 1] <= 32 /\ \A i \in 1 .. k : x[i] > 32

LEMMA OneLabel ==
  ASSUME NEW x \in Ranks, NEW k \in Nat, NEW l \in Nat, Labelled(x, k), Labelled(x, l)
  PROVE  k = l
<1>1. \A i \in Places : x[i] \in Nat
  BY DEF Ranks
<1>2. k + 1 \in Places /\ l + 1 \in Places
  BY DEF Places
<1>3. ~ (k < l)
  <2> SUFFICES ASSUME k < l PROVE FALSE
    OBVIOUS
  <2>1. k + 1 \in 1 .. l
    OBVIOUS
  <2> QED
    BY <1>1, <1>2, <2>1 DEF Labelled
<1>4. ~ (l < k)
  <2> SUFFICES ASSUME l < k PROVE FALSE
    OBVIOUS
  <2>1. l + 1 \in 1 .. k
    OBVIOUS
  <2> QED
    BY <1>1, <1>2, <2>1 DEF Labelled
<1> QED
  BY <1>3, <1>4

\* A word that is its own first label, or is cut at its first dot.
LEMMA CutAtDot ==
  ASSUME NEW s \in WordTexts
  PROVE  \E r \in WordTexts : /\ FirstLabel(s) = Folded(r)
                              /\ Len(r) <= Len(s) /\ \A i \in 1 .. Len(r) : r[i] = s[i] /\ s[i] # 46
                              /\ Len(r) < Len(s) => s[Len(r) + 1] = 46
<1> DEFINE dots == {i \in 1 .. Len(s) : s[i] = 46}
<1> DEFINE dot == IF dots # {} THEN Min(dots) ELSE 0
<1>1. FirstLabel(s) = Folded(IF dot = 0 THEN s ELSE SubSeq(s, 1, dot - 1))
  BY DEF FirstLabel, SelectInSeq
<1>2. Len(s) \in Nat
  BY DEF WordTexts
<1>3. CASE dots = {}
  <2>1. FirstLabel(s) = Folded(s)
    BY <1>1, <1>3
  <2>2. \A i \in 1 .. Len(s) : s[i] # 46
    BY <1>3
  <2> QED
    BY <1>2, <2>1, <2>2
<1>4. CASE dots # {}
  <2>1. dots \subseteq Nat
    BY <1>2
  <2>2. PICK d \in dots : d = Min(dots) /\ \A j \in dots : d <= j
    <3> HIDE DEF dots
    <3> QED
      BY <1>4, <2>1, MinFacts
  <2>3. d \in 1 .. Len(s) /\ s[d] = 46
    BY <2>2
  <2>4. PICK r : r = SubSeq(s, 1, d - 1)
    OBVIOUS
  <2>5. r \in WordTexts /\ Len(r) = d - 1 /\ \A i \in 1 .. d - 1 : r[i] = s[i]
    BY <1>2, <2>3, <2>4 DEF WordTexts
  <2>6. \A i \in 1 .. d - 1 : s[i] # 46
    <3> TAKE i \in 1 .. d - 1
    <3>1. i \in 1 .. Len(s) /\ ~ (d <= i)
      BY <1>2, <2>3
    <3> QED
      BY <2>2, <3>1
  <2>7. FirstLabel(s) = Folded(r)
    <3>1. dot = d /\ d # 0
      BY <1>4, <2>2, <2>3
    <3> QED
      BY <1>1, <2>4, <3>1
  <2>8. Len(r) + 1 = d
    BY <2>3, <2>5
  <2> QED
    BY <1>2, <2>3, <2>5, <2>6, <2>7, <2>8
<1> QED
  BY <1>3, <1>4

\* The ranks of the first label are above those of the blank and the dot.
LEMMA LabelFacts ==
  ASSUME NEW s \in Named
  PROVE  LET x == RanksOf("dns", s) l == FirstLabel(s)
         IN  /\ l \in WordTexts /\ Labelled(x, Len(l))
             /\ \A i \in 1 .. Len(l) : l[i] = x[i]
<1> DEFINE x == RanksOf("dns", s)
<1>1. s \in WordTexts /\ "dns" \in Orders
  BY DEF Named, Orders
<1>2. PICK r \in WordTexts : /\ FirstLabel(s) = Folded(r)
                             /\ Len(r) <= Len(s) /\ \A i \in 1 .. Len(r) : r[i] = s[i] /\ s[i] # 46
                             /\ Len(r) < Len(s) => s[Len(r) + 1] = 46
  BY <1>1, CutAtDot
<1>3. /\ x \in Ranks /\ Len(s) \in Nat /\ Len(r) \in Nat
      /\ \A i \in Places : /\ CharAt(s, i) \in Characters
                           /\ x[i] = Rank("dns", CharAt(s, i))
                           /\ CharAt(s, i) = 0 <=> i > Len(s)
                           /\ CharAt(s, i) \notin 1 .. 32
  <2>1. Len(r) \in Nat
    BY DEF WordTexts
  <2> QED
    BY <1>1, <2>1, RankFacts
<1> DEFINE j == Len(r) + 1
<1>0. Len(s) \in Nat /\ Len(r) \in Nat /\ j \in Places /\ j = Len(r) + 1
  BY <1>3 DEF Places
<1>4. /\ Folded(r) \in WordTexts /\ Len(Folded(r)) = Len(r)
      /\ \A i \in 1 .. Len(r) : Folded(r)[i] = Lower(r[i])
  BY FoldedFacts DEF Cased
<1>5. \A i \in 1 .. Len(s) : i \in Places /\ CharAt(s, i) = s[i]
  <2> TAKE i \in 1 .. Len(s)
  <2>1. i \in DOMAIN s
    BY <1>1 DEF WordTexts
  <2> QED
    BY <2>1 DEF CharAt, Places
<1>6. \A c : Rank("dns", c) = IF c = 46 THEN 32 ELSE Lower(c)
  BY DEF Rank
<1> HIDE DEF x, j
<1>7. ASSUME NEW i \in 1 .. Len(r) PROVE Folded(r)[i] = x[i] /\ x[i] > 32
  <2>1. i \in 1 .. Len(s)
    BY <1>2, <1>3
  <2>2. s[i] \in Characters /\ s[i] # 0 /\ s[i] \notin 1 .. 32 /\ s[i] # 46 /\ r[i] = s[i]
    <3>0. i \in Places /\ ~ (i > Len(s))
      BY <1>0, <1>5, <2>1
    <3>1. CharAt(s, i) # 0
      BY <1>3, <3>0
    <3>2. CharAt(s, i) = s[i]
      BY <1>5, <2>1
    <3>3. CharAt(s, i) \in Characters /\ CharAt(s, i) \notin 1 .. 32
      BY <1>3, <3>0
    <3>4. r[i] = s[i] /\ s[i] # 46
      BY <1>2
    <3> QED
      BY <3>1, <3>2, <3>3, <3>4
  <2>3. x[i] = Lower(s[i])
    BY <1>3, <1>5, <1>6, <2>1, <2>2
  <2>4. \A c \in Characters : c # 0 /\ c \notin 1 .. 32 => Lower(c) > 32
    BY DEF Characters, Lower
  <2> QED
    BY <1>4, <2>2, <2>3, <2>4
<1>8. x[j] <= 32
  <2>1. CASE Len(r) < Len(s)
    <3>1. j \in 1 .. Len(s) /\ s[j] = 46
      BY <1>0, <1>2, <2>1
    <3>2. CharAt(s, j) = 46
      BY <1>5, <3>1
    <3>3. x[j] = Rank("dns", CharAt(s, j))
      BY <1>0, <1>3
    <3> QED
      BY <1>6, <3>2, <3>3
  <2>2. CASE Len(r) = Len(s)
    <3>1. j > Len(s)
      BY <1>0, <2>2
    <3>2. x[j] = Rank("dns", 0)
      BY <1>0, <1>3, <3>1
    <3>3. Lower(0) = 0
      BY DEF Lower
    <3> QED
      BY <1>6, <3>2, <3>3
  <2> QED
    BY <1>0, <1>2, <2>1, <2>2
<1>9. Labelled(x, Len(r))
  BY <1>0, <1>7, <1>8 DEF Labelled
<1> QED
  BY <1>2, <1>4, <1>7, <1>9 DEF x

\* What rap_dns_strcmp puts between two names with one first label has it too.
LEMMA LabelBetween ==
  ASSUME NEW s \in Named, NEW t \in Named, NEW u \in Named,
         DnsStrcmp(s, t) <= 0, DnsStrcmp(t, u) <= 0, FirstLabel(s) = FirstLabel(u)
  PROVE  FirstLabel(t) = FirstLabel(u)
<1> DEFINE x == RanksOf("dns", s)
<1> DEFINE y == RanksOf("dns", t)
<1> DEFINE z == RanksOf("dns", u)
<1> DEFINE k == Len(FirstLabel(s))
<1>1. "dns" \in Orders /\ Ordered("dns") = Named
  BY DEF Orders, Ordered
<1>2. s \in WordTexts /\ t \in WordTexts /\ u \in WordTexts
  BY DEF Named
<1>3. x \in Ranks /\ y \in Ranks /\ z \in Ranks
  BY <1>1, <1>2, RankFacts
<1>4. AtMost(x, y) /\ AtMost(y, z)
  <2>1. Compares("dns", s, t) <= 0 /\ Compares("dns", t, u) <= 0
    BY DEF Compares
  <2> QED
    BY <1>1, <2>1, ComparesInOrder
<1>5. /\ FirstLabel(s) \in WordTexts /\ Labelled(x, k)
      /\ \A i \in 1 .. k : FirstLabel(s)[i] = x[i]
  BY LabelFacts
<1>6. /\ Labelled(z, k) /\ \A i \in 1 .. k : FirstLabel(s)[i] = z[i]
  BY LabelFacts
<1>7. /\ FirstLabel(t) \in WordTexts /\ Labelled(y, Len(FirstLabel(t)))
      /\ \A i \in 1 .. Len(FirstLabel(t)) : FirstLabel(t)[i] = y[i]
  BY LabelFacts
<1>8. k \in Nat
  BY <1>5 DEF WordTexts
<1> HIDE DEF x, y, z
<1>9. Agree(x, z, k)
  BY <1>5, <1>6 DEF Agree
<1>10. Agree(x, y, k)
  BY <1>3, <1>4, <1>8, <1>9, Between
<1>11. y[k + 1] <= 32
  <2>1. Agree(y, z, k) /\ k + 1 \in Places /\ (k + 1) - 1 = k
    BY <1>8, <1>9, <1>10 DEF Agree, Places
  <2>2. y[k + 1] <= z[k + 1]
    BY <1>3, <1>4, <2>1, OrderedThere
  <2>3. y[k + 1] \in Nat /\ z[k + 1] \in Nat
    BY <1>3, <2>1 DEF Ranks
  <2> QED
    BY <1>6, <2>2, <2>3 DEF Labelled
<1>12. Labelled(y, k)
  BY <1>5, <1>8, <1>10, <1>11 DEF Labelled, Agree
<1>13. Len(FirstLabel(t)) = k
  <2>1. Len(FirstLabel(t)) \in Nat
    BY <1>7 DEF WordTexts
  <2> QED
    BY <1>3, <1>7, <1>8, <1>12, <2>1, OneLabel
<1>14. \A i \in 1 .. k : FirstLabel(t)[i] = FirstLabel(s)[i]
  BY <1>5, <1>7, <1>10, <1>13 DEF Agree
<1> QED
  BY <1>5, <1>7, <1>13, <1>14 DEF WordTexts

-----------------------------------------------------------------------------
(***************************************************************************)
(* The functions that compare words are orders of all the words that any   *)
(* choice of Words makes: antisymmetric, transitive, and rap_dns_strcmp    *)
(* keeps the names of one first label together (rap_string.c:782).         *)
(***************************************************************************)
THEOREM ComparisonsAreOrders == Spec => []OrdersConsistently
<1>1. Init => OrdersConsistently
  BY DEF Init, Idle, OrdersConsistently
<1>2. OrdersConsistently /\ [Next]_vars => OrdersConsistently'
  <2> SUFFICES ASSUME OrdersConsistently, [Next]_vars PROVE OrdersConsistently'
    OBVIOUS
  <2>1. CASE Compare
    <3>1. PICK s1 \in Words, s2 \in Words :
            Calls([fn |-> "compare", s1 |-> s1, s2 |-> s2], Comparisons(s1, s2))
      BY <2>1 DEF Compare
    <3>2. call' = [fn |-> "compare", s1 |-> s1, s2 |-> s2] /\ result' = Comparisons(s1, s2)
      BY <3>1 DEF Calls
    <3>3. \A w \in Words : w \in WordTexts
      BY InputsAssumption DEF WordTexts, Bytes
    <3>4. \A how \in DOMAIN Comparisons(s1, s2) :
            Sign(Comparisons(s1, s2)[how]) = -Sign(Comparisons(s2, s1)[how])
      BY <3>3, ComparisonsMirror
    <3>5. ASSUME NEW s3 \in Words, NEW named, named = AboveBlank({s1, s2, s3})
          PROVE  /\ \A how \in IF named THEN Orders ELSE Orders \ {"dns"} :
                      Comparisons(s1, s2)[how] <= 0 /\ Comparisons(s2, s3)[how] <= 0
                        => Comparisons(s1, s3)[how] <= 0
                 /\ named /\ Comparisons(s1, s2).dns <= 0 /\ Comparisons(s2, s3).dns <= 0
                      /\ FirstLabel(s1) = FirstLabel(s3) => FirstLabel(s2) = FirstLabel(s3)
      <4>1. s1 \in WordTexts /\ s2 \in WordTexts /\ s3 \in WordTexts
        BY <3>3
      <4>2. named => s1 \in Named /\ s2 \in Named /\ s3 \in Named
        BY <3>5, <4>1 DEF AboveBlank, Named
      <4>3. \A s, t : \A how \in Orders : Comparisons(s, t)[how] = Compares(how, s, t)
        BY DEF Comparisons, Orders, Compares
      <4>4. ASSUME NEW how \in IF named THEN Orders ELSE Orders \ {"dns"},
                   Comparisons(s1, s2)[how] <= 0, Comparisons(s2, s3)[how] <= 0
            PROVE  Comparisons(s1, s3)[how] <= 0
        <5>1. how \in Orders /\ s1 \in Ordered(how) /\ s2 \in Ordered(how) /\ s3 \in Ordered(how)
          BY <4>1, <4>2 DEF Ordered
        <5>2. Compares(how, s1, s2) <= 0 /\ Compares(how, s2, s3) <= 0
          BY <4>3, <4>4, <5>1
        <5> QED
          BY <4>3, <5>1, <5>2, ComparesTransitively
      <4>5. ASSUME named, Comparisons(s1, s2).dns <= 0, Comparisons(s2, s3).dns <= 0,
                   FirstLabel(s1) = FirstLabel(s3)
            PROVE  FirstLabel(s2) = FirstLabel(s3)
        <5>1. DnsStrcmp(s1, s2) <= 0 /\ DnsStrcmp(s2, s3) <= 0
          BY <4>5 DEF Comparisons
        <5> QED
          BY <4>2, <4>5, <5>1, LabelBetween
      <4> QED
        BY <4>4, <4>5
    <3>6. call'.s1 = s1 /\ call'.s2 = s2
      BY <3>2
    <3> QED
      BY <3>2, <3>4, <3>5, <3>6 DEF OrdersConsistently
  <2>2. CASE Next /\ ~ Compare
    <3>1. call'.fn # "compare"
      BY <2>2, CallsMade DEF Next
    <3> QED
      BY <3>1 DEF OrdersConsistently
  <2>3. CASE UNCHANGED vars
    BY <2>3 DEF vars, OrdersConsistently
  <2> QED
    BY <2>1, <2>2, <2>3
<1> QED
  BY <1>1, <1>2, PTL DEF Spec

-----------------------------------------------------------------------------
(***************************************************************************)
(* rap_sort: after each element, those so far are in order.                *)
(***************************************************************************)
Entries == [name : Named, id : Nat]

\* The order of two elements, stable by their places in the given order.
Before(a, b) ==
  DnsStrcmp(a.name, b.name) < 0 \/ (DnsStrcmp(a.name, b.name) = 0 /\ a.id < b.id)

InOrder(q) == \A i, j \in 1 .. Len(q) : i < j => Before(q[i], q[j])

Earlier(q, e) == \A i \in 1 .. Len(q) : q[i].id < e.id

PlaceOf(q, e) == SortPlace([i \in DOMAIN q |-> DnsStrcmp(q[i].name, e.name)])

\* rap_dns_strcmp orders names.
LEMMA NamesOrdered ==
  ASSUME NEW s \in Named, NEW t \in Named
  PROVE  /\ DnsStrcmp(s, t) \in Int /\ DnsStrcmp(t, s) \in Int
         /\ DnsStrcmp(t, s) = -DnsStrcmp(s, t)
         /\ \A u \in Named : DnsStrcmp(s, t) <= 0 /\ DnsStrcmp(t, u) <= 0 => DnsStrcmp(s, u) <= 0
<1>1. "dns" \in Orders /\ "dns" \in Looping /\ Ordered("dns") = Named /\ s \in WordTexts /\ t \in WordTexts
  BY DEF Orders, Looping, Ordered, Named
<1>2. \A v, w : Compares("dns", v, w) = DnsStrcmp(v, w)
  BY DEF Compares
<1>3. Opposite(DnsStrcmp(s, t), DnsStrcmp(t, s))
  BY <1>1, <1>2, LoopsMirror
<1>4. \A u \in Named : DnsStrcmp(s, t) <= 0 /\ DnsStrcmp(t, u) <= 0 => DnsStrcmp(s, u) <= 0
  BY <1>1, <1>2, ComparesTransitively
<1> QED
  BY <1>3, <1>4 DEF Opposite

LEMMA EntryFacts == \A e \in Entries : e.name \in Named /\ e.id \in Nat
  BY DEF Entries

\* There is a place for any element.
LEMMA PlaceIn ==
  ASSUME NEW q \in Seq(Entries), NEW e \in Entries
  PROVE  PlaceOf(q, e) \in 1 .. Len(q) + 1
<1> DEFINE order == [i \in DOMAIN q |-> DnsStrcmp(q[i].name, e.name)]
<1> DEFINE upTo == {i \in DOMAIN order : order[i] <= 0}
<1>1. Len(q) \in Nat /\ DOMAIN order = 1 .. Len(q)
  OBVIOUS
<1>2. PlaceOf(q, e) = IF upTo = {} THEN 1 ELSE Max(upTo) + 1
  BY DEF PlaceOf, SortPlace
<1>3. upTo \subseteq 1 .. Len(q)
  BY <1>1
<1> HIDE DEF upTo, order
<1>4. upTo # {} => Max(upTo) \in 1 .. Len(q)
  <2>1. upTo \subseteq 0 .. Len(q)
    BY <1>1, <1>3
  <2> QED
    BY <1>1, <1>3, <2>1, MaxFacts
<1> QED
  BY <1>1, <1>2, <1>4

\* An element goes behind those not greater, and before all the others.
LEMMA PlaceFacts ==
  ASSUME NEW q \in Seq(Entries), InOrder(q), NEW e \in Entries
  PROVE  /\ PlaceOf(q, e) \in 1 .. Len(q) + 1
         /\ \A i \in 1 .. Len(q) : /\ i < PlaceOf(q, e) => DnsStrcmp(q[i].name, e.name) <= 0
                                   /\ i >= PlaceOf(q, e) => DnsStrcmp(e.name, q[i].name) < 0
<1> DEFINE order == [i \in DOMAIN q |-> DnsStrcmp(q[i].name, e.name)]
<1> DEFINE upTo == {i \in DOMAIN order : order[i] <= 0}
<1>1. /\ Len(q) \in Nat /\ DOMAIN q = 1 .. Len(q) /\ e.name \in Named
      /\ \A i \in 1 .. Len(q) : q[i] \in Entries /\ q[i].name \in Named
  <2>1. Len(q) \in Nat /\ DOMAIN q = 1 .. Len(q) /\ \A i \in 1 .. Len(q) : q[i] \in Entries
    OBVIOUS
  <2> QED
    BY <2>1, EntryFacts
<1>2. PlaceOf(q, e) = IF upTo = {} THEN 1 ELSE Max(upTo) + 1
  BY DEF PlaceOf, SortPlace
<1>3. upTo = {i \in 1 .. Len(q) : DnsStrcmp(q[i].name, e.name) <= 0}
  BY <1>1
<1> HIDE DEF upTo
<1>4. \A i \in 1 .. Len(q) : DnsStrcmp(q[i].name, e.name) > 0 => DnsStrcmp(e.name, q[i].name) < 0
  <2> SUFFICES ASSUME NEW i \in 1 .. Len(q), DnsStrcmp(q[i].name, e.name) > 0
               PROVE  DnsStrcmp(e.name, q[i].name) < 0
    OBVIOUS
  <2>1. DnsStrcmp(q[i].name, e.name) \in Int /\ DnsStrcmp(e.name, q[i].name) = -DnsStrcmp(q[i].name, e.name)
    BY <1>1, NamesOrdered
  <2> QED
    BY <2>1
<1>5. \A i \in 1 .. Len(q) : DnsStrcmp(q[i].name, e.name) \in Int
  BY <1>1, NamesOrdered
<1>6. CASE upTo = {}
  <2>1. PlaceOf(q, e) = 1
    BY <1>2, <1>6
  <2>2. \A i \in 1 .. Len(q) : DnsStrcmp(q[i].name, e.name) > 0
    BY <1>3, <1>5, <1>6
  <2> QED
    BY <1>1, <1>4, <2>1, <2>2
<1>7. CASE upTo # {}
  <2>1. upTo \subseteq 0 .. Len(q)
    BY <1>3
  <2>2. PICK m \in upTo : m = Max(upTo) /\ \A j \in upTo : j <= m
    BY <1>1, <1>7, <2>1, MaxFacts
  <2>3. m \in 1 .. Len(q) /\ DnsStrcmp(q[m].name, e.name) <= 0 /\ PlaceOf(q, e) = m + 1
    BY <1>2, <1>3, <1>7, <2>2
  <2>4. ASSUME NEW i \in 1 .. Len(q), i <= m PROVE DnsStrcmp(q[i].name, e.name) <= 0
    <3>1. CASE i = m
      BY <2>3, <3>1
    <3>2. CASE i < m
      <4>1. Before(q[i], q[m])
        BY <2>3, <3>2 DEF InOrder
      <4>2. q[i].name \in Named /\ q[m].name \in Named
        BY <1>1, <2>3
      <4>3. DnsStrcmp(q[i].name, q[m].name) \in Int
        BY <4>2, NamesOrdered
      <4>4. DnsStrcmp(q[i].name, q[m].name) <= 0
        BY <4>1, <4>3 DEF Before
      <4> QED
        BY <1>1, <2>3, <4>2, <4>4, NamesOrdered
    <3> QED
      BY <1>1, <2>3, <2>4, <3>1, <3>2
  <2>5. ASSUME NEW i \in 1 .. Len(q), i > m PROVE DnsStrcmp(e.name, q[i].name) < 0
    <3>1. i \notin upTo
      BY <1>1, <2>2, <2>3, <2>5
    <3>2. DnsStrcmp(q[i].name, e.name) > 0
      BY <1>3, <1>5, <3>1
    <3> QED
      BY <1>4, <3>2
  <2> QED
    BY <1>1, <2>3, <2>4, <2>5
<1> QED
  BY <1>6, <1>7

\* An element that comes later joins those in order.
LEMMA InsertsInOrder ==
  ASSUME NEW q \in Seq(Entries), InOrder(q), NEW e \in Entries, Earlier(q, e)
  PROVE  LET r == InsertAt(q, PlaceOf(q, e), e)
         IN  /\ r \in Seq(Entries) /\ InOrder(r) /\ Len(r) = Len(q) + 1
             /\ ToSet(r) = ToSet(q) \cup {e}
<1> DEFINE r == InsertAt(q, PlaceOf(q, e), e)
<1>1. PICK p \in 1 .. Len(q) + 1 :
        /\ p = PlaceOf(q, e)
        /\ \A i \in 1 .. Len(q) : /\ i < p => DnsStrcmp(q[i].name, e.name) <= 0
                                  /\ i >= p => DnsStrcmp(e.name, q[i].name) < 0
  BY PlaceFacts
<1>2. /\ r \in Seq(Entries) /\ Len(r) = Len(q) + 1
      /\ \A i \in 1 .. Len(q) + 1 : r[i] = IF i < p THEN q[i] ELSE IF i = p THEN e ELSE q[i - 1]
  BY <1>1, InsertAtFacts
<1>3. Len(q) \in Nat /\ p \in Nat /\ p >= 1 /\ p <= Len(q) + 1
  BY <1>1
<1> HIDE DEF r
<1>4. ASSUME NEW i \in 1 .. Len(q), i < p PROVE Before(q[i], e)
  <2>1. q[i].id < e.id /\ DnsStrcmp(q[i].name, e.name) <= 0
    BY <1>1, <1>4 DEF Earlier
  <2>2. q[i].name \in Named /\ e.name \in Named
    <3>1. q[i] \in Entries
      OBVIOUS
    <3> QED
      BY <3>1, EntryFacts
  <2>3. DnsStrcmp(q[i].name, e.name) \in Int
    BY <2>2, NamesOrdered
  <2> QED
    BY <2>1, <2>3 DEF Before
<1>5. ASSUME NEW i \in 1 .. Len(q), i >= p PROVE Before(e, q[i])
  BY <1>1, <1>5 DEF Before
<1>6. InOrder(r)
  <2> SUFFICES ASSUME NEW i \in 1 .. Len(q) + 1, NEW j \in 1 .. Len(q) + 1, i < j
               PROVE  Before(r[i], r[j])
    BY <1>2 DEF InOrder
  <2>1. CASE j < p
    <3>1. r[i] = q[i] /\ r[j] = q[j] /\ i \in 1 .. Len(q) /\ j \in 1 .. Len(q)
      BY <1>2, <1>3, <2>1
    <3> QED
      BY <3>1 DEF InOrder
  <2>2. CASE j = p
    <3>1. r[i] = q[i] /\ r[j] = e /\ i \in 1 .. Len(q) /\ i < p
      BY <1>2, <1>3, <2>2
    <3> QED
      BY <1>4, <3>1
  <2>3. CASE j > p /\ i < p
    <3>1. r[i] = q[i] /\ r[j] = q[j - 1] /\ i \in 1 .. Len(q) /\ j - 1 \in 1 .. Len(q) /\ i < j - 1
      BY <1>2, <1>3, <2>3
    <3> QED
      BY <3>1 DEF InOrder
  <2>4. CASE j > p /\ i = p
    <3>1. r[i] = e /\ r[j] = q[j - 1] /\ j - 1 \in 1 .. Len(q) /\ j - 1 >= p
      BY <1>2, <1>3, <2>4
    <3> QED
      BY <1>5, <3>1
  <2>5. CASE j > p /\ i > p
    <3>1. /\ r[i] = q[i - 1] /\ r[j] = q[j - 1]
          /\ i - 1 \in 1 .. Len(q) /\ j - 1 \in 1 .. Len(q) /\ i - 1 < j - 1
      BY <1>2, <1>3, <2>5
    <3> QED
      BY <3>1 DEF InOrder
  <2> QED
    BY <1>3, <2>1, <2>2, <2>3, <2>4, <2>5
<1>7. ToSet(r) = ToSet(q) \cup {e}
  <2>1. DOMAIN q = 1 .. Len(q) /\ DOMAIN r = 1 .. Len(q) + 1
    BY <1>2
  <2>2. ASSUME NEW i \in 1 .. Len(q) + 1 PROVE r[i] \in ToSet(q) \cup {e}
    <3>1. i < p => i \in 1 .. Len(q)
      BY <1>3
    <3>2. i > p => i - 1 \in 1 .. Len(q)
      BY <1>3
    <3> QED
      BY <1>2, <1>3, <2>1, <3>1, <3>2 DEF ToSet
  <2>3. ASSUME NEW i \in 1 .. Len(q) PROVE q[i] \in ToSet(r)
    <3>1. CASE i < p
      <4>1. i \in 1 .. Len(q) + 1 /\ r[i] = q[i]
        BY <1>2, <1>3, <3>1
      <4> QED
        BY <2>1, <4>1 DEF ToSet
    <3>2. CASE i >= p
      <4>1. i + 1 \in 1 .. Len(q) + 1 /\ r[i + 1] = q[i]
        BY <1>2, <1>3, <3>2
      <4> QED
        BY <2>1, <4>1 DEF ToSet
    <3> QED
      BY <1>3, <3>1, <3>2
  <2>4. e \in ToSet(r)
    <3>1. p \in DOMAIN r /\ r[p] = e
      BY <1>2, <1>3, <2>1
    <3> QED
      BY <3>1 DEF ToSet
  <2>5. \A x : x \in ToSet(r) => \E i \in 1 .. Len(q) + 1 : x = r[i]
    BY <2>1 DEF ToSet
  <2>6. \A x : x \in ToSet(q) => \E i \in 1 .. Len(q) : x = q[i]
    BY <2>1 DEF ToSet
  <2> QED
    BY <2>2, <2>3, <2>4, <2>5, <2>6
<1> QED
  BY <1>2, <1>6, <1>7 DEF r

\* What rap_sort builds.
SortRuns(base, h) ==
  h = [n \in 0 .. Len(base) |->
         IF n = 0 THEN << >> ELSE InsertAt(h[n - 1], PlaceOf(h[n - 1], base[n]), base[n])]

LEMMA SortRunsExist ==
  ASSUME NEW base \in Seq(Entries)
  PROVE  \E h : SortRuns(base, h)
<1> DEFINE N == Len(base)
<1> DEFINE S == Seq(Entries)
<1> DEFINE x == << >>
<1> DEFINE next == [n \in 1 .. N |-> [y \in S |-> InsertAt(y, PlaceOf(y, base[n]), base[n])]]
<1>1. N \in Nat /\ \A n \in 1 .. N : base[n] \in Entries
  OBVIOUS
<1>2. x \in S
  OBVIOUS
<1>3. Closed(S, next, N)
  <2> SUFFICES ASSUME NEW n \in 1 .. N, NEW y \in S PROVE next[n][y] \in S
    BY DEF Closed
  <2>1. PICK p \in 1 .. Len(y) + 1 : p = PlaceOf(y, base[n])
    BY <1>1, PlaceIn
  <2>2. InsertAt(y, p, base[n]) \in S
    BY <1>1, InsertAtFacts
  <2> QED
    BY <2>1, <2>2
<1>4. PICK f : Runs(S, x, next, N, f)
  <2> HIDE DEF next, N, S, x
  <2> QED
    BY <1>1, <1>2, <1>3, Recursion
<1>5. \A n \in 1 .. N : f[n] = InsertAt(f[n - 1], PlaceOf(f[n - 1], base[n]), base[n])
  <2> TAKE n \in 1 .. N
  <2>1. n - 1 \in 0 .. N
    BY <1>1
  <2>2. f[n - 1] \in S /\ f[n] = next[n][f[n - 1]]
    <3> HIDE DEF next, N, S
    <3> QED
      BY <1>4, <2>1 DEF Runs
  <2>3. \A y \in S : next[n][y] = InsertAt(y, PlaceOf(y, base[n]), base[n])
    OBVIOUS
  <2> HIDE DEF next, N, S
  <2> QED
    BY <2>2, <2>3
<1>6. f = [n \in 0 .. N |-> f[n]] /\ f[0] = << >>
  BY <1>4 DEF Runs
<1> HIDE DEF next
<1>7. \A n \in 0 .. N : f[n] = IF n = 0 THEN << >>
                                ELSE InsertAt(f[n - 1], PlaceOf(f[n - 1], base[n]), base[n])
  <2> TAKE n \in 0 .. N
  <2>1. n = 0 \/ (n # 0 /\ n \in 1 .. N)
    BY <1>1
  <2> HIDE DEF N
  <2> QED
    BY <1>5, <1>6, <2>1
<1>8. SortRuns(base, f)
  BY <1>6, <1>7 DEF SortRuns
<1> QED
  BY <1>8

\* It orders any elements whose ids tell the given order, and loses none.
LEMMA SortsInOrder ==
  ASSUME NEW base \in Seq(Entries), \A i, j \in 1 .. Len(base) : i < j => base[i].id < base[j].id
  PROVE  /\ Sorted(base) \in Seq(Entries) /\ InOrder(Sorted(base))
         /\ Len(Sorted(base)) = Len(base) /\ ToSet(Sorted(base)) = ToSet(base)
<1> DEFINE g == CHOOSE h : SortRuns(base, h)
<1> DEFINE N == Len(base)
<1>1. SortRuns(base, g)
  BY SortRunsExist
<1>2. Sorted(base) = g[N]
  BY DEF Sorted, Sort, SortRuns, PlaceOf
<1> HIDE DEF g
<1>3. N \in Nat /\ DOMAIN base = 1 .. N /\ \A n \in 1 .. N : base[n] \in Entries
  OBVIOUS
<1>4. g[0] = << >> /\ \A n \in 1 .. N : g[n] = InsertAt(g[n - 1], PlaceOf(g[n - 1], base[n]), base[n])
  <2>1. \A n \in 0 .. N : g[n] = IF n = 0 THEN << >>
                                  ELSE InsertAt(g[n - 1], PlaceOf(g[n - 1], base[n]), base[n])
    BY <1>1 DEF SortRuns
  <2>2. 0 \in 0 .. N /\ \A n \in 1 .. N : n \in 0 .. N /\ n # 0
    BY <1>3
  <2> HIDE DEF N
  <2> QED
    BY <2>1, <2>2
<1> DEFINE first(n) == {base[i] : i \in 1 .. n}
<1> DEFINE Good(n) == /\ g[n] \in Seq(Entries) /\ InOrder(g[n]) /\ Len(g[n]) = n
                      /\ ToSet(g[n]) = first(n)
<1> DEFINE P == {n \in 0 .. N : Good(n)}
<1>5. Good(0)
  <2>1. Len(<< >>) = 0 /\ << >> \in Seq(Entries) /\ ToSet(<< >>) = {} /\ InOrder(<< >>)
    BY DEF ToSet, InOrder
  <2>2. first(0) = {}
    OBVIOUS
  <2> HIDE DEF first
  <2> QED
    BY <1>4, <2>1, <2>2
<1>6. ASSUME NEW n \in 1 .. N, Good(n - 1) PROVE Good(n)
  <2>1. PICK q \in Seq(Entries) : q = g[n - 1]
    BY <1>6
  <2>2. InOrder(q) /\ Len(q) = n - 1 /\ ToSet(q) = first(n - 1)
    BY <1>6, <2>1
  <2>3. PICK e \in Entries : e = base[n]
    BY <1>3
  <2>4. Earlier(q, e)
    <3> SUFFICES ASSUME NEW i \in 1 .. Len(q) PROVE q[i].id < e.id
      BY DEF Earlier
    <3>1. q[i] \in ToSet(q)
      BY DEF ToSet
    <3>2. PICK k \in 1 .. n - 1 : q[i] = base[k]
      BY <2>2, <3>1
    <3>3. k \in 1 .. N /\ k < n
      BY <1>3
    <3> QED
      BY <2>3, <3>2, <3>3
  <2>5. g[n] = InsertAt(q, PlaceOf(q, e), e)
    BY <1>4, <2>1, <2>3
  <2>6. /\ g[n] \in Seq(Entries) /\ InOrder(g[n]) /\ Len(g[n]) = Len(q) + 1
        /\ ToSet(g[n]) = ToSet(q) \cup {e}
    BY <2>2, <2>4, <2>5, InsertsInOrder
  <2>7. first(n) = first(n - 1) \cup {e}
    <3>1. \A i : i \in 1 .. n <=> i \in 1 .. n - 1 \/ i = n
      BY <1>3
    <3> QED
      BY <2>3, <3>1
  <2>8. Len(g[n]) = n
    BY <2>2, <2>6
  <2> HIDE DEF first
  <2> QED
    BY <2>2, <2>6, <2>7, <2>8
<1>7. N \in P
  <2> HIDE DEF Good
  <2>1. 0 \in P
    BY <1>3, <1>5
  <2>2. \A n \in 0 + 1 .. N : n - 1 \in P => n \in P
    BY <1>3, <1>6
  <2> HIDE DEF P, N
  <2>3. \A n \in 0 .. N : n \in P
    BY <1>3, <2>1, <2>2, GoesOn
  <2> QED
    BY <1>3, <2>3
<1>8. first(N) = ToSet(base)
  BY <1>3 DEF ToSet
<1> QED
  BY <1>2, <1>7, <1>8

(***************************************************************************)
(* SortsStably: rap_sort, given memory for one element, orders names by    *)
(* rap_dns_strcmp, loses none, and keeps the order of equal ones           *)
(* (rap_string.c:1837).                                                    *)
(***************************************************************************)
THEOREM SortIsStable == Spec => []SortsStably
<1>1. Init => SortsStably
  BY DEF Init, Idle, SortsStably
<1>2. SortsStably /\ [Next]_vars => SortsStably'
  <2> SUFFICES ASSUME SortsStably, [Next]_vars PROVE SortsStably'
    OBVIOUS
  <2>1. CASE SortWords
    <3>0. PICK s1 \in Names, s2 \in Names, s3 \in Names, failed \in BOOLEAN :
            LET base == <<[name |-> s1, id |-> 1], [name |-> s2, id |-> 2], [name |-> s3, id |-> 3]>>
            IN  Calls([fn |-> "sort", failed |-> failed, base |-> base],
                      IF failed THEN base ELSE Sorted(base))
      BY <2>1 DEF SortWords
    <3>1. PICK base :
            /\ base = <<[name |-> s1, id |-> 1], [name |-> s2, id |-> 2], [name |-> s3, id |-> 3]>>
            /\ Calls([fn |-> "sort", failed |-> failed, base |-> base],
                     IF failed THEN base ELSE Sorted(base))
      BY <3>0
    <3>2. /\ call' = [fn |-> "sort", failed |-> failed, base |-> base]
          /\ result' = IF failed THEN base ELSE Sorted(base)
      BY <3>1 DEF Calls
    <3>3. call'.fn = "sort" /\ call'.failed = failed /\ call'.base = base
      BY <3>2
    <3> SUFFICES ASSUME ~ failed, AboveBlank({n.name : n \in ToSet(base)})
                 PROVE  /\ ToSet(Sorted(base)) = ToSet(base) /\ Len(Sorted(base)) = Len(base)
                        /\ \A i, j \in DOMAIN Sorted(base) : i < j => Before(Sorted(base)[i], Sorted(base)[j])
      BY <3>2, <3>3 DEF SortsStably, Before
    <3>4. /\ Len(base) = 3 /\ DOMAIN base = 1 .. 3
          /\ base[1] = [name |-> s1, id |-> 1] /\ base[2] = [name |-> s2, id |-> 2]
          /\ base[3] = [name |-> s3, id |-> 3]
      BY <3>1
    <3>5. \A s \in {s1, s2, s3} : s \in WordTexts /\ s \in {n.name : n \in ToSet(base)}
      <4>1. s1 \in WordTexts /\ s2 \in WordTexts /\ s3 \in WordTexts
        BY InputsAssumption DEF WordTexts, Bytes
      <4>2. base[1] \in ToSet(base) /\ base[2] \in ToSet(base) /\ base[3] \in ToSet(base)
        BY <3>4 DEF ToSet
      <4>3. base[1].name = s1 /\ base[2].name = s2 /\ base[3].name = s3
        BY <3>4
      <4> QED
        BY <4>1, <4>2, <4>3
    <3>6. s1 \in Named /\ s2 \in Named /\ s3 \in Named
      BY <3>5 DEF AboveBlank, Named
    <3>7. base \in Seq(Entries)
      <4>1. /\ [name |-> s1, id |-> 1] \in Entries /\ [name |-> s2, id |-> 2] \in Entries
            /\ [name |-> s3, id |-> 3] \in Entries
        BY <3>6 DEF Entries
      <4> QED
        BY <3>1, <4>1
    <3>8. \A i, j \in 1 .. Len(base) : i < j => base[i].id < base[j].id
      <4>1. base[1].id = 1 /\ base[2].id = 2 /\ base[3].id = 3
        BY <3>4
      <4>2. \A i \in 1 .. 3 : i = 1 \/ i = 2 \/ i = 3
        OBVIOUS
      <4>3. \A i \in 1 .. 3 : base[i].id = i
        BY <4>1, <4>2
      <4> QED
        BY <3>4, <4>3
    <3>9. /\ Sorted(base) \in Seq(Entries) /\ InOrder(Sorted(base))
          /\ Len(Sorted(base)) = Len(base) /\ ToSet(Sorted(base)) = ToSet(base)
      BY <3>7, <3>8, SortsInOrder
    <3>10. DOMAIN Sorted(base) = 1 .. Len(Sorted(base))
      BY <3>9
    <3> QED
      BY <3>9, <3>10 DEF InOrder
  <2>2. CASE Next /\ ~ SortWords
    <3>1. call'.fn # "sort"
      BY <2>2, CallsMade DEF Next
    <3> QED
      BY <3>1 DEF SortsStably
  <2>3. CASE UNCHANGED vars
    BY <2>3 DEF vars, SortsStably
  <2> QED
    BY <2>1, <2>2, <2>3
<1> QED
  BY <1>1, <1>2, PTL DEF Spec

-----------------------------------------------------------------------------
(***************************************************************************)
(* The room of the encodings: what is written for each byte, and what the  *)
(* counting pass adds for it.                                              *)
(***************************************************************************)
Octets == 0 .. 255

\* images and rooms are functions of the octets.
Maps(src, images, f) ==
  /\ f[0] = << >>
  /\ \A n \in 1 .. Len(src) : f[n] = f[n - 1] \o images[src[n]]

Sums(src, rooms, f) ==
  /\ f[0] = 0
  /\ \A n \in 1 .. Len(src) : f[n] = f[n - 1] + rooms[src[n]]

LEMMA MapsExist ==
  ASSUME NEW src \in Seq(Octets), NEW images \in [Octets -> Seq(Int)]
  PROVE  \E f : Maps(src, images, f) /\ f = [n \in 0 .. Len(src) |-> f[n]]
<1> DEFINE N == Len(src)
<1> DEFINE S == Seq(Int)
<1> DEFINE x == << >>
<1> DEFINE next == [n \in 1 .. N |-> [y \in S |-> y \o images[src[n]]]]
<1>1. N \in Nat /\ x \in S /\ \A n \in 1 .. N : images[src[n]] \in S
  OBVIOUS
<1>2. Closed(S, next, N)
  BY <1>1 DEF Closed
<1>3. PICK f : Runs(S, x, next, N, f)
  <2> HIDE DEF next, N, S, x
  <2> QED
    BY <1>1, <1>2, Recursion
<1>4. \A n \in 1 .. N : f[n] = f[n - 1] \o images[src[n]]
  <2> TAKE n \in 1 .. N
  <2>1. n - 1 \in 0 .. N
    BY <1>1
  <2>2. f[n - 1] \in S /\ f[n] = next[n][f[n - 1]]
    <3> HIDE DEF next, N, S
    <3> QED
      BY <1>3, <2>1 DEF Runs
  <2>3. \A y \in S : next[n][y] = y \o images[src[n]]
    OBVIOUS
  <2> HIDE DEF next, N, S
  <2> QED
    BY <2>2, <2>3
<1>5. f = [n \in 0 .. N |-> f[n]] /\ f[0] = << >>
  BY <1>3 DEF Runs
<1> QED
  BY <1>4, <1>5 DEF Maps

LEMMA SumsExist ==
  ASSUME NEW src \in Seq(Octets), NEW rooms \in [Octets -> Nat]
  PROVE  \E f : Sums(src, rooms, f) /\ f = [n \in 0 .. Len(src) |-> f[n]]
<1> DEFINE N == Len(src)
<1> DEFINE next == [n \in 1 .. N |-> [y \in Nat |-> y + rooms[src[n]]]]
<1>1. N \in Nat /\ 0 \in Nat /\ \A n \in 1 .. N : rooms[src[n]] \in Nat
  OBVIOUS
<1>2. Closed(Nat, next, N)
  BY <1>1 DEF Closed
<1>3. PICK f : Runs(Nat, 0, next, N, f)
  <2> HIDE DEF next, N
  <2> QED
    BY <1>1, <1>2, Recursion
<1>4. \A n \in 1 .. N : f[n] = f[n - 1] + rooms[src[n]]
  <2> TAKE n \in 1 .. N
  <2>1. n - 1 \in 0 .. N
    BY <1>1
  <2>2. f[n - 1] \in Nat /\ f[n] = next[n][f[n - 1]]
    <3> HIDE DEF next, N
    <3> QED
      BY <1>3, <2>1 DEF Runs
  <2>3. \A y \in Nat : next[n][y] = y + rooms[src[n]]
    OBVIOUS
  <2> HIDE DEF next, N
  <2> QED
    BY <2>2, <2>3
<1>5. f = [n \in 0 .. N |-> f[n]] /\ f[0] = 0
  BY <1>3 DEF Runs
<1> QED
  BY <1>4, <1>5 DEF Sums

\* What is written is as long as the text and what was counted for it.
Weighed(k, m) == IF k = 2 THEN 2 * m ELSE m

Fits(images, rooms, k) ==
  /\ images \in [Octets -> Seq(Int)] /\ rooms \in [Octets -> Nat]
  /\ \A c \in Octets : Len(images[c]) = 1 + Weighed(k, rooms[c])

LEMMA WrittenIsCounted ==
  ASSUME NEW src \in Seq(Octets), NEW images, NEW rooms, NEW k, Fits(images, rooms, k),
         NEW f, Maps(src, images, f), NEW g, Sums(src, rooms, g)
  PROVE  g[Len(src)] \in Nat /\ Len(f[Len(src)]) = Len(src) + Weighed(k, g[Len(src)])
<1> USE DEF Fits
<1> DEFINE N == Len(src)
<1> DEFINE Good(n) == f[n] \in Seq(Int) /\ g[n] \in Nat /\ Len(f[n]) = n + Weighed(k, g[n])
<1> DEFINE P == {n \in 0 .. N : Good(n)}
<1>1. N \in Nat /\ \A n \in 1 .. N : src[n] \in Octets
  OBVIOUS
<1>2. Good(0)
  <2>1. f[0] = << >> /\ g[0] = 0
    BY DEF Maps, Sums
  <2>2. << >> \in Seq(Int) /\ Len(<< >>) = 0 /\ 0 \in Nat /\ Weighed(k, 0) = 0
    BY DEF Weighed
  <2> QED
    BY <2>1, <2>2
<1>3. ASSUME NEW n \in 1 .. N, Good(n - 1) PROVE Good(n)
  <2>1. PICK t \in Seq(Int) : t = images[src[n]]
    BY <1>1
  <2>2. PICK m \in Nat : m = rooms[src[n]]
    BY <1>1
  <2>3. Len(t) = 1 + Weighed(k, m)
    BY <1>1, <2>1, <2>2
  <2>4. PICK q \in Seq(Int) : q = f[n - 1]
    BY <1>3
  <2>5. PICK l \in Nat : l = g[n - 1] /\ Len(q) = n - 1 + Weighed(k, l)
    BY <1>3, <2>4
  <2>6. f[n] = q \o t
    BY <2>1, <2>4 DEF Maps
  <2>7. g[n] = l + m
    BY <2>2, <2>5 DEF Sums
  <2>8. Len(q \o t) = Len(q) + Len(t) /\ q \o t \in Seq(Int)
    OBVIOUS
  <2>9. Len(q) + Len(t) = n + Weighed(k, l + m)
    <3>1. PICK a \in Int, b \in Int : a = Len(q) /\ b = Len(t)
      OBVIOUS
    <3>2. CASE k = 2
      <4>1. a = n - 1 + 2 * l /\ b = 1 + 2 * m /\ Weighed(k, l + m) = 2 * (l + m)
        BY <2>3, <2>5, <3>1, <3>2 DEF Weighed
      <4> QED
        BY <3>1, <4>1
    <3>3. CASE k # 2
      <4>1. a = n - 1 + l /\ b = 1 + m /\ Weighed(k, l + m) = l + m
        BY <2>3, <2>5, <3>1, <3>3 DEF Weighed
      <4> QED
        BY <3>1, <4>1
    <3> QED
      BY <3>2, <3>3
  <2>10. Len(f[n]) = n + Weighed(k, g[n])
    BY <2>6, <2>7, <2>8, <2>9
  <2>11. f[n] \in Seq(Int) /\ g[n] \in Nat
    BY <2>6, <2>7, <2>8
  <2> QED
    BY <2>10, <2>11
<1> HIDE DEF Good
<1>4. N \in P
  <2>1. 0 \in P
    BY <1>1, <1>2
  <2>2. \A n \in 0 + 1 .. N : n - 1 \in P => n \in P
    BY <1>1, <1>3
  <2> HIDE DEF N, P
  <2>3. \A n \in 0 .. N : n \in P
    BY <1>1, <2>1, <2>2, GoesOn
  <2> QED
    BY <1>1, <2>3
<1> QED
  BY <1>4 DEF Good

\* The images of HTML, and what is counted for them.
LEMMA HtmlRoomFits ==
  ASSUME NEW src \in Seq(Octets)
  PROVE  Len(EscapeHtml(src)) = Len(src) + EscapeHtmlCount(src)
<1> DEFINE images == [c \in Octets |-> Entity(c)]
<1> DEFINE rooms == [c \in Octets |-> EntityRoom(c)]
<1> DEFINE N == Len(src)
<1> DEFINE Body(h) == h = [n \in 0 .. N |-> IF n = 0 THEN << >> ELSE h[n - 1] \o Entity(src[n])]
<1> DEFINE Count(h) == h = [n \in 0 .. N |-> IF n = 0 THEN 0 ELSE h[n - 1] + EntityRoom(src[n])]
<1>1. N \in Nat /\ \A n \in 1 .. N : src[n] \in Octets
  OBVIOUS
<1>2. \A c \in Octets : Entity(c) \in Seq(Int) /\ EntityRoom(c) \in Nat /\ Len(Entity(c)) = 1 + EntityRoom(c)
  <2> TAKE c \in Octets
  <2>0. c \in Int
    BY DEF Octets
  <2>1. CASE c = 60
    BY <2>1 DEF Entity, EntityRoom
  <2>2. CASE c = 62
    BY <2>2 DEF Entity, EntityRoom
  <2>3. CASE c = 38
    BY <2>3 DEF Entity, EntityRoom
  <2>4. CASE c = 34
    BY <2>4 DEF Entity, EntityRoom
  <2>5. CASE c \notin {60, 62, 38, 34}
    <3>1. Entity(c) = <<c>> /\ EntityRoom(c) = 0
      BY <2>5 DEF Entity, EntityRoom
    <3> QED
      BY <2>0, <3>1
  <2> QED
    BY <2>1, <2>2, <2>3, <2>4, <2>5
<1>3. /\ images \in [Octets -> Seq(Int)] /\ rooms \in [Octets -> Nat]
      /\ \A c \in Octets : Len(images[c]) = 1 + Weighed(1, rooms[c])
  BY <1>2 DEF Weighed
<1>4. \E h : Body(h)
  <2>1. PICK f : Maps(src, images, f) /\ f = [n \in 0 .. N |-> f[n]]
    <3> HIDE DEF images
    <3> QED
      BY <1>3, MapsExist
  <2>2. \A n \in 0 .. N : f[n] = IF n = 0 THEN << >> ELSE f[n - 1] \o Entity(src[n])
    <3> TAKE n \in 0 .. N
    <3>1. n = 0 \/ (n # 0 /\ n \in 1 .. N)
      BY <1>1
    <3>2. n \in 1 .. N => images[src[n]] = Entity(src[n])
      BY <1>1
    <3> HIDE DEF images
    <3> QED
      BY <2>1, <3>1, <3>2 DEF Maps
  <2>3. Body(f)
    BY <2>1, <2>2
  <2> QED
    BY <2>3
<1>5. \E h : Count(h)
  <2>1. PICK f : Sums(src, rooms, f) /\ f = [n \in 0 .. N |-> f[n]]
    <3> HIDE DEF rooms
    <3> QED
      BY <1>3, SumsExist
  <2>2. \A n \in 0 .. N : f[n] = IF n = 0 THEN 0 ELSE f[n - 1] + EntityRoom(src[n])
    <3> TAKE n \in 0 .. N
    <3>1. n = 0 \/ (n # 0 /\ n \in 1 .. N)
      BY <1>1
    <3>2. n \in 1 .. N => rooms[src[n]] = EntityRoom(src[n])
      BY <1>1
    <3> HIDE DEF rooms
    <3> QED
      BY <2>1, <3>1, <3>2 DEF Sums
  <2>3. Count(f)
    BY <2>1, <2>2
  <2> QED
    BY <2>3
<1> DEFINE f == CHOOSE h : Body(h)
<1> DEFINE g == CHOOSE h : Count(h)
<1>6. Body(f) /\ Count(g)
  BY <1>4, <1>5
<1>7. EscapeHtml(src) = f[N] /\ EscapeHtmlCount(src) = g[N]
  BY DEF EscapeHtml, EscapeHtmlCount, Mapped, Total
<1> HIDE DEF f, g
<1>8. Maps(src, images, f)
  <2>1. f[0] = << >>
    BY <1>1, <1>6
  <2>2. \A n \in 1 .. N : f[n] = f[n - 1] \o Entity(src[n])
    <3>1. \A n \in 0 .. N : f[n] = IF n = 0 THEN << >> ELSE f[n - 1] \o Entity(src[n])
      <4> HIDE DEF N
      <4> QED
        BY <1>6
    <3>2. \A n \in 1 .. N : n \in 0 .. N /\ n # 0
      BY <1>1
    <3> HIDE DEF N
    <3> QED
      BY <3>1, <3>2
  <2>3. \A n \in 1 .. N : images[src[n]] = Entity(src[n])
    BY <1>1
  <2> HIDE DEF images
  <2> QED
    BY <2>1, <2>2, <2>3 DEF Maps
<1>9. Sums(src, rooms, g)
  <2>1. g[0] = 0
    BY <1>1, <1>6
  <2>2. \A n \in 1 .. N : g[n] = g[n - 1] + EntityRoom(src[n])
    BY <1>1, <1>6
  <2>3. \A n \in 1 .. N : rooms[src[n]] = EntityRoom(src[n])
    BY <1>1
  <2> HIDE DEF rooms
  <2> QED
    BY <2>1, <2>2, <2>3 DEF Sums
<1> HIDE DEF images, rooms
<1>10. g[N] \in Nat /\ Len(f[N]) = N + Weighed(1, g[N])
  <2>1. Fits(images, rooms, 1)
    BY <1>3 DEF Fits
  <2> QED
    BY <1>8, <1>9, <2>1, WrittenIsCounted
<1> QED
  BY <1>7, <1>10 DEF Weighed

\* The images of JSON, and what is counted for them.
LEMMA JsonRoomFits ==
  ASSUME NEW src \in Seq(Octets)
  PROVE  Len(EscapeJson(src)) = Len(src) + EscapeJsonCount(src)
<1> DEFINE images == [c \in Octets |-> JsonImage(c)]
<1> DEFINE rooms == [c \in Octets |-> JsonRoom(c)]
<1> DEFINE N == Len(src)
<1> DEFINE Body(h) == h = [n \in 0 .. N |-> IF n = 0 THEN << >> ELSE h[n - 1] \o JsonImage(src[n])]
<1> DEFINE Count(h) == h = [n \in 0 .. N |-> IF n = 0 THEN 0 ELSE h[n - 1] + JsonRoom(src[n])]
<1>1. N \in Nat /\ \A n \in 1 .. N : src[n] \in Octets
  OBVIOUS
<1>2. \A c \in Octets : JsonImage(c) \in Seq(Int) /\ JsonRoom(c) \in Nat /\ Len(JsonImage(c)) = 1 + JsonRoom(c)
  <2> TAKE c \in Octets
  <2>0. c \in Int /\ c >= 0 /\ c \div 16 \in Int /\ c % 16 \in Int
    BY DEF Octets
  <2>1. CASE c \in {92, 34}
    <3>1. JsonImage(c) = <<92, c>>
      <4>1. c \notin ShortEscapes /\ ~ (c <= 31)
        BY <2>1 DEF ShortEscapes
      <4> QED
        BY <2>1, <4>1 DEF JsonImage
    <3>2. JsonRoom(c) = 1
      BY <2>1 DEF JsonRoom
    <3> QED
      BY <2>0, <3>1, <3>2
  <2>2. CASE c \in ShortEscapes
    <3>1. c \notin {92, 34} /\ c \in {10, 13, 9, 8, 12}
      BY <2>2 DEF ShortEscapes
    <3>2. ShortLetter(c) \in Int
      BY <3>1 DEF ShortLetter
    <3>3. JsonImage(c) = <<92, ShortLetter(c)>>
      BY <2>2, <3>1 DEF JsonImage
    <3>4. JsonRoom(c) = 1
      BY <2>2 DEF JsonRoom
    <3> HIDE DEF ShortLetter
    <3> QED
      BY <3>2, <3>3, <3>4
  <2>3. CASE c <= 31 /\ c \notin ShortEscapes
    <3>1. c \notin {92, 34}
      BY <2>0, <2>3
    <3>2. JsonImage(c) = <<92, 117, 48, 48, 48 + c \div 16, HexChar(c % 16)>>
      BY <2>3, <3>1 DEF JsonImage
    <3>3. 48 + c \div 16 \in Int /\ HexChar(c % 16) \in Int
      BY <2>0 DEF HexChar
    <3>4. JsonRoom(c) = 5
      BY <2>3, <3>1 DEF JsonRoom
    <3>5. PICK x \in Int, y \in Int : x = 48 + c \div 16 /\ y = HexChar(c % 16)
      BY <3>3
    <3>6. <<92, 117, 48, 48, x, y>> \in Seq(Int) /\ Len(<<92, 117, 48, 48, x, y>>) = 6
      OBVIOUS
    <3> QED
      BY <3>2, <3>4, <3>5, <3>6
  <2>4. CASE c \notin {92, 34} /\ c \notin ShortEscapes /\ ~ (c <= 31)
    <3>1. JsonImage(c) = <<c>> /\ JsonRoom(c) = 0
      BY <2>4 DEF JsonImage, JsonRoom
    <3> QED
      BY <2>0, <3>1
  <2> QED
    BY <2>1, <2>2, <2>3, <2>4
<1>3. /\ images \in [Octets -> Seq(Int)] /\ rooms \in [Octets -> Nat]
      /\ \A c \in Octets : Len(images[c]) = 1 + Weighed(1, rooms[c])
  BY <1>2 DEF Weighed
<1>4. \E h : Body(h)
  <2>1. PICK f : Maps(src, images, f) /\ f = [n \in 0 .. N |-> f[n]]
    <3> HIDE DEF images
    <3> QED
      BY <1>3, MapsExist
  <2>2. \A n \in 0 .. N : f[n] = IF n = 0 THEN << >> ELSE f[n - 1] \o JsonImage(src[n])
    <3> TAKE n \in 0 .. N
    <3>1. n = 0 \/ (n # 0 /\ n \in 1 .. N)
      BY <1>1
    <3>2. n \in 1 .. N => images[src[n]] = JsonImage(src[n])
      BY <1>1
    <3> HIDE DEF images
    <3> QED
      BY <2>1, <3>1, <3>2 DEF Maps
  <2>3. Body(f)
    BY <2>1, <2>2
  <2> QED
    BY <2>3
<1>5. \E h : Count(h)
  <2>1. PICK f : Sums(src, rooms, f) /\ f = [n \in 0 .. N |-> f[n]]
    <3> HIDE DEF rooms
    <3> QED
      BY <1>3, SumsExist
  <2>2. \A n \in 0 .. N : f[n] = IF n = 0 THEN 0 ELSE f[n - 1] + JsonRoom(src[n])
    <3> TAKE n \in 0 .. N
    <3>1. n = 0 \/ (n # 0 /\ n \in 1 .. N)
      BY <1>1
    <3>2. n \in 1 .. N => rooms[src[n]] = JsonRoom(src[n])
      BY <1>1
    <3> HIDE DEF rooms
    <3> QED
      BY <2>1, <3>1, <3>2 DEF Sums
  <2>3. Count(f)
    BY <2>1, <2>2
  <2> QED
    BY <2>3
<1> DEFINE f == CHOOSE h : Body(h)
<1> DEFINE g == CHOOSE h : Count(h)
<1>6. Body(f) /\ Count(g)
  BY <1>4, <1>5
<1>7. EscapeJson(src) = f[N] /\ EscapeJsonCount(src) = g[N]
  BY DEF EscapeJson, EscapeJsonCount, Mapped, Total
<1> HIDE DEF f, g
<1>8. Maps(src, images, f)
  <2>1. f[0] = << >>
    BY <1>1, <1>6
  <2>2. \A n \in 1 .. N : f[n] = f[n - 1] \o JsonImage(src[n])
    <3>1. \A n \in 0 .. N : f[n] = IF n = 0 THEN << >> ELSE f[n - 1] \o JsonImage(src[n])
      <4> HIDE DEF N
      <4> QED
        BY <1>6
    <3>2. \A n \in 1 .. N : n \in 0 .. N /\ n # 0
      BY <1>1
    <3> HIDE DEF N
    <3> QED
      BY <3>1, <3>2
  <2>3. \A n \in 1 .. N : images[src[n]] = JsonImage(src[n])
    BY <1>1
  <2> HIDE DEF images
  <2> QED
    BY <2>1, <2>2, <2>3 DEF Maps
<1>9. Sums(src, rooms, g)
  <2>1. g[0] = 0
    BY <1>1, <1>6
  <2>2. \A n \in 1 .. N : g[n] = g[n - 1] + JsonRoom(src[n])
    BY <1>1, <1>6
  <2>3. \A n \in 1 .. N : rooms[src[n]] = JsonRoom(src[n])
    BY <1>1
  <2> HIDE DEF rooms
  <2> QED
    BY <2>1, <2>2, <2>3 DEF Sums
<1> HIDE DEF images, rooms
<1>10. g[N] \in Nat /\ Len(f[N]) = N + Weighed(1, g[N])
  <2>1. Fits(images, rooms, 1)
    BY <1>3 DEF Fits
  <2> QED
    BY <1>8, <1>9, <2>1, WrittenIsCounted
<1> QED
  BY <1>7, <1>10 DEF Weighed

\* The images of a URI, and what is counted for them.
LEMMA UriRoomFits ==
  ASSUME NEW src \in Seq(Octets), NEW type \in DOMAIN EscapedBytes
  PROVE  Len(EscapeUri(src, type)) = Len(src) + 2 * EscapeUriCount(src, type)
<1> DEFINE image(c) == IF c \in EscapedBytes[type] THEN Quoted(c) ELSE <<c>>
<1> DEFINE room(c) == IF c \in EscapedBytes[type] THEN 1 ELSE 0
<1> DEFINE images == [c \in Octets |-> image(c)]
<1> DEFINE rooms == [c \in Octets |-> room(c)]
<1> DEFINE N == Len(src)
<1> DEFINE Body(h) == h = [n \in 0 .. N |-> IF n = 0 THEN << >> ELSE h[n - 1] \o image(src[n])]
<1> DEFINE Count(h) == h = [n \in 0 .. N |-> IF n = 0 THEN 0 ELSE h[n - 1] + room(src[n])]
<1>1. N \in Nat /\ \A n \in 1 .. N : src[n] \in Octets
  OBVIOUS
<1>2. \A c \in Octets : image(c) \in Seq(Int) /\ room(c) \in Nat /\ Len(image(c)) = 1 + 2 * room(c)
  <2> TAKE c \in Octets
  <2>1. c \in Int /\ HexChar(c \div 16) \in Int /\ HexChar(c % 16) \in Int
    BY DEF Octets, HexChar
  <2>2. CASE c \in EscapedBytes[type]
    <3>1. image(c) = <<37, HexChar(c \div 16), HexChar(c % 16)>> /\ room(c) = 1
      BY <2>2 DEF Quoted
    <3>2. PICK x \in Int, y \in Int : x = HexChar(c \div 16) /\ y = HexChar(c % 16)
      BY <2>1
    <3>3. <<37, x, y>> \in Seq(Int) /\ Len(<<37, x, y>>) = 3
      OBVIOUS
    <3>4. image(c) = <<37, x, y>>
      BY <3>1, <3>2
    <3> HIDE DEF image, room
    <3> QED
      BY <3>1, <3>3, <3>4
  <2>3. CASE c \notin EscapedBytes[type]
    <3>1. image(c) = <<c>> /\ room(c) = 0
      BY <2>3
    <3> QED
      BY <2>1, <3>1
  <2> QED
    BY <2>2, <2>3
<1>3. /\ images \in [Octets -> Seq(Int)] /\ rooms \in [Octets -> Nat]
      /\ \A c \in Octets : Len(images[c]) = 1 + Weighed(2, rooms[c])
  BY <1>2 DEF Weighed
<1>4. \E h : Body(h)
  <2>1. PICK f : Maps(src, images, f) /\ f = [n \in 0 .. N |-> f[n]]
    <3> HIDE DEF images, image
    <3> QED
      BY <1>3, MapsExist
  <2>2. \A n \in 0 .. N : f[n] = IF n = 0 THEN << >> ELSE f[n - 1] \o image(src[n])
    <3> TAKE n \in 0 .. N
    <3>1. n = 0 \/ (n # 0 /\ n \in 1 .. N)
      BY <1>1
    <3>2. n \in 1 .. N => images[src[n]] = image(src[n])
      BY <1>1
    <3> HIDE DEF images, image
    <3> QED
      BY <2>1, <3>1, <3>2 DEF Maps
  <2>3. Body(f)
    BY <2>1, <2>2
  <2> QED
    BY <2>3
<1>5. \E h : Count(h)
  <2>1. PICK f : Sums(src, rooms, f) /\ f = [n \in 0 .. N |-> f[n]]
    <3> HIDE DEF rooms, room
    <3> QED
      BY <1>3, SumsExist
  <2>2. \A n \in 0 .. N : f[n] = IF n = 0 THEN 0 ELSE f[n - 1] + room(src[n])
    <3> TAKE n \in 0 .. N
    <3>1. n = 0 \/ (n # 0 /\ n \in 1 .. N)
      BY <1>1
    <3>2. n \in 1 .. N => rooms[src[n]] = room(src[n])
      BY <1>1
    <3> HIDE DEF rooms, room
    <3> QED
      BY <2>1, <3>1, <3>2 DEF Sums
  <2>3. Count(f)
    BY <2>1, <2>2
  <2> QED
    BY <2>3
<1> DEFINE f == CHOOSE h : Body(h)
<1> DEFINE g == CHOOSE h : Count(h)
<1>6. Body(f) /\ Count(g)
  BY <1>4, <1>5
<1>7. EscapeUri(src, type) = f[N] /\ EscapeUriCount(src, type) = g[N]
  BY DEF EscapeUri, EscapeUriCount, Mapped, Total
<1> HIDE DEF f, g
<1>8. Maps(src, images, f)
  <2>1. f[0] = << >>
    BY <1>1, <1>6
  <2>2. \A n \in 1 .. N : f[n] = f[n - 1] \o image(src[n])
    <3>1. \A n \in 0 .. N : f[n] = IF n = 0 THEN << >> ELSE f[n - 1] \o image(src[n])
      <4> HIDE DEF N
      <4> QED
        BY <1>6
    <3>2. \A n \in 1 .. N : n \in 0 .. N /\ n # 0
      BY <1>1
    <3> HIDE DEF N
    <3> QED
      BY <3>1, <3>2
  <2>3. \A n \in 1 .. N : images[src[n]] = image(src[n])
    BY <1>1
  <2> HIDE DEF images, image
  <2> QED
    BY <2>1, <2>2, <2>3 DEF Maps
<1>9. Sums(src, rooms, g)
  <2>1. g[0] = 0
    BY <1>1, <1>6
  <2>2. \A n \in 1 .. N : g[n] = g[n - 1] + room(src[n])
    BY <1>1, <1>6
  <2>3. \A n \in 1 .. N : rooms[src[n]] = room(src[n])
    BY <1>1
  <2> HIDE DEF rooms, room
  <2> QED
    BY <2>1, <2>2, <2>3 DEF Sums
<1> HIDE DEF images, rooms
<1>10. g[N] \in Nat /\ Len(f[N]) = N + Weighed(2, g[N])
  <2>1. Fits(images, rooms, 2)
    BY <1>3 DEF Fits
  <2> QED
    BY <1>8, <1>9, <2>1, WrittenIsCounted
<1> QED
  BY <1>7, <1>10 DEF Weighed

\* A function of the first n numbers is a sequence of n elements.
LEMMA LengthOf ==
  ASSUME NEW n \in Nat, NEW h, DOMAIN h = 1 .. n, h = [i \in 1 .. n |-> h[i]]
  PROVE  Len(h) = n
<1>1. PICK S : S = {h[i] : i \in 1 .. n}
  OBVIOUS
<1>2. \A i \in 1 .. n : h[i] \in S
  BY <1>1
<1>3. h \in Seq(S)
  BY <1>2
<1> QED
  BY <1>3

\* The digits of base64, and the lengths a caller is told.
LEMMA Base64Room ==
  ASSUME NEW src \in Seq(Octets)
  PROVE  /\ Len(EncodeBase64(src, FALSE)) = EncodedLength(Len(src))
         /\ Len(EncodeBase64(src, TRUE)) <= EncodedLength(Len(src))
         /\ Len(src) <= DecodedLength(Len(EncodeBase64(src, TRUE)))
<1>1. PICK n \in Nat : n = Len(src)
  OBVIOUS
<1> DEFINE digits == (n * 4 + 2) \div 3
<1> DEFINE padding == (4 - (digits % 4)) % 4
<1>2. digits \in Nat /\ padding \in Nat
  OBVIOUS
<1>3. digits + padding = EncodedLength(n) /\ digits <= EncodedLength(n) /\ n <= DecodedLength(digits)
  <2>1. PICK q \in Nat, r \in {0, 1, 2} : n = 3 * q + r
    <3>1. PICK q \in Int : q = n \div 3
      OBVIOUS
    <3>2. PICK r \in Int : r = n % 3
      OBVIOUS
    <3>3. 0 <= r /\ r < 3
      BY <3>2
    <3>4. n = 3 * q + r
      BY <3>1, <3>2
    <3>5. q \in Nat /\ r \in {0, 1, 2}
      BY <3>3, <3>4
    <3> QED
      BY <3>4, <3>5
  <2>2. CASE r = 0
    <3>1. digits = 4 * q /\ (n + 2) \div 3 = q
      BY <2>1, <2>2
    <3>2. padding = 0
      BY <3>1
    <3>3. (4 * q + 3) \div 4 = q
      OBVIOUS
    <3> HIDE DEF digits, padding
    <3> QED
      BY <2>1, <2>2, <3>1, <3>2, <3>3 DEF EncodedLength, DecodedLength
  <2>3. CASE r = 1
    <3>1. digits = 4 * q + 2 /\ (n + 2) \div 3 = q + 1
      BY <2>1, <2>3
    <3>2. padding = 2
      BY <3>1
    <3>3. (4 * q + 2 + 3) \div 4 = q + 1
      OBVIOUS
    <3> HIDE DEF digits, padding
    <3> QED
      BY <2>1, <2>3, <3>1, <3>2, <3>3 DEF EncodedLength, DecodedLength
  <2>4. CASE r = 2
    <3>1. digits = 4 * q + 3 /\ (n + 2) \div 3 = q + 1
      BY <2>1, <2>4
    <3>2. padding = 1
      BY <3>1
    <3>3. (4 * q + 3 + 3) \div 4 = q + 1
      OBVIOUS
    <3> HIDE DEF digits, padding
    <3> QED
      BY <2>1, <2>4, <3>1, <3>2, <3>3 DEF EncodedLength, DecodedLength
  <2> QED
    BY <2>1, <2>2, <2>3, <2>4
<1>4. EncodeBase64(src, FALSE) =
        [i \in 1 .. digits + padding |-> IF i <= digits THEN Basis(SixBits(src, i - 1), FALSE) ELSE 61]
  BY <1>1 DEF EncodeBase64
<1>5. EncodeBase64(src, TRUE) =
        [i \in 1 .. digits + 0 |-> IF i <= digits THEN Basis(SixBits(src, i - 1), TRUE) ELSE 61]
  BY <1>1 DEF EncodeBase64
<1> HIDE DEF digits, padding
<1>6. Len(EncodeBase64(src, FALSE)) = digits + padding
  <2>1. digits + padding \in Nat
    BY <1>2
  <2>2. PICK h : h = EncodeBase64(src, FALSE)
    OBVIOUS
  <2>3. DOMAIN h = 1 .. digits + padding /\ h = [i \in 1 .. digits + padding |-> h[i]]
    BY <1>4, <2>2
  <2> QED
    BY <2>1, <2>2, <2>3, LengthOf
<1>7. Len(EncodeBase64(src, TRUE)) = digits
  <2>1. digits + 0 = digits
    BY <1>2
  <2>2. digits + 0 \in Nat
    BY <1>2
  <2>3. PICK h : h = EncodeBase64(src, TRUE)
    OBVIOUS
  <2>4. DOMAIN h = 1 .. digits + 0 /\ h = [i \in 1 .. digits + 0 |-> h[i]]
    BY <1>5, <2>3
  <2>5. Len(h) = digits + 0
    BY <2>2, <2>4, LengthOf
  <2> QED
    BY <2>1, <2>3, <2>5
<1> QED
  BY <1>1, <1>3, <1>6, <1>7

(***************************************************************************)
(* RoomIsEnough: the room a caller is told to provide is what is written,  *)
(* for any bytes (rap_string.c:1009, 1292, 1591, 1663; rap_string.h:178).  *)
(***************************************************************************)
THEOREM RoomSuffices == Spec => []RoomIsEnough
<1>1. Init => RoomIsEnough
  BY DEF Init, Idle, RoomIsEnough
<1>2. RoomIsEnough /\ [Next]_vars => RoomIsEnough'
  <2> SUFFICES ASSUME RoomIsEnough, [Next]_vars PROVE RoomIsEnough'
    OBVIOUS
  <2>1. CASE Encode
    <3>1. PICK src \in Payloads :
            Calls([fn |-> "encode", src |-> src],
                  [base64 |-> EncodeBase64(src, FALSE), base64url |-> EncodeBase64(src, TRUE),
                   hex |-> HexDump(src), html |-> EscapeHtml(src), json |-> EscapeJson(src),
                   uri |-> [type \in DOMAIN EscapedBytes |-> EscapeUri(src, type)]])
      BY <2>1 DEF Encode
    <3>2. /\ call'.fn = "encode" /\ call'.src = src
          /\ result'.base64 = EncodeBase64(src, FALSE) /\ result'.base64url = EncodeBase64(src, TRUE)
          /\ result'.html = EscapeHtml(src) /\ result'.json = EscapeJson(src)
          /\ \A type \in DOMAIN EscapedBytes : result'.uri[type] = EscapeUri(src, type)
      BY <3>1 DEF Calls
    <3>3. src \in Seq(Octets)
      BY InputsAssumption DEF Octets
    <3>4. \A type \in DOMAIN EscapedBytes : Len(EscapeUri(src, type)) = Len(src) + 2 * EscapeUriCount(src, type)
      BY <3>3, UriRoomFits
    <3>5. /\ Len(EscapeHtml(src)) = Len(src) + EscapeHtmlCount(src)
          /\ Len(EscapeJson(src)) = Len(src) + EscapeJsonCount(src)
      BY <3>3, HtmlRoomFits, JsonRoomFits
    <3>6. /\ Len(EncodeBase64(src, FALSE)) = EncodedLength(Len(src))
          /\ Len(EncodeBase64(src, TRUE)) <= EncodedLength(Len(src))
          /\ Len(src) <= DecodedLength(Len(EncodeBase64(src, TRUE)))
      BY <3>3, Base64Room
    <3> QED
      BY <3>2, <3>4, <3>5, <3>6 DEF RoomIsEnough
  <2>2. CASE Next /\ ~ Encode
    <3>1. call'.fn # "encode"
      BY <2>2, CallsMade DEF Next
    <3> QED
      BY <3>1 DEF RoomIsEnough
  <2>3. CASE UNCHANGED vars
    BY <2>3 DEF vars, RoomIsEnough
  <2> QED
    BY <2>1, <2>2, <2>3
<1> QED
  BY <1>1, <1>2, PTL DEF Spec

-----------------------------------------------------------------------------
(***************************************************************************)
(* Parsing.  What a loop has read is the value of the digits so far, as    *)
(* long as they are digits and an int4 holds it.                           *)
(***************************************************************************)
LEMMA SmallRemainder ==
  ASSUME NEW a \in Nat, NEW b \in Nat, a < b
  PROVE  a % b = a
  OBVIOUS

LEMMA HoldsInt4 ==
  ASSUME NEW v \in Nat, v <= MaxInt
  PROVE  Int4(v) = v
<1>1. PICK a \in Nat, b \in Nat : a = v + MaxInt + 1 /\ b = 2 * (MaxInt + 1)
  BY NumbersAssumption
<1>2. a < b
  BY <1>1, NumbersAssumption
<1>3. a % b = a
  BY <1>2, SmallRemainder
<1> QED
  BY <1>1, <1>3, NumbersAssumption DEF Int4

\* The digits the tests of overflow let through.
LEMMA NextDigit ==
  ASSUME NEW v \in Nat, v <= MaxInt
  PROVE  /\ \A d \in 0 .. 9 : TooLarge(v, d + 48) <=> v * 10 + d > MaxInt
         /\ \A d \in 0 .. 15 : v > MaxInt \div 16 <=> v * 16 + d > MaxInt
         /\ v > MaxInt \div 10 <=> v * 10 > MaxInt
<1>1. MaxInt \in Nat
  BY NumbersAssumption
<1>2. PICK q \in Nat : q = MaxInt \div 10
  BY <1>1
<1>3. PICK r \in Int : r = MaxInt % 10
  BY <1>1
<1>4. MaxInt = 10 * q + r /\ 0 <= r /\ r < 10
  BY <1>1, <1>2, <1>3
<1>5. \A d \in 0 .. 9 : TooLarge(v, d + 48) <=> v * 10 + d > MaxInt
  <2> TAKE d \in 0 .. 9
  <2>1. TooLarge(v, d + 48) <=> v >= q /\ (v > q \/ d > r)
    BY <1>2, <1>3 DEF TooLarge
  <2> QED
    BY <1>4, <2>1
<1>6. v > MaxInt \div 10 <=> v * 10 > MaxInt
  BY <1>2, <1>4
<1>7. \A d \in 0 .. 15 : v > MaxInt \div 16 <=> v * 16 + d > MaxInt
  <2>1. PICK p \in Nat : p = MaxInt \div 16
    BY <1>1
  <2>2. MaxInt = 16 * p + 15
    BY <1>1, <2>1, NumbersAssumption
  <2>3. \A d \in 0 .. 15 : v > p <=> v * 16 + d > MaxInt
    BY <2>2
  <2> QED
    BY <2>1, <2>3
<1> QED
  BY <1>5, <1>6, <1>7

\* What the digits are worth.
LEMMA DigitFacts ==
  ASSUME NEW c \in Octets
  PROVE  /\ HexDigit(c) \in 0 .. 15 \/ HexDigit(c) = ERROR
         /\ IsDigit(c) => HexDigit(c) = c - 48 /\ c - 48 \in 0 .. 9
<1>1. CASE IsDigit(c)
  <2>1. HexDigit(c) = c - 48
    BY <1>1 DEF HexDigit, IsDigit
  <2>2. c - 48 \in 0 .. 9
    BY <1>1 DEF IsDigit, Octets
  <2> QED
    BY <1>1, <2>1, <2>2
<1>2. CASE c \in 97 .. 102
  <2>1. ~ IsDigit(c) /\ c \notin 65 .. 70
    BY <1>2 DEF IsDigit
  <2>2. HexDigit(c) = c - 97 + 10
    BY <1>2, <2>1 DEF HexDigit
  <2> QED
    BY <1>2, <2>1, <2>2
<1>3. CASE c \in 65 .. 70
  <2>1. ~ IsDigit(c) /\ c \notin 97 .. 102
    BY <1>3 DEF IsDigit
  <2>2. HexDigit(c) = c - 65 + 10
    BY <1>3, <2>1 DEF HexDigit
  <2> QED
    BY <1>3, <2>1, <2>2
<1>4. CASE ~ IsDigit(c) /\ c \notin 97 .. 102 /\ c \notin 65 .. 70
  <2>1. HexDigit(c) = ERROR
    BY <1>4 DEF HexDigit
  <2> QED
    BY <1>4, <2>1
<1> QED
  BY <1>1, <1>2, <1>3, <1>4

\* A loop that makes one value after the other makes a function of them.
LEMMA StepsExist ==
  ASSUME NEW S, NEW x \in S, NEW next, NEW n \in Nat, Closed(S, next, n)
  PROVE  \E f : /\ f \in [0 .. n -> S] /\ f[0] = x
                /\ \A k \in 1 .. n : f[k - 1] \in S /\ f[k] = next[k][f[k - 1]]
                /\ f = [k \in 0 .. n |-> f[k]]
<1>1. PICK f : Runs(S, x, next, n, f)
  BY Recursion
<1>2. f \in [0 .. n -> S] /\ f[0] = x /\ f = [k \in 0 .. n |-> f[k]]
  BY <1>1 DEF Runs
<1>3. \A k \in 1 .. n : f[k - 1] \in S /\ f[k] = next[k][f[k - 1]]
  <2> TAKE k \in 1 .. n
  <2>1. k - 1 \in 0 .. n
    OBVIOUS
  <2> QED
    BY <1>1, <2>1 DEF Runs
<1> QED
  BY <1>2, <1>3

\* The value of a text of digits, from one digit to the next.
ValueRuns(ds, base, h) ==
  h = [n \in 0 .. Len(ds) |-> IF n = 0 THEN 0 ELSE h[n - 1] * base + HexDigit(ds[n])]

LEMMA ValueSteps ==
  ASSUME NEW ds \in Seq(Octets), NEW base \in Nat
  PROVE  \E h : /\ ValueOf(ds, base) = h[Len(ds)] /\ h[0] = 0
                /\ \A n \in 1 .. Len(ds) : h[n] = h[n - 1] * base + HexDigit(ds[n])
<1> DEFINE N == Len(ds)
<1> DEFINE S == Int
<1> DEFINE next == [n \in 1 .. N |-> [y \in S |-> y * base + HexDigit(ds[n])]]
<1>1. N \in Nat /\ 0 \in S
  OBVIOUS
<1>2. \A n \in 1 .. N : HexDigit(ds[n]) \in Int
  <2> TAKE n \in 1 .. N
  <2>1. ds[n] \in Octets
    OBVIOUS
  <2>2. HexDigit(ds[n]) \in 0 .. 15 \/ HexDigit(ds[n]) = -1
    BY <2>1, DigitFacts DEF ERROR
  <2> QED
    BY <2>2
<1>3. Closed(S, next, N)
  BY <1>2 DEF Closed
<1>4. PICK f : /\ f \in [0 .. N -> S] /\ f[0] = 0
               /\ \A n \in 1 .. N : f[n - 1] \in S /\ f[n] = next[n][f[n - 1]]
               /\ f = [n \in 0 .. N |-> f[n]]
  <2> HIDE DEF next, N, S
  <2> QED
    BY <1>1, <1>3, StepsExist
<1>5. \A n \in 1 .. N : \A y \in Int : next[n][y] = y * base + HexDigit(ds[n])
  OBVIOUS
<1> HIDE DEF next
<1>6. ValueRuns(ds, base, f)
  <2>1. ASSUME NEW n \in 0 .. N
        PROVE  f[n] = IF n = 0 THEN 0 ELSE f[n - 1] * base + HexDigit(ds[n])
    <3>1. n = 0 \/ (n # 0 /\ n \in 1 .. N)
      BY <1>1
    <3> HIDE DEF N
    <3> QED
      BY <1>4, <1>5, <3>1
  <2> QED
    BY <1>4, <2>1 DEF ValueRuns
<1> DEFINE g == CHOOSE h : ValueRuns(ds, base, h)
<1>7. ValueRuns(ds, base, g) /\ ValueOf(ds, base) = g[N]
  BY <1>6 DEF ValueOf, ValueRuns
<1> HIDE DEF g
<1>8. g[0] = 0 /\ \A n \in 1 .. N : g[n] = g[n - 1] * base + HexDigit(ds[n])
  <2>1. \A n \in 0 .. N : g[n] = IF n = 0 THEN 0 ELSE g[n - 1] * base + HexDigit(ds[n])
    BY <1>7 DEF ValueRuns
  <2>2. 0 \in 0 .. N /\ \A n \in 1 .. N : n \in 0 .. N /\ n # 0
    BY <1>1
  <2> HIDE DEF N
  <2> QED
    BY <2>1, <2>2
<1> QED
  BY <1>7, <1>8

\* What a loop reads that stops at what is no digit and at what is too large.
Reading(g, h, digit, good, n, base) ==
  /\ g[0] = 0 /\ h[0] = 0 /\ n \in Nat /\ base \in {10, 16}
  /\ \A k \in 1 .. n :
       /\ h[k] = h[k - 1] * base + digit[k]
       /\ k \in good => digit[k] \in Nat
       /\ g[k - 1] = ERROR => g[k] = ERROR
       /\ \A v \in Nat : g[k - 1] = v /\ v <= MaxInt =>
            g[k] = IF k \in good /\ v * base + digit[k] <= MaxInt THEN v * base + digit[k] ELSE ERROR

LEMMA ReadsExactly ==
  ASSUME NEW g, NEW h, NEW digit, NEW good, NEW n, NEW base, Reading(g, h, digit, good, n, base)
  PROVE  /\ 1 .. n \subseteq good => h[n] \in Nat
         /\ g[n] = IF 1 .. n \subseteq good /\ h[n] <= MaxInt THEN h[n] ELSE ERROR
<1> USE DEF Reading
<1> DEFINE Good(k) == /\ 1 .. k \subseteq good => h[k] \in Nat
                      /\ g[k] = IF 1 .. k \subseteq good /\ h[k] <= MaxInt THEN h[k] ELSE ERROR
<1> DEFINE P == {k \in 0 .. n : Good(k)}
<1>0. MaxInt \in Nat
  BY NumbersAssumption
<1>1. Good(0)
  <2>1. 1 .. 0 \subseteq good
    OBVIOUS
  <2> QED
    BY <1>0, <2>1
<1>2. ASSUME NEW k \in 1 .. n, Good(k - 1) PROVE Good(k)
  <2>1. 1 .. k \subseteq good <=> 1 .. (k - 1) \subseteq good /\ k \in good
    <3>1. \A i : i \in 1 .. k <=> i \in 1 .. (k - 1) \/ i = k
      OBVIOUS
    <3> QED
      BY <3>1
  <2>2. /\ h[k] = h[k - 1] * base + digit[k] /\ (k \in good => digit[k] \in Nat)
        /\ g[k - 1] = ERROR => g[k] = ERROR
        /\ \A v \in Nat : g[k - 1] = v /\ v <= MaxInt =>
             g[k] = IF k \in good /\ v * base + digit[k] <= MaxInt THEN v * base + digit[k] ELSE ERROR
    OBVIOUS
  <2>3. CASE ~ (1 .. (k - 1) \subseteq good)
    <3>1. g[k - 1] = ERROR
      BY <1>2, <2>3
    <3> QED
      BY <2>1, <2>2, <2>3, <3>1
  <2>4. CASE 1 .. (k - 1) \subseteq good
    <3>1. PICK v \in Nat : v = h[k - 1] /\ g[k - 1] = IF v <= MaxInt THEN v ELSE ERROR
      BY <1>2, <2>4
    <3>2. CASE k \notin good
      <4>1. g[k] = ERROR
        BY <2>2, <3>1, <3>2
      <4> QED
        BY <2>1, <3>2, <4>1
    <3>3. CASE k \in good
      <4>1. PICK d \in Nat : d = digit[k]
        BY <2>2, <3>3
      <4>2. PICK w \in Nat : w = v * base + d /\ w >= v
        <5>1. CASE base = 10
          BY <5>1
        <5>2. CASE base = 16
          BY <5>2
        <5> QED
          BY <5>1, <5>2
      <4>3. h[k] = w
        BY <2>2, <3>1, <4>1, <4>2
      <4>4. CASE v <= MaxInt
        <5>1. g[k] = IF w <= MaxInt THEN w ELSE ERROR
          BY <2>2, <3>1, <3>3, <4>1, <4>2, <4>4
        <5> QED
          BY <2>1, <2>4, <3>3, <4>3, <5>1
      <4>5. CASE v > MaxInt
        <5>1. g[k] = ERROR /\ ~ (w <= MaxInt)
          BY <1>0, <2>2, <3>1, <4>2, <4>5
        <5> QED
          BY <2>1, <2>4, <3>3, <4>3, <5>1
      <4> QED
        BY <1>0, <4>4, <4>5
    <3> QED
      BY <3>2, <3>3
  <2> QED
    BY <2>3, <2>4
<1> HIDE DEF Good
<1>3. n \in P
  <2>1. 0 \in P
    BY <1>1
  <2>2. \A k \in 0 + 1 .. n : k - 1 \in P => k \in P
    BY <1>2
  <2>3. 0 \in Nat /\ n \in Nat
    OBVIOUS
  <2> HIDE DEF P, Reading
  <2>4. \A k \in 0 .. n : k \in P
    BY <2>1, <2>2, <2>3, GoesOn
  <2> QED
    BY <2>3, <2>4
<1> QED
  BY <1>3 DEF Good

\* rap_atoi and rap_hextoi, from one character to the next.
AtoIRuns(line, h) ==
  h = [n \in 0 .. Len(line) |->
         IF n = 0 THEN 0
         ELSE IF h[n - 1] = ERROR \/ ~ IsDigit(line[n]) \/ TooLarge(h[n - 1], line[n]) THEN ERROR
         ELSE Int4(h[n - 1] * 10 + (line[n] - 48))]

HexToIRuns(line, h) ==
  h = [n \in 0 .. Len(line) |->
         IF n = 0 THEN 0
         ELSE IF h[n - 1] = ERROR \/ h[n - 1] > MaxInt \div 16 \/ HexDigit(line[n]) = ERROR THEN ERROR
         ELSE Int4(h[n - 1] * 16 + HexDigit(line[n]))]

LEMMA Int4Int ==
  ASSUME NEW v \in Int
  PROVE  Int4(v) \in Int
<1>1. PICK a \in Int, b \in Nat : a = v + MaxInt + 1 /\ b = 2 * (MaxInt + 1) /\ b > 0
  BY NumbersAssumption
<1>2. a % b \in Int
  BY <1>1
<1> QED
  BY <1>1, <1>2, NumbersAssumption DEF Int4

LEMMA AtoISteps ==
  ASSUME NEW line \in Seq(Octets), line # << >>
  PROVE  \E g : /\ AtoI(line) = g[Len(line)] /\ g[0] = 0
                /\ \A n \in 1 .. Len(line) :
                     g[n] = IF g[n - 1] = ERROR \/ ~ IsDigit(line[n]) \/ TooLarge(g[n - 1], line[n])
                            THEN ERROR ELSE Int4(g[n - 1] * 10 + (line[n] - 48))
<1> DEFINE N == Len(line)
<1> DEFINE S == Int
<1> DEFINE step(n, y) == IF y = ERROR \/ ~ IsDigit(line[n]) \/ TooLarge(y, line[n]) THEN ERROR
                         ELSE Int4(y * 10 + (line[n] - 48))
<1> DEFINE next == [n \in 1 .. N |-> [y \in S |-> step(n, y)]]
<1>1. N \in Nat /\ 0 \in S
  OBVIOUS
<1>2. \A n \in 1 .. N : \A y \in S : step(n, y) \in S
  <2> TAKE n \in 1 .. N
  <2> TAKE y \in S
  <2>1. y * 10 + (line[n] - 48) \in Int /\ ERROR \in Int
    <3>1. line[n] \in Octets
      OBVIOUS
    <3>2. PICK c \in Octets : c = line[n]
      BY <3>1
    <3>3. c \in Int
      BY DEF Octets
    <3> QED
      BY <3>2, <3>3 DEF ERROR
  <2>2. Int4(y * 10 + (line[n] - 48)) \in Int
    BY <2>1, Int4Int
  <2> QED
    BY <2>1, <2>2
<1> HIDE DEF step
<1>3. Closed(S, next, N)
  BY <1>2 DEF Closed
<1>4. PICK f : /\ f \in [0 .. N -> S] /\ f[0] = 0
               /\ \A n \in 1 .. N : f[n - 1] \in S /\ f[n] = next[n][f[n - 1]]
               /\ f = [n \in 0 .. N |-> f[n]]
  <2> HIDE DEF next, N, S
  <2> QED
    BY <1>1, <1>3, StepsExist
<1>5. \A n \in 1 .. N : \A y \in S : next[n][y] = step(n, y)
  OBVIOUS
<1> HIDE DEF next
<1>6. AtoIRuns(line, f)
  <2>1. ASSUME NEW n \in 0 .. N PROVE f[n] = IF n = 0 THEN 0 ELSE step(n, f[n - 1])
    <3>1. n = 0 \/ (n # 0 /\ n \in 1 .. N)
      BY <1>1
    <3> HIDE DEF N
    <3> QED
      BY <1>4, <1>5, <3>1
  <2>2. f = [n \in 0 .. N |-> IF n = 0 THEN 0 ELSE step(n, f[n - 1])]
    BY <1>4, <2>1
  <2> QED
    BY <2>2 DEF AtoIRuns, step
<1> DEFINE g == CHOOSE h : AtoIRuns(line, h)
<1>7. AtoIRuns(line, g) /\ AtoI(line) = g[N]
  BY <1>6 DEF AtoI, AtoIRuns
<1> HIDE DEF g
<1>8. g[0] = 0 /\ \A n \in 1 .. N : g[n] = step(n, g[n - 1])
  <2>1. \A n \in 0 .. N : g[n] = IF n = 0 THEN 0 ELSE step(n, g[n - 1])
    BY <1>7 DEF AtoIRuns, step
  <2>2. 0 \in 0 .. N /\ \A n \in 1 .. N : n \in 0 .. N /\ n # 0
    BY <1>1
  <2> HIDE DEF N
  <2> QED
    BY <2>1, <2>2
<1> QED
  BY <1>7, <1>8 DEF step

LEMMA HexToISteps ==
  ASSUME NEW line \in Seq(Octets), line # << >>
  PROVE  \E g : /\ HexToI(line) = g[Len(line)] /\ g[0] = 0
                /\ \A n \in 1 .. Len(line) :
                     g[n] = IF g[n - 1] = ERROR \/ g[n - 1] > MaxInt \div 16 \/ HexDigit(line[n]) = ERROR
                            THEN ERROR ELSE Int4(g[n - 1] * 16 + HexDigit(line[n]))
<1> DEFINE N == Len(line)
<1> DEFINE S == Int
<1> DEFINE step(n, y) == IF y = ERROR \/ y > MaxInt \div 16 \/ HexDigit(line[n]) = ERROR THEN ERROR
                         ELSE Int4(y * 16 + HexDigit(line[n]))
<1> DEFINE next == [n \in 1 .. N |-> [y \in S |-> step(n, y)]]
<1>1. N \in Nat /\ 0 \in S
  OBVIOUS
<1>2. \A n \in 1 .. N : \A y \in S : step(n, y) \in S
  <2> TAKE n \in 1 .. N
  <2> TAKE y \in S
  <2>1. HexDigit(line[n]) \in Int /\ ERROR \in Int
    <3>1. line[n] \in Octets
      OBVIOUS
    <3>2. HexDigit(line[n]) \in 0 .. 15 \/ HexDigit(line[n]) = ERROR
      BY <3>1, DigitFacts
    <3> QED
      BY <3>2 DEF ERROR
  <2>2. Int4(y * 16 + HexDigit(line[n])) \in Int
    <3>1. y * 16 + HexDigit(line[n]) \in Int
      BY <2>1
    <3> QED
      BY <3>1, Int4Int
  <2> QED
    BY <2>1, <2>2
<1> HIDE DEF step
<1>3. Closed(S, next, N)
  BY <1>2 DEF Closed
<1>4. PICK f : /\ f \in [0 .. N -> S] /\ f[0] = 0
               /\ \A n \in 1 .. N : f[n - 1] \in S /\ f[n] = next[n][f[n - 1]]
               /\ f = [n \in 0 .. N |-> f[n]]
  <2> HIDE DEF next, N, S
  <2> QED
    BY <1>1, <1>3, StepsExist
<1>5. \A n \in 1 .. N : \A y \in S : next[n][y] = step(n, y)
  OBVIOUS
<1> HIDE DEF next
<1>6. HexToIRuns(line, f)
  <2>1. ASSUME NEW n \in 0 .. N PROVE f[n] = IF n = 0 THEN 0 ELSE step(n, f[n - 1])
    <3>1. n = 0 \/ (n # 0 /\ n \in 1 .. N)
      BY <1>1
    <3> HIDE DEF N
    <3> QED
      BY <1>4, <1>5, <3>1
  <2>2. f = [n \in 0 .. N |-> IF n = 0 THEN 0 ELSE step(n, f[n - 1])]
    BY <1>4, <2>1
  <2> QED
    BY <2>2 DEF HexToIRuns, step
<1> DEFINE g == CHOOSE h : HexToIRuns(line, h)
<1>7. HexToIRuns(line, g) /\ HexToI(line) = g[N]
  BY <1>6 DEF HexToI, HexToIRuns
<1> HIDE DEF g
<1>8. g[0] = 0 /\ \A n \in 1 .. N : g[n] = step(n, g[n - 1])
  <2>1. \A n \in 0 .. N : g[n] = IF n = 0 THEN 0 ELSE step(n, g[n - 1])
    BY <1>7 DEF HexToIRuns, step
  <2>2. 0 \in 0 .. N /\ \A n \in 1 .. N : n \in 0 .. N /\ n # 0
    BY <1>1
  <2> HIDE DEF N
  <2> QED
    BY <2>1, <2>2
<1> QED
  BY <1>7, <1>8 DEF step

\* rap_atoi returns the number of a text of digits that an int4 holds, and no other.
LEMMA AtoIExact ==
  ASSUME NEW line \in Seq(Octets)
  PROVE  LET decimal == line # << >> /\ \A i \in DOMAIN line : IsDigit(line[i])
         IN  AtoI(line) = IfFits(decimal, IF decimal THEN ValueOf(line, 10) ELSE 0)
<1> DEFINE decimal == line # << >> /\ \A i \in DOMAIN line : IsDigit(line[i])
<1>1. CASE line = << >>
  <2>1. AtoI(line) = ERROR /\ ~ decimal
    BY <1>1 DEF AtoI
  <2> HIDE DEF decimal
  <2>2. IfFits(decimal, IF decimal THEN ValueOf(line, 10) ELSE 0) = ERROR
    BY <2>1 DEF IfFits
  <2> QED
    BY <2>1, <2>2 DEF decimal
<1>2. CASE line # << >>
  <2> DEFINE N == Len(line)
  <2> DEFINE digit == [n \in 1 .. N |-> HexDigit(line[n])]
  <2> DEFINE good == {n \in 1 .. N : IsDigit(line[n])}
  <2>1. PICK g : /\ AtoI(line) = g[N] /\ g[0] = 0
                 /\ \A n \in 1 .. N :
                      g[n] = IF g[n - 1] = ERROR \/ ~ IsDigit(line[n]) \/ TooLarge(g[n - 1], line[n])
                             THEN ERROR ELSE Int4(g[n - 1] * 10 + (line[n] - 48))
    BY <1>2, AtoISteps
  <2>2. PICK h : /\ ValueOf(line, 10) = h[N] /\ h[0] = 0
                 /\ \A n \in 1 .. N : h[n] = h[n - 1] * 10 + HexDigit(line[n])
    BY ValueSteps
  <2>3. N \in Nat /\ DOMAIN line = 1 .. N /\ \A n \in 1 .. N : line[n] \in Octets
    OBVIOUS
  <2>4. Reading(g, h, digit, good, N, 10)
    <3> SUFFICES ASSUME NEW k \in 1 .. N
                 PROVE  /\ h[k] = h[k - 1] * 10 + digit[k]
                        /\ k \in good => digit[k] \in Nat
                        /\ g[k - 1] = ERROR => g[k] = ERROR
                        /\ \A v \in Nat : g[k - 1] = v /\ v <= MaxInt =>
                             g[k] = IF k \in good /\ v * 10 + digit[k] <= MaxInt
                                    THEN v * 10 + digit[k] ELSE ERROR
      BY <2>1, <2>2, <2>3 DEF Reading
    <3>1. PICK c \in Octets : c = line[k]
      BY <2>3
    <3>2. digit[k] = HexDigit(c) /\ (k \in good <=> IsDigit(c))
      BY <3>1
    <3>3. g[k] = IF g[k - 1] = ERROR \/ ~ IsDigit(c) \/ TooLarge(g[k - 1], c)
                 THEN ERROR ELSE Int4(g[k - 1] * 10 + (c - 48))
      BY <2>1, <3>1
    <3>4. h[k] = h[k - 1] * 10 + digit[k]
      BY <2>2, <3>1, <3>2
    <3> HIDE DEF digit, good
    <3>5. ASSUME NEW v \in Nat, g[k - 1] = v, v <= MaxInt
          PROVE  g[k] = IF k \in good /\ v * 10 + digit[k] <= MaxInt THEN v * 10 + digit[k] ELSE ERROR
      <4>1. v # ERROR
        BY DEF ERROR
      <4>2. CASE ~ IsDigit(c)
        BY <3>2, <3>3, <4>2
      <4>3. CASE IsDigit(c)
        <5>1. PICK d \in 0 .. 9 : d = c - 48 /\ digit[k] = d /\ c = d + 48
          <6>1. HexDigit(c) = c - 48 /\ c - 48 \in 0 .. 9
            BY <4>3, DigitFacts
          <6>2. c \in Int
            BY DEF Octets
          <6> QED
            BY <3>2, <6>1, <6>2
        <5>2. TooLarge(v, c) <=> v * 10 + d > MaxInt
          BY <3>5, <5>1, NextDigit
        <5>3. CASE v * 10 + d > MaxInt
          <6>1. g[k] = ERROR
            BY <3>3, <3>5, <5>2, <5>3
          <6> QED
            BY <5>1, <5>3, <6>1, NumbersAssumption
        <5>4. CASE v * 10 + d <= MaxInt
          <6>1. g[k] = Int4(v * 10 + d)
            BY <3>3, <3>5, <4>1, <4>3, <5>1, <5>2, <5>4, NumbersAssumption
          <6>2. Int4(v * 10 + d) = v * 10 + d
            BY <5>4, HoldsInt4
          <6> QED
            BY <3>2, <4>3, <5>1, <5>4, <6>1, <6>2
        <5> QED
          BY <5>3, <5>4, NumbersAssumption
      <4> QED
        BY <4>2, <4>3
    <3>6. k \in good => digit[k] \in Nat
      BY <3>2, DigitFacts
    <3> QED
      BY <3>3, <3>4, <3>5, <3>6
  <2>5. 1 .. N \subseteq good <=> decimal
    BY <1>2, <2>3
  <2> HIDE DEF good, digit, decimal
  <2>6. g[N] = IF 1 .. N \subseteq good /\ h[N] <= MaxInt THEN h[N] ELSE ERROR
    BY <2>4, ReadsExactly
  <2>7. AtoI(line) = IfFits(decimal, IF decimal THEN ValueOf(line, 10) ELSE 0)
    BY <2>1, <2>2, <2>5, <2>6 DEF IfFits
  <2> QED
    BY <2>7 DEF decimal
<1> QED
  BY <1>1, <1>2

\* rap_hextoi returns the number of a text of hexadecimal digits that an int4 holds, and no other.
LEMMA HexToIExact ==
  ASSUME NEW line \in Seq(Octets)
  PROVE  LET hex == line # << >> /\ \A i \in DOMAIN line : HexDigit(line[i]) # ERROR
         IN  HexToI(line) = IfFits(hex, IF hex THEN ValueOf(line, 16) ELSE 0)
<1> DEFINE hex == line # << >> /\ \A i \in DOMAIN line : HexDigit(line[i]) # ERROR
<1>1. CASE line = << >>
  <2>1. HexToI(line) = ERROR /\ ~ hex
    BY <1>1 DEF HexToI
  <2> HIDE DEF hex
  <2>2. IfFits(hex, IF hex THEN ValueOf(line, 16) ELSE 0) = ERROR
    BY <2>1 DEF IfFits
  <2> QED
    BY <2>1, <2>2 DEF hex
<1>2. CASE line # << >>
  <2> DEFINE N == Len(line)
  <2> DEFINE digit == [n \in 1 .. N |-> HexDigit(line[n])]
  <2> DEFINE good == {n \in 1 .. N : HexDigit(line[n]) # ERROR}
  <2>1. PICK g : /\ HexToI(line) = g[N] /\ g[0] = 0
                 /\ \A n \in 1 .. N :
                      g[n] = IF g[n - 1] = ERROR \/ g[n - 1] > MaxInt \div 16 \/ HexDigit(line[n]) = ERROR
                             THEN ERROR ELSE Int4(g[n - 1] * 16 + HexDigit(line[n]))
    BY <1>2, HexToISteps
  <2>2. PICK h : /\ ValueOf(line, 16) = h[N] /\ h[0] = 0
                 /\ \A n \in 1 .. N : h[n] = h[n - 1] * 16 + HexDigit(line[n])
    BY ValueSteps
  <2>3. N \in Nat /\ DOMAIN line = 1 .. N /\ \A n \in 1 .. N : line[n] \in Octets
    OBVIOUS
  <2>4. Reading(g, h, digit, good, N, 16)
    <3> SUFFICES ASSUME NEW k \in 1 .. N
                 PROVE  /\ h[k] = h[k - 1] * 16 + digit[k]
                        /\ k \in good => digit[k] \in Nat
                        /\ g[k - 1] = ERROR => g[k] = ERROR
                        /\ \A v \in Nat : g[k - 1] = v /\ v <= MaxInt =>
                             g[k] = IF k \in good /\ v * 16 + digit[k] <= MaxInt
                                    THEN v * 16 + digit[k] ELSE ERROR
      BY <2>1, <2>2, <2>3 DEF Reading
    <3>1. PICK c \in Octets : c = line[k]
      BY <2>3
    <3>2. digit[k] = HexDigit(c) /\ (k \in good <=> HexDigit(c) # ERROR)
      BY <3>1
    <3>3. g[k] = IF g[k - 1] = ERROR \/ g[k - 1] > MaxInt \div 16 \/ HexDigit(c) = ERROR
                 THEN ERROR ELSE Int4(g[k - 1] * 16 + HexDigit(c))
      BY <2>1, <3>1
    <3>4. h[k] = h[k - 1] * 16 + digit[k]
      BY <2>2, <3>1, <3>2
    <3> HIDE DEF digit, good
    <3>5. ASSUME NEW v \in Nat, g[k - 1] = v, v <= MaxInt
          PROVE  g[k] = IF k \in good /\ v * 16 + digit[k] <= MaxInt THEN v * 16 + digit[k] ELSE ERROR
      <4>1. v # ERROR
        BY DEF ERROR
      <4>2. CASE HexDigit(c) = ERROR
        BY <3>2, <3>3, <4>2
      <4>3. CASE HexDigit(c) # ERROR
        <5>1. PICK d \in 0 .. 15 : d = HexDigit(c) /\ digit[k] = d
          BY <3>2, <4>3, DigitFacts
        <5>2. v > MaxInt \div 16 <=> v * 16 + d > MaxInt
          BY <3>5, <5>1, NextDigit
        <5>3. CASE v * 16 + d > MaxInt
          <6>1. g[k] = ERROR
            BY <3>3, <3>5, <5>2, <5>3
          <6> QED
            BY <5>1, <5>3, <6>1, NumbersAssumption
        <5>4. CASE v * 16 + d <= MaxInt
          <6>1. g[k] = Int4(v * 16 + d)
            BY <3>3, <3>5, <4>1, <4>3, <5>1, <5>2, <5>4, NumbersAssumption
          <6>2. Int4(v * 16 + d) = v * 16 + d
            BY <5>4, HoldsInt4
          <6> QED
            BY <3>2, <4>3, <5>1, <5>4, <6>1, <6>2
        <5> QED
          BY <5>3, <5>4, NumbersAssumption
      <4> QED
        BY <4>2, <4>3
    <3>6. k \in good => digit[k] \in Nat
      BY <3>2, DigitFacts
    <3> QED
      BY <3>3, <3>4, <3>5, <3>6
  <2>5. 1 .. N \subseteq good <=> hex
    BY <1>2, <2>3
  <2> HIDE DEF good, digit, hex
  <2>6. g[N] = IF 1 .. N \subseteq good /\ h[N] <= MaxInt THEN h[N] ELSE ERROR
    BY <2>4, ReadsExactly
  <2>7. HexToI(line) = IfFits(hex, IF hex THEN ValueOf(line, 16) ELSE 0)
    BY <2>1, <2>2, <2>5, <2>6 DEF IfFits
  <2> QED
    BY <2>7 DEF hex
<1> QED
  BY <1>1, <1>2

-----------------------------------------------------------------------------
(***************************************************************************)
(* rap_atofp.  t is the place of the first dot, or 0: Nth(t, n) characters *)
(* of the first n are not that dot, and Past(t, n) come after it.          *)
(***************************************************************************)
FirstDot(line, t) ==
  /\ t \in 0 .. Len(line)
  /\ t # 0 => line[t] = 46 /\ \A i \in 1 .. t - 1 : line[i] # 46
  /\ t = 0 => \A i \in 1 .. Len(line) : line[i] # 46

Nth(t, n) == IF t # 0 /\ n >= t THEN n - 1 ELSE n
Past(t, n) == IF t # 0 /\ n > t THEN n - t ELSE 0

FpStep(s, c) ==
  IF s.value = ERROR \/ s.point = 0 THEN [s EXCEPT !.value = ERROR]
  ELSE IF c = 46 THEN (IF s.dot = 1 THEN [s EXCEPT !.value = ERROR] ELSE [s EXCEPT !.dot = 1])
  ELSE IF ~ IsDigit(c) \/ TooLarge(s.value, c) THEN [s EXCEPT !.value = ERROR]
  ELSE [s EXCEPT !.value = Int4(@ * 10 + (c - 48)), !.point = @ - s.dot]

FpStates == [value : Int, dot : {0, 1}, point : Nat]

LEMMA FpStepState ==
  ASSUME NEW s \in FpStates, NEW c \in Octets
  PROVE  FpStep(s, c) \in FpStates
<1>1. s.value \in Int /\ s.dot \in {0, 1} /\ s.point \in Nat /\ c \in Int /\ ERROR \in Int
  BY DEF FpStates, Octets, ERROR
<1>2. [s EXCEPT !.value = ERROR] \in FpStates /\ [s EXCEPT !.dot = 1] \in FpStates
  BY <1>1 DEF FpStates
<1>3. PICK v \in Int : v = Int4(s.value * 10 + (c - 48))
  BY <1>1, Int4Int
<1>4. CASE s.point # 0
  <2>1. s.point - s.dot \in Nat
    BY <1>1, <1>4
  <2>2. [s EXCEPT !.value = v, !.point = s.point - s.dot] \in FpStates
    BY <2>1 DEF FpStates
  <2> QED
    BY <1>2, <1>3, <2>2 DEF FpStep
<1>5. CASE s.point = 0
  BY <1>2, <1>5 DEF FpStep
<1> QED
  BY <1>4, <1>5

FpRuns(line, point, h) ==
  h = [n \in 0 .. Len(line) |->
         IF n = 0 THEN [value |-> 0, dot |-> 0, point |-> point] ELSE FpStep(h[n - 1], line[n])]

LEMMA FpSteps ==
  ASSUME NEW line \in Seq(Octets), line # << >>, NEW point \in Nat
  PROVE  \E g : /\ AtoFp(line, point) = Shifted(g[Len(line)].value, g[Len(line)].point)
                /\ g[0] = [value |-> 0, dot |-> 0, point |-> point]
                /\ \A n \in 0 .. Len(line) : g[n] \in FpStates
                /\ \A n \in 1 .. Len(line) : g[n] = FpStep(g[n - 1], line[n])
<1> DEFINE N == Len(line)
<1> DEFINE S == FpStates
<1> DEFINE x == [value |-> 0, dot |-> 0, point |-> point]
<1> DEFINE next == [n \in 1 .. N |-> [y \in S |-> FpStep(y, line[n])]]
<1>1. N \in Nat /\ x \in S
  BY DEF FpStates
<1>2. \A n \in 1 .. N : \A y \in S : FpStep(y, line[n]) \in S
  <2> TAKE n \in 1 .. N
  <2> TAKE y \in S
  <2>1. line[n] \in Octets
    OBVIOUS
  <2> QED
    BY <2>1, FpStepState
<1>3. Closed(S, next, N)
  BY <1>2 DEF Closed
<1>4. PICK f : /\ f \in [0 .. N -> S] /\ f[0] = x
               /\ \A n \in 1 .. N : f[n - 1] \in S /\ f[n] = next[n][f[n - 1]]
               /\ f = [n \in 0 .. N |-> f[n]]
  <2> HIDE DEF next, N, S, x
  <2> QED
    BY <1>1, <1>3, StepsExist
<1>5. \A n \in 1 .. N : \A y \in S : next[n][y] = FpStep(y, line[n])
  OBVIOUS
<1> HIDE DEF next, S
<1>6. FpRuns(line, point, f)
  <2>1. ASSUME NEW n \in 0 .. N PROVE f[n] = IF n = 0 THEN x ELSE FpStep(f[n - 1], line[n])
    <3>1. n = 0 \/ (n # 0 /\ n \in 1 .. N)
      BY <1>1
    <3> HIDE DEF N, x
    <3> QED
      BY <1>4, <1>5, <3>1
  <2>2. f = [n \in 0 .. N |-> IF n = 0 THEN x ELSE FpStep(f[n - 1], line[n])]
    BY <1>4, <2>1
  <2> QED
    BY <2>2 DEF FpRuns
<1> DEFINE g == CHOOSE h : FpRuns(line, point, h)
<1>7. FpRuns(line, point, g) /\ AtoFp(line, point) = Shifted(g[N].value, g[N].point)
  <2>1. FpRuns(line, point, g)
    BY <1>6
  <2>2. AtoFp(line, point) = Shifted(g[N].value, g[N].point)
    BY DEF AtoFp, FpRuns, FpStep
  <2> QED
    BY <2>1, <2>2
<1> HIDE DEF g
<1>8. g[0] = x /\ \A n \in 1 .. N : g[n] = FpStep(g[n - 1], line[n])
  <2>1. \A n \in 0 .. N : g[n] = IF n = 0 THEN x ELSE FpStep(g[n - 1], line[n])
    BY <1>7 DEF FpRuns
  <2>2. 0 \in 0 .. N /\ \A n \in 1 .. N : n \in 0 .. N /\ n # 0
    BY <1>1
  <2> HIDE DEF N, x
  <2> QED
    BY <2>1, <2>2
<1>9. \A n \in 0 .. N : g[n] \in S
  <2> DEFINE P == {n \in 0 .. N : g[n] \in S}
  <2>1. 0 \in P
    BY <1>1, <1>8
  <2>2. \A n \in 0 + 1 .. N : n - 1 \in P => n \in P
    <3> HIDE DEF x
    <3> QED
      BY <1>1, <1>2, <1>8
  <2> HIDE DEF P, N
  <2>3. \A n \in 0 .. N : n \in P
    BY <1>1, <2>1, <2>2, GoesOn
  <2> QED
    BY <2>3 DEF P
<1> QED
  BY <1>7, <1>8, <1>9 DEF S

\* Multiplying by ten for the places that were not given.
ShiftRuns(value, point, h) ==
  h = [n \in 0 .. point |->
         IF n = 0 THEN value
         ELSE IF h[n - 1] = ERROR \/ h[n - 1] > MaxInt \div 10 THEN ERROR ELSE Int4(h[n - 1] * 10)]

LEMMA ShiftSteps ==
  ASSUME NEW value \in Int, NEW point \in Nat
  PROVE  \E g : /\ Shifted(value, point) = g[point] /\ g[0] = value
                /\ \A n \in 1 .. point :
                     g[n] = IF g[n - 1] = ERROR \/ g[n - 1] > MaxInt \div 10
                            THEN ERROR ELSE Int4(g[n - 1] * 10)
<1> DEFINE S == Int
<1> DEFINE step(y) == IF y = ERROR \/ y > MaxInt \div 10 THEN ERROR ELSE Int4(y * 10)
<1> DEFINE next == [n \in 1 .. point |-> [y \in S |-> step(y)]]
<1>1. value \in S
  OBVIOUS
<1>2. \A y \in S : step(y) \in S
  <2> TAKE y \in S
  <2>1. y * 10 \in Int /\ ERROR \in Int
    BY DEF ERROR
  <2>2. Int4(y * 10) \in Int
    BY <2>1, Int4Int
  <2> QED
    BY <2>1, <2>2
<1> HIDE DEF step
<1>3. Closed(S, next, point)
  BY <1>2 DEF Closed
<1>4. PICK f : /\ f \in [0 .. point -> S] /\ f[0] = value
               /\ \A n \in 1 .. point : f[n - 1] \in S /\ f[n] = next[n][f[n - 1]]
               /\ f = [n \in 0 .. point |-> f[n]]
  <2> HIDE DEF next, S
  <2> QED
    BY <1>1, <1>3, StepsExist
<1>5. \A n \in 1 .. point : \A y \in S : next[n][y] = step(y)
  OBVIOUS
<1> HIDE DEF next
<1>6. ShiftRuns(value, point, f)
  <2>1. ASSUME NEW n \in 0 .. point PROVE f[n] = IF n = 0 THEN value ELSE step(f[n - 1])
    <3>1. n = 0 \/ (n # 0 /\ n \in 1 .. point)
      OBVIOUS
    <3> QED
      BY <1>4, <1>5, <3>1
  <2>2. f = [n \in 0 .. point |-> IF n = 0 THEN value ELSE step(f[n - 1])]
    BY <1>4, <2>1
  <2> QED
    BY <2>2 DEF ShiftRuns, step
<1> DEFINE g == CHOOSE h : ShiftRuns(value, point, h)
<1>7. ShiftRuns(value, point, g) /\ Shifted(value, point) = g[point]
  BY <1>6 DEF Shifted, ShiftRuns
<1> HIDE DEF g
<1>8. g[0] = value /\ \A n \in 1 .. point : g[n] = step(g[n - 1])
  <2>1. \A n \in 0 .. point : g[n] = IF n = 0 THEN value ELSE step(g[n - 1])
    BY <1>7 DEF ShiftRuns, step
  <2>2. 0 \in 0 .. point /\ \A n \in 1 .. point : n \in 0 .. point /\ n # 0
    OBVIOUS
  <2> QED
    BY <2>1, <2>2
<1> QED
  BY <1>7, <1>8 DEF step

\* u[m] is the value of the first m characters without the dot.
FpReading(line, point, t, g, u) ==
  /\ line \in Seq(Octets) /\ point \in Nat /\ FirstDot(line, t)
  /\ g[0] = [value |-> 0, dot |-> 0, point |-> point]
  /\ \A n \in 0 .. Len(line) : g[n] \in FpStates
  /\ \A n \in 1 .. Len(line) : g[n] = FpStep(g[n - 1], line[n])
  /\ u[0] = 0
  /\ \A n \in 1 .. Len(line) : n # t => u[Nth(t, n)] = u[Nth(t, n) - 1] * 10 + HexDigit(line[n])

\* The first n characters are digits but for the dot, and no more than point after it.
FpGood(line, point, t, n) ==
  /\ \A i \in 1 .. n : i = t \/ IsDigit(line[i])
  /\ n # 0 => point > 0
  /\ Past(t, n) <= point

\* What is read so far.
FpRead(line, point, t, g, u, n) ==
  /\ FpGood(line, point, t, n) => u[Nth(t, n)] \in Nat
  /\ IF FpGood(line, point, t, n) /\ u[Nth(t, n)] <= MaxInt
     THEN /\ g[n].value = u[Nth(t, n)] /\ g[n].point = point - Past(t, n)
          /\ g[n].dot = IF t # 0 /\ n >= t THEN 1 ELSE 0
     ELSE g[n].value = ERROR

\* One more character that is a digit, or the dot.
LEMMA FpGoodNext ==
  ASSUME NEW line, NEW point \in Nat, NEW t \in Nat, NEW n \in Nat \ {0}
  PROVE  FpGood(line, point, t, n) <=>
           /\ FpGood(line, point, t, n - 1) /\ point - Past(t, n - 1) > 0
           /\ n = t \/ IsDigit(line[n])
<1>1. \A i : i \in 1 .. n <=> i \in 1 .. n - 1 \/ i = n
  OBVIOUS
<1>2. (\A i \in 1 .. n : i = t \/ IsDigit(line[i])) <=>
        (\A i \in 1 .. n - 1 : i = t \/ IsDigit(line[i])) /\ (n = t \/ IsDigit(line[n]))
  BY <1>1
<1>3. PICK p \in Nat : p = Past(t, n - 1) /\ Past(t, n) <= p + 1 /\ (p # 0 => Past(t, n) = p + 1)
                       /\ Past(t, n) \in Nat /\ (Past(t, n) # 0 => Past(t, n) = p + 1)
  <2>1. CASE t = 0 \/ n <= t
    <3>1. Past(t, n) = 0 /\ Past(t, n - 1) = 0
      BY <2>1 DEF Past
    <3> QED
      BY <3>1
  <2>2. CASE t # 0 /\ n > t
    <3>1. Past(t, n) = n - t
      BY <2>2 DEF Past
    <3>2. Past(t, n - 1) = n - 1 - t
      BY <2>2 DEF Past
    <3>3. PICK p \in Nat : p = n - 1 - t /\ p + 1 = n - t
      BY <2>2
    <3> QED
      BY <3>1, <3>2, <3>3
  <2> QED
    BY <2>1, <2>2
<1>4. FpGood(line, point, t, n) <=>
        (\A i \in 1 .. n : i = t \/ IsDigit(line[i])) /\ point > 0 /\ Past(t, n) <= point
  BY DEF FpGood
<1>5. FpGood(line, point, t, n - 1) <=>
        (\A i \in 1 .. n - 1 : i = t \/ IsDigit(line[i])) /\ (n - 1 # 0 => point > 0) /\ p <= point
  BY <1>3 DEF FpGood
<1>6. point > 0 /\ Past(t, n) <= point <=> (n - 1 # 0 => point > 0) /\ p <= point /\ point - p > 0
  BY <1>3
<1> QED
  BY <1>2, <1>3, <1>4, <1>5, <1>6

\* The loop of rap_atofp reads what FpRead says.
LEMMA FpReads ==
  ASSUME NEW line, NEW point, NEW t, NEW g, NEW u, FpReading(line, point, t, g, u),
         NEW n \in 1 .. Len(line), FpRead(line, point, t, g, u, n - 1)
  PROVE  FpRead(line, point, t, g, u, n)
<1>1. /\ line \in Seq(Octets) /\ point \in Nat /\ t \in Nat /\ Len(line) \in Nat /\ n \in Nat /\ n # 0
      /\ FirstDot(line, t) /\ MaxInt \in Nat
  BY NumbersAssumption DEF FpReading, FirstDot
<1>2. PICK c \in Octets : c = line[n]
  BY <1>1
<1>3. PICK s \in FpStates : s = g[n - 1] /\ g[n] = FpStep(s, c)
  <2>1. n - 1 \in 0 .. Len(line)
    BY <1>1
  <2> QED
    BY <1>2, <2>1 DEF FpReading
<1>4. PICK p \in Nat : p = Past(t, n - 1)
  <2>1. Past(t, n - 1) \in Nat
    BY <1>1 DEF Past
  <2> QED
    BY <2>1
<1>5. FpGood(line, point, t, n) <=>
        FpGood(line, point, t, n - 1) /\ point - p > 0 /\ (n = t \/ IsDigit(c))
  BY <1>1, <1>2, <1>4, FpGoodNext
<1> DEFINE dot == IF t # 0 /\ n - 1 >= t THEN 1 ELSE 0
<1>6. n = t => Nth(t, n) = Nth(t, n - 1) /\ Past(t, n) = p /\ p = 0
  BY <1>1, <1>4 DEF Nth, Past
<1>7. n # t => /\ Nth(t, n) - 1 = Nth(t, n - 1) /\ Past(t, n) = p + dot
               /\ u[Nth(t, n)] = u[Nth(t, n - 1)] * 10 + HexDigit(c)
  <2> SUFFICES ASSUME n # t
               PROVE  /\ Nth(t, n) - 1 = Nth(t, n - 1) /\ Past(t, n) = p + dot
                      /\ u[Nth(t, n)] = u[Nth(t, n - 1)] * 10 + HexDigit(c)
    OBVIOUS
  <2>1. Nth(t, n) - 1 = Nth(t, n - 1)
    BY <1>1 DEF Nth
  <2>2. Past(t, n) = p + dot
    <3>1. CASE t # 0 /\ n - 1 >= t
      <4>1. Past(t, n) = n - t /\ dot = 1
        BY <1>1, <3>1 DEF Past
      <4>2. p = n - 1 - t
        BY <1>1, <1>4, <3>1 DEF Past
      <4> HIDE DEF dot
      <4> QED
        BY <1>1, <4>1, <4>2
    <3>2. CASE ~ (t # 0 /\ n - 1 >= t)
      <4>1. Past(t, n) = 0 /\ dot = 0
        BY <1>1, <3>2 DEF Past
      <4>2. p = 0
        BY <1>1, <1>4, <3>2 DEF Past
      <4> HIDE DEF dot
      <4> QED
        BY <4>1, <4>2
    <3> QED
      BY <3>1, <3>2
  <2>3. u[Nth(t, n)] = u[Nth(t, n) - 1] * 10 + HexDigit(c)
    BY <1>2 DEF FpReading
  <2> QED
    BY <2>1, <2>2, <2>3
<1>8. c = 46 => ~ IsDigit(c) /\ (n = t \/ (t # 0 /\ n - 1 >= t))
  <2> SUFFICES ASSUME c = 46, n # t PROVE t # 0 /\ n - 1 >= t
    BY DEF IsDigit
  <2>1. t # 0
    BY <1>1, <1>2 DEF FirstDot
  <2>2. ~ (n < t)
    <3> SUFFICES ASSUME n < t PROVE FALSE
      OBVIOUS
    <3>1. n \in 1 .. t - 1
      BY <1>1
    <3> QED
      BY <1>1, <1>2, <2>1, <3>1 DEF FirstDot
  <2> QED
    BY <1>1, <2>1, <2>2
<1>9. n = t => c = 46
  BY <1>1, <1>2 DEF FirstDot
<1>10. s.value \in Int /\ s.dot \in {0, 1} /\ s.point \in Nat
       /\ DOMAIN s = {"value", "dot", "point"}
  BY DEF FpStates
<1>11. /\ FpGood(line, point, t, n - 1) => u[Nth(t, n - 1)] \in Nat
       /\ IF FpGood(line, point, t, n - 1) /\ u[Nth(t, n - 1)] <= MaxInt
          THEN s.value = u[Nth(t, n - 1)] /\ s.point = point - p /\ s.dot = dot
          ELSE s.value = ERROR
  BY <1>3, <1>4 DEF FpRead
<1> HIDE DEF dot
<1>12. n # t /\ IsDigit(c) => HexDigit(c) = c - 48 /\ c - 48 \in 0 .. 9
  BY DigitFacts
<1>13. CASE ~ FpGood(line, point, t, n - 1)
  <2>1. g[n].value = ERROR
    BY <1>3, <1>10, <1>11, <1>13 DEF FpStep
  <2> QED
    BY <1>5, <1>13, <2>1 DEF FpRead
<1>14. CASE FpGood(line, point, t, n - 1)
  <2>1. PICK v \in Nat : v = u[Nth(t, n - 1)]
    BY <1>11, <1>14
  <2>2. FpGood(line, point, t, n) => u[Nth(t, n)] \in Nat /\ u[Nth(t, n)] >= v
    <3> SUFFICES ASSUME n = t \/ IsDigit(c) PROVE u[Nth(t, n)] \in Nat /\ u[Nth(t, n)] >= v
      BY <1>5
    <3>1. CASE n = t
      BY <1>6, <2>1, <3>1
    <3>2. CASE n # t
      <4>1. PICK d \in 0 .. 9 : d = HexDigit(c)
        BY <1>12, <3>2
      <4>2. u[Nth(t, n)] = v * 10 + d
        BY <1>7, <2>1, <3>2, <4>1
      <4> QED
        BY <4>2
    <3> QED
      BY <3>1, <3>2
  <2>3. CASE v > MaxInt
    <3>1. g[n].value = ERROR
      <4>1. s.value = ERROR
        BY <1>1, <1>11, <2>1, <2>3
      <4> QED
        BY <1>3, <1>10, <4>1 DEF FpStep
    <3>2. ~ (FpGood(line, point, t, n) /\ u[Nth(t, n)] <= MaxInt)
      BY <1>1, <2>2, <2>3
    <3> QED
      BY <2>2, <3>1, <3>2 DEF FpRead
  <2>4. CASE v <= MaxInt
    <3>1. s.value = v /\ s.point = point - p /\ s.dot = dot /\ v # ERROR
      BY <1>11, <1>14, <2>1, <2>4 DEF ERROR
    <3>2. CASE ~ FpGood(line, point, t, n)
      <4>1. g[n].value = ERROR
        <5>1. CASE s.point = 0
          BY <1>3, <1>10, <5>1 DEF FpStep
        <5>2. CASE s.point # 0
          <6>1. n # t /\ ~ IsDigit(c)
            BY <1>1, <1>5, <1>10, <1>14, <3>1, <3>2, <5>2
          <6>2. c = 46 => s.dot = 1
            BY <1>8, <3>1, <6>1 DEF dot
          <6> QED
            BY <1>3, <1>10, <6>1, <6>2 DEF FpStep
        <5> QED
          BY <5>1, <5>2
      <4> QED
        BY <3>2, <4>1 DEF FpRead
    <3>3. CASE FpGood(line, point, t, n)
      <4>1. s.point # 0
        BY <1>1, <1>5, <3>1, <3>3
      <4>2. CASE n = t
        <5>1. c = 46 /\ s.dot = 0
          BY <1>1, <1>9, <3>1, <4>2 DEF dot
        <5>2. g[n] = [s EXCEPT !.dot = 1]
          BY <1>3, <3>1, <4>1, <5>1 DEF FpStep
        <5>3. g[n].value = v /\ g[n].dot = 1 /\ g[n].point = point - p
          BY <1>10, <3>1, <5>2
        <5>4. u[Nth(t, n)] = v /\ Past(t, n) = p /\ t # 0 /\ n >= t
          BY <1>1, <1>6, <2>1, <4>2
        <5> QED
          BY <2>2, <2>4, <3>3, <5>3, <5>4 DEF FpRead
      <4>3. CASE n # t
        <5>1. IsDigit(c) /\ c # 46
          BY <1>5, <1>8, <3>3, <4>3
        <5>2. PICK d \in 0 .. 9 : d = HexDigit(c) /\ d = c - 48 /\ c = d + 48
          <6>1. HexDigit(c) = c - 48 /\ c - 48 \in 0 .. 9 /\ c \in Int
            BY <1>12, <4>3, <5>1 DEF Octets
          <6> QED
            BY <6>1
        <5>3. u[Nth(t, n)] = v * 10 + d
          BY <1>7, <2>1, <4>3, <5>2
        <5>4. TooLarge(v, c) <=> v * 10 + d > MaxInt
          BY <2>4, <5>2, NextDigit
        <5>5. CASE v * 10 + d > MaxInt
          <6>1. g[n].value = ERROR
            BY <1>3, <1>10, <3>1, <4>1, <5>1, <5>4, <5>5 DEF FpStep
          <6>2. ~ (u[Nth(t, n)] <= MaxInt)
            BY <1>1, <5>3, <5>5
          <6> QED
            BY <2>2, <6>1, <6>2 DEF FpRead
        <5>6. CASE v * 10 + d <= MaxInt
          <6>1. ~ TooLarge(v, c)
            BY <1>1, <5>4, <5>6
          <6>2. Int4(v * 10 + d) = v * 10 + d
            BY <5>6, HoldsInt4
          <6>3. g[n] = [s EXCEPT !.value = v * 10 + d, !.point = s.point - s.dot]
            <7>1. g[n] = [s EXCEPT !.value = Int4(s.value * 10 + (c - 48)), !.point = s.point - s.dot]
              BY <1>3, <3>1, <4>1, <5>1, <6>1 DEF FpStep
            <7> QED
              BY <3>1, <5>2, <6>2, <7>1
          <6>4. g[n].value = v * 10 + d /\ g[n].dot = dot /\ g[n].point = point - p - dot
            BY <1>10, <3>1, <6>3
          <6>5. Past(t, n) = p + dot /\ dot \in Nat
            BY <1>7, <4>3 DEF dot
          <6>6. dot = IF t # 0 /\ n >= t THEN 1 ELSE 0
            BY <1>1, <4>3 DEF dot
          <6>7. point - p - dot = point - Past(t, n)
            BY <1>1, <6>5
          <6> QED
            BY <2>2, <5>3, <5>6, <6>4, <6>6, <6>7, <3>3 DEF FpRead
        <5> QED
          BY <1>1, <5>5, <5>6
      <4> QED
        BY <4>2, <4>3
    <3> QED
      BY <3>2, <3>3
  <2> QED
    BY <1>1, <2>3, <2>4
<1> QED
  BY <1>13, <1>14

\* Everything that is read, from the first character to the last.
LEMMA FpReadAll ==
  ASSUME NEW line, NEW point, NEW t, NEW g, NEW u, FpReading(line, point, t, g, u)
  PROVE  FpRead(line, point, t, g, u, Len(line))
<1> DEFINE N == Len(line)
<1> DEFINE P == {n \in 0 .. N : FpRead(line, point, t, g, u, n)}
<1>1. N \in Nat /\ point \in Nat /\ t \in Nat /\ 0 \in Nat /\ MaxInt \in Nat
  BY NumbersAssumption DEF FpReading, FirstDot
<1>2. FpRead(line, point, t, g, u, 0)
  <2>1. Nth(t, 0) = 0 /\ Past(t, 0) = 0
    BY <1>1 DEF Nth, Past
  <2>2. g[0].value = 0 /\ g[0].dot = 0 /\ g[0].point = point /\ u[0] = 0
    BY DEF FpReading
  <2>3. FpGood(line, point, t, 0)
    BY <1>1, <2>1 DEF FpGood
  <2>4. ~ (t # 0 /\ 0 >= t)
    BY <1>1
  <2> QED
    BY <1>1, <2>1, <2>2, <2>3, <2>4 DEF FpRead
<1>3. 0 \in P
  BY <1>1, <1>2
<1>4. \A n \in 0 + 1 .. N : n - 1 \in P => n \in P
  <2> TAKE n \in 0 + 1 .. N
  <2> SUFFICES ASSUME FpRead(line, point, t, g, u, n - 1) PROVE FpRead(line, point, t, g, u, n)
    BY <1>1
  <2>1. n \in 1 .. Len(line)
    OBVIOUS
  <2> QED
    BY <2>1, FpReads
<1> HIDE DEF P, N
<1>5. \A n \in 0 .. N : n \in P
  BY <1>1, <1>3, <1>4, GoesOn
<1>6. N \in 0 .. N
  BY <1>1
<1> QED
  BY <1>5, <1>6 DEF P, N

LEMMA JoinFacts ==
  ASSUME NEW S, NEW a \in Seq(S), NEW b \in Seq(S), NEW c, c = a \o b
  PROVE  /\ c \in Seq(S) /\ Len(c) = Len(a) + Len(b)
         /\ \A i \in 1 .. Len(a) : c[i] = a[i]
         /\ \A i \in Len(a) + 1 .. Len(a) + Len(b) : c[i] = b[i - Len(a)]
  OBVIOUS

\* The line without its first dot: its n-th character was the Nth.
Undotted(line, t) == IF t = 0 THEN line ELSE RemoveAt(line, t)

LEMMA UndottedFacts ==
  ASSUME NEW line \in Seq(Octets), NEW t, FirstDot(line, t)
  PROVE  /\ Undotted(line, t) \in Seq(Octets) /\ Len(Undotted(line, t)) = Nth(t, Len(line))
         /\ \A n \in 1 .. Len(line) : n # t =>
              Nth(t, n) \in 1 .. Len(Undotted(line, t)) /\ Undotted(line, t)[Nth(t, n)] = line[n]
         /\ \A m \in 1 .. Len(Undotted(line, t)) : \E n \in 1 .. Len(line) : n # t /\ Nth(t, n) = m
<1>1. Len(line) \in Nat /\ t \in 0 .. Len(line)
  BY DEF FirstDot
<1>2. CASE t = 0
  <2>1. Undotted(line, t) = line /\ \A n \in Nat : Nth(t, n) = n
    BY <1>2 DEF Undotted, Nth
  <2> QED
    BY <1>1, <1>2, <2>1
<1>3. CASE t # 0
  <2> DEFINE a == SubSeq(line, 1, t - 1)
  <2> DEFINE b == SubSeq(line, t + 1, Len(line))
  <2>1. a \in Seq(Octets) /\ Len(a) = t - 1 /\ \A i \in 1 .. t - 1 : a[i] = line[i]
    BY <1>1, <1>3
  <2>2. b \in Seq(Octets) /\ Len(b) = Len(line) - t /\ \A i \in 1 .. Len(line) - t : b[i] = line[t + i]
    BY <1>1, <1>3
  <2>3. Undotted(line, t) = a \o b
    BY <1>3 DEF Undotted, RemoveAt
  <2> HIDE DEF a, b
  <2>4. PICK c : c = Undotted(line, t)
    OBVIOUS
  <2>5. /\ c \in Seq(Octets) /\ Len(c) = Len(line) - 1
        /\ \A i \in 1 .. t - 1 : c[i] = line[i]
        /\ \A i \in t .. Len(line) - 1 : c[i] = line[i + 1]
    <3>0. a \in Seq(Octets) /\ b \in Seq(Octets) /\ c = a \o b
      BY <2>1, <2>2, <2>3, <2>4
    <3>1. c \in Seq(Octets) /\ Len(c) = Len(a) + Len(b)
          /\ (\A i \in 1 .. Len(a) : c[i] = a[i])
          /\ \A i \in Len(a) + 1 .. Len(a) + Len(b) : c[i] = b[i - Len(a)]
      BY <3>0, JoinFacts
    <3>2. Len(a) + Len(b) = Len(line) - 1
      BY <1>1, <2>1, <2>2
    <3>3. \A i \in t .. Len(line) - 1 : c[i] = line[i + 1]
      <4> TAKE i \in t .. Len(line) - 1
      <4>1. i \in Len(a) + 1 .. Len(a) + Len(b) /\ i - Len(a) \in 1 .. Len(line) - t
            /\ t + (i - Len(a)) = i + 1
        BY <1>1, <1>3, <2>1, <3>2
      <4> QED
        BY <2>2, <3>1, <4>1
    <3> QED
      BY <2>1, <3>1, <3>2, <3>3
  <2>6. Nth(t, Len(line)) = Len(line) - 1
    BY <1>1, <1>3 DEF Nth
  <2>7. \A n \in 1 .. Len(line) : n # t => Nth(t, n) \in 1 .. Len(c) /\ c[Nth(t, n)] = line[n]
    <3> TAKE n \in 1 .. Len(line)
    <3>1. CASE n < t
      <4>1. Nth(t, n) = n /\ n \in 1 .. t - 1
        BY <1>1, <3>1 DEF Nth
      <4> QED
        BY <1>1, <2>5, <4>1
    <3>2. CASE n > t
      <4>1. Nth(t, n) = n - 1 /\ n - 1 \in t .. Len(line) - 1 /\ (n - 1) + 1 = n
        BY <1>1, <1>3, <3>2 DEF Nth
      <4> QED
        BY <1>1, <1>3, <2>5, <4>1
    <3> QED
      BY <1>1, <3>1, <3>2
  <2>8. \A m \in 1 .. Len(c) : \E n \in 1 .. Len(line) : n # t /\ Nth(t, n) = m
    <3> TAKE m \in 1 .. Len(c)
    <3>1. CASE m < t
      <4>1. m \in 1 .. Len(line) /\ m # t /\ Nth(t, m) = m
        BY <1>1, <2>5, <3>1 DEF Nth
      <4> QED
        BY <4>1
    <3>2. CASE m >= t
      <4>1. m + 1 \in 1 .. Len(line) /\ m + 1 # t /\ Nth(t, m + 1) = m
        BY <1>1, <1>3, <2>5, <3>2 DEF Nth
      <4> QED
        BY <4>1
    <3> QED
      BY <1>1, <2>5, <3>1, <3>2
  <2> QED
    BY <2>4, <2>5, <2>6, <2>7, <2>8
<1> QED
  BY <1>2, <1>3

\* What has failed stays so when it is shifted.
LEMMA ShiftedError == ASSUME NEW p \in Nat PROVE Shifted(ERROR, p) = ERROR
<1>0. ERROR \in Int
  BY DEF ERROR
<1>1. PICK f : /\ Shifted(ERROR, p) = f[p] /\ f[0] = ERROR
               /\ \A n \in 1 .. p :
                    f[n] = IF f[n - 1] = ERROR \/ f[n - 1] > MaxInt \div 10
                           THEN ERROR ELSE Int4(f[n - 1] * 10)
  BY <1>0, ShiftSteps
<1> DEFINE P == {n \in 0 .. p : f[n] = ERROR}
<1>2. 0 \in P /\ \A n \in 0 + 1 .. p : n - 1 \in P => n \in P
  BY <1>1
<1> HIDE DEF P
<1>3. \A n \in 0 .. p : n \in P
  BY <1>2, GoesOn
<1> QED
  BY <1>1, <1>3 DEF P

\* Shifting multiplies by ten and refuses what an int4 does not hold.
LEMMA ShiftedExact ==
  ASSUME NEW z \in Nat, NEW w, w[0] \in Nat, \A k \in 1 .. z : w[k] = w[k - 1] * 10 + 0
  PROVE  /\ w[z] \in Nat
         /\ Shifted(IF w[0] <= MaxInt THEN w[0] ELSE ERROR, z)
              = IF w[z] <= MaxInt THEN w[z] ELSE ERROR
<1> DEFINE x == IF w[0] <= MaxInt THEN w[0] ELSE ERROR
<1>0. x \in Int /\ MaxInt \in Nat
  BY NumbersAssumption DEF ERROR
<1>1. PICK f : /\ Shifted(x, z) = f[z] /\ f[0] = x
               /\ \A n \in 1 .. z :
                    f[n] = IF f[n - 1] = ERROR \/ f[n - 1] > MaxInt \div 10
                           THEN ERROR ELSE Int4(f[n - 1] * 10)
  <2> HIDE DEF x
  <2> QED
    BY <1>0, ShiftSteps
<1> DEFINE Ok(k) == w[k] \in Nat /\ f[k] = IF w[k] <= MaxInt THEN w[k] ELSE ERROR
<1> DEFINE P == {k \in 0 .. z : Ok(k)}
<1>2. 0 \in P
  BY <1>1
<1>3. \A k \in 0 + 1 .. z : k - 1 \in P => k \in P
  <2> TAKE k \in 0 + 1 .. z
  <2> SUFFICES ASSUME Ok(k - 1) PROVE Ok(k)
    OBVIOUS
  <2>1. PICK v \in Nat : v = w[k - 1] /\ w[k] = v * 10 /\ f[k - 1] = IF v <= MaxInt THEN v ELSE ERROR
    OBVIOUS
  <2>2. f[k] = IF f[k - 1] = ERROR \/ f[k - 1] > MaxInt \div 10 THEN ERROR ELSE Int4(f[k - 1] * 10)
    BY <1>1
  <2>3. CASE v > MaxInt
    <3>1. f[k] = ERROR /\ ~ (v * 10 <= MaxInt)
      BY <1>0, <2>1, <2>2, <2>3
    <3> QED
      BY <2>1, <3>1
  <2>4. CASE v <= MaxInt
    <3>1. f[k - 1] = v /\ v # ERROR
      BY <2>1, <2>4 DEF ERROR
    <3>2. v > MaxInt \div 10 <=> v * 10 > MaxInt
      BY <2>4, NextDigit
    <3>3. CASE v * 10 > MaxInt
      <4>1. f[k] = ERROR /\ ~ (v * 10 <= MaxInt)
        BY <1>0, <2>2, <3>1, <3>2, <3>3
      <4> QED
        BY <2>1, <4>1
    <3>4. CASE v * 10 <= MaxInt
      <4>1. ~ (v > MaxInt \div 10)
        BY <1>0, <3>2, <3>4
      <4>2. f[k] = Int4(v * 10) /\ v * 10 \in Nat
        BY <2>2, <3>1, <4>1
      <4>3. Int4(v * 10) = v * 10
        BY <3>4, <4>2, HoldsInt4
      <4> QED
        BY <2>1, <3>4, <4>2, <4>3
    <3> QED
      BY <1>0, <3>3, <3>4
  <2> QED
    BY <1>0, <2>3, <2>4
<1> HIDE DEF P
<1>4. z \in P
  <2>1. \A k \in 0 .. z : k \in P
    BY <1>2, <1>3, GoesOn
  <2> QED
    BY <2>1
<1> QED
  BY <1>1, <1>4 DEF P

Zeros(n) == [i \in 1 .. n |-> 48]

\* What FixedPoint says of the line and its first dot.
LEMMA FixedPointIs ==
  ASSUME NEW line \in Seq(Octets), NEW point \in Nat
  PROVE  \E t : /\ FirstDot(line, t)
                /\ LET digits == Undotted(line, t)
                       places == IF t = 0 THEN 0 ELSE Len(line) - t
                       good == /\ line # << >> /\ point > 0 /\ places <= point
                               /\ \A i \in DOMAIN digits : IsDigit(digits[i])
                   IN  FixedPoint(line, point) =
                         IfFits(good, IF good THEN ValueOf(digits \o Zeros(point - places), 10) ELSE 0)
<1> DEFINE dots == {i \in 1 .. Len(line) : line[i] = 46}
<1> DEFINE t == IF dots # {} THEN Min(dots) ELSE 0
<1>1. FirstDot(line, t)
  <2>1. CASE dots = {}
    <3>1. t = 0 /\ \A i \in 1 .. Len(line) : line[i] # 46
      BY <2>1
    <3> QED
      BY <3>1 DEF FirstDot
  <2>2. CASE dots # {}
    <3>1. dots \subseteq Nat
      OBVIOUS
    <3>2. t \in dots /\ \A j \in dots : t <= j
      <4> HIDE DEF dots
      <4>1. Min(dots) \in dots /\ \A j \in dots : Min(dots) <= j
        BY <2>2, <3>1, MinFacts
      <4> QED
        BY <2>2, <4>1
    <3>3. PICK d \in 1 .. Len(line) : d = t /\ line[d] = 46
      BY <3>2
    <3>4. \A i \in 1 .. d - 1 : line[i] # 46
      <4> TAKE i \in 1 .. d - 1
      <4>1. i \in 1 .. Len(line) /\ ~ (d <= i)
        BY <3>3
      <4> HIDE DEF t
      <4> QED
        BY <3>2, <3>3, <4>1
    <3> HIDE DEF t
    <3> QED
      BY <3>3, <3>4 DEF FirstDot
  <2> QED
    BY <2>1, <2>2
<1>2. LET digits == Undotted(line, t)
          places == IF t = 0 THEN 0 ELSE Len(line) - t
          good == /\ line # << >> /\ point > 0 /\ places <= point
                  /\ \A i \in DOMAIN digits : IsDigit(digits[i])
      IN  FixedPoint(line, point) =
            IfFits(good, IF good THEN ValueOf(digits \o Zeros(point - places), 10) ELSE 0)
  BY DEF FixedPoint, SelectInSeq, Undotted, Zeros
<1> HIDE DEF t
<1> QED
  BY <1>1, <1>2

\* rap_atofp returns the number of a text with that many places that an int4 holds, and no other.
LEMMA AtoFpExact ==
  ASSUME NEW line \in Seq(Octets), NEW point \in Nat
  PROVE  AtoFp(line, point) = FixedPoint(line, point)
<1>1. PICK t : /\ FirstDot(line, t)
               /\ LET digits == Undotted(line, t)
                      places == IF t = 0 THEN 0 ELSE Len(line) - t
                      good == /\ line # << >> /\ point > 0 /\ places <= point
                              /\ \A i \in DOMAIN digits : IsDigit(digits[i])
                  IN  FixedPoint(line, point) =
                        IfFits(good, IF good THEN ValueOf(digits \o Zeros(point - places), 10) ELSE 0)
  BY FixedPointIs
<1> DEFINE N == Len(line)
<1>2. PICK digits : digits = Undotted(line, t)
  OBVIOUS
<1>3. PICK places \in Nat : places = IF t = 0 THEN 0 ELSE Len(line) - t
  <2>1. t \in 0 .. Len(line) /\ Len(line) \in Nat
    BY <1>1 DEF FirstDot
  <2> QED
    BY <2>1
<1> DEFINE good == /\ line # << >> /\ point > 0 /\ places <= point
                   /\ \A i \in DOMAIN digits : IsDigit(digits[i])
<1>4. FixedPoint(line, point) =
        IfFits(good, IF good THEN ValueOf(digits \o Zeros(point - places), 10) ELSE 0)
  BY <1>1, <1>2, <1>3
<1>5. CASE line = << >>
  <2>1. AtoFp(line, point) = ERROR /\ ~ good
    BY <1>5 DEF AtoFp
  <2> HIDE DEF good
  <2> QED
    BY <1>4, <2>1 DEF IfFits
<1>6. CASE line # << >>
  <2>1. PICK g : /\ AtoFp(line, point) = Shifted(g[N].value, g[N].point)
                 /\ g[0] = [value |-> 0, dot |-> 0, point |-> point]
                 /\ \A n \in 0 .. N : g[n] \in FpStates
                 /\ \A n \in 1 .. N : g[n] = FpStep(g[n - 1], line[n])
    BY <1>6, FpSteps
  <2>2. /\ digits \in Seq(Octets) /\ Len(digits) = Nth(t, N)
        /\ \A n \in 1 .. N : n # t =>
             Nth(t, n) \in 1 .. Len(digits) /\ digits[Nth(t, n)] = line[n]
        /\ \A m \in 1 .. Len(digits) : \E n \in 1 .. N : n # t /\ Nth(t, n) = m
    BY <1>1, <1>2, UndottedFacts
  <2>3. N \in Nat /\ N # 0 /\ Len(digits) \in Nat /\ t \in 0 .. N
    BY <1>1, <1>6, <2>2 DEF FirstDot
  <2>4. PICK z \in Nat : z = IF places <= point THEN point - places ELSE 0
    <3>1. places <= point => point - places \in Nat
      BY <1>3
    <3> QED
      BY <3>1
  <2>5. Zeros(z) \in Seq(Octets) /\ Len(Zeros(z)) = z /\ \A i \in 1 .. z : Zeros(z)[i] = 48
    <3>1. 48 \in Octets
      BY DEF Octets
    <3> QED
      BY <3>1 DEF Zeros
  <2>6. PICK b \in Seq(Octets) : b = Zeros(z) /\ Len(b) = z /\ \A i \in 1 .. z : b[i] = 48
    BY <2>5
  <2>7. PICK ds : ds = digits \o b
    OBVIOUS
  <2>8. /\ ds \in Seq(Octets) /\ Len(ds) = Len(digits) + Len(b)
        /\ \A i \in 1 .. Len(digits) : ds[i] = digits[i]
        /\ \A i \in Len(digits) + 1 .. Len(digits) + Len(b) : ds[i] = b[i - Len(digits)]
    <3>1. digits \in Seq(Octets) /\ b \in Seq(Octets) /\ ds = digits \o b
      BY <2>2, <2>6, <2>7
    <3> QED
      BY <3>1, JoinFacts
  <2>9. PICK u : /\ ValueOf(ds, 10) = u[Len(ds)] /\ u[0] = 0
                 /\ \A n \in 1 .. Len(ds) : u[n] = u[n - 1] * 10 + HexDigit(ds[n])
    <3>1. 10 \in Nat
      OBVIOUS
    <3> QED
      BY <2>8, <3>1, ValueSteps
  <2>10. FpReading(line, point, t, g, u)
    <3>1. ASSUME NEW n \in 1 .. N, n # t
          PROVE  u[Nth(t, n)] = u[Nth(t, n) - 1] * 10 + HexDigit(line[n])
      <4>1. PICK m \in 1 .. Len(digits) : m = Nth(t, n) /\ digits[m] = line[n]
        BY <2>2, <3>1
      <4>2. ds[m] = line[n] /\ m \in 1 .. Len(ds)
        BY <2>3, <2>6, <2>8, <4>1
      <4> QED
        BY <2>9, <4>1, <4>2
    <3> QED
      BY <1>1, <2>1, <2>9, <3>1 DEF FpReading
  <2>11. FpRead(line, point, t, g, u, N)
    BY <2>10, FpReadAll
  <2>12. PICK l \in Nat : l = Len(digits) /\ l = Nth(t, N)
    BY <2>2, <2>3
  <2>13. good <=> FpGood(line, point, t, N)
    <3>1. Past(t, N) = places
      BY <1>3, <2>3 DEF Past
    <3>2. (\A i \in DOMAIN digits : IsDigit(digits[i])) <=> (\A n \in 1 .. N : n = t \/ IsDigit(line[n]))
      <4>1. DOMAIN digits = 1 .. Len(digits)
        BY <2>2
      <4>2. ASSUME \A i \in 1 .. Len(digits) : IsDigit(digits[i]), NEW n \in 1 .. N, n # t
            PROVE  IsDigit(line[n])
        BY <2>2, <4>2
      <4>3. ASSUME \A n \in 1 .. N : n = t \/ IsDigit(line[n]), NEW i \in 1 .. Len(digits)
            PROVE  IsDigit(digits[i])
        <5>1. PICK n \in 1 .. N : n # t /\ Nth(t, n) = i
          BY <2>2
        <5>2. digits[i] = line[n]
          BY <2>2, <5>1
        <5> QED
          BY <4>3, <5>1, <5>2
      <4> QED
        BY <4>1, <4>2, <4>3
    <3> QED
      BY <1>6, <2>3, <3>1, <3>2 DEF FpGood
  <2>14. Past(t, N) = places
    BY <1>3, <2>3 DEF Past
  <2> HIDE DEF good
  <2>15. g[N].value \in Int /\ g[N].point \in Nat
    <3>1. g[N] \in FpStates
      BY <2>1, <2>3
    <3> QED
      BY <3>1 DEF FpStates
  <2>16. CASE ~ good
    <3>1. g[N].value = ERROR
      BY <2>11, <2>13, <2>16 DEF FpRead
    <3>2. AtoFp(line, point) = ERROR
      BY <2>1, <2>15, <3>1, ShiftedError
    <3> QED
      BY <1>4, <2>16, <3>2 DEF IfFits
  <2>17. CASE good
    <3>1. z = point - places /\ places <= point
      BY <2>4, <2>17 DEF good
    <3>2. FixedPoint(line, point) = IF u[Len(ds)] <= MaxInt THEN u[Len(ds)] ELSE ERROR
      <4>1. digits \o Zeros(point - places) = ds
        BY <2>6, <2>7, <3>1
      <4> QED
        BY <1>4, <2>9, <2>17, <4>1 DEF IfFits
    <3>3. /\ u[l] \in Nat
          /\ IF u[l] <= MaxInt THEN g[N].value = u[l] /\ g[N].point = z ELSE g[N].value = ERROR
      BY <2>11, <2>12, <2>13, <2>14, <2>17, <3>1 DEF FpRead
    <3> DEFINE w == [k \in 0 .. z |-> u[l + k]]
    <3>4. w[0] = u[l] /\ w[z] = u[Len(ds)]
      <4>1. 0 \in 0 .. z /\ z \in 0 .. z /\ l + 0 = l /\ l + z = Len(ds)
        BY <2>6, <2>8, <2>12
      <4> QED
        BY <4>1
    <3>5. \A k \in 1 .. z : w[k] = w[k - 1] * 10 + 0
      <4> TAKE k \in 1 .. z
      <4>1. k \in 0 .. z /\ k - 1 \in 0 .. z /\ l + (k - 1) = l + k - 1
        OBVIOUS
      <4>2. PICK m : m = l + k
        OBVIOUS
      <4>3. m \in 1 .. Len(ds) /\ m \in Len(digits) + 1 .. Len(digits) + Len(b) /\ m - Len(digits) = k
        BY <2>6, <2>8, <2>12, <4>2
      <4>4. ds[m] = 48
        BY <2>6, <2>8, <4>3
      <4>5. HexDigit(48) = 0
        <5>1. 48 \in Octets /\ IsDigit(48) /\ 48 - 48 = 0
          BY DEF Octets, IsDigit
        <5> QED
          BY <5>1, DigitFacts
      <4>6. u[m - 1] = w[k - 1] /\ u[m] = w[k]
        BY <4>1, <4>2
      <4>7. u[m] = u[m - 1] * 10 + 0
        BY <2>9, <4>3, <4>4, <4>5
      <4> QED
        BY <4>6, <4>7
    <3> HIDE DEF w
    <3>6. /\ w[z] \in Nat
          /\ Shifted(IF w[0] <= MaxInt THEN w[0] ELSE ERROR, z) = IF w[z] <= MaxInt THEN w[z] ELSE ERROR
      <4>1. w[0] \in Nat
        BY <3>3, <3>4
      <4> QED
        BY <3>5, <4>1, ShiftedExact
    <3>7. Shifted(IF w[0] <= MaxInt THEN w[0] ELSE ERROR, z) = FixedPoint(line, point)
      BY <3>2, <3>4, <3>6
    <3>8. CASE u[l] <= MaxInt
      <4>1. AtoFp(line, point) = Shifted(u[l], z)
        BY <2>1, <3>3, <3>8
      <4> QED
        BY <3>4, <3>7, <3>8, <4>1
    <3>9. CASE ~ (u[l] <= MaxInt)
      <4>1. AtoFp(line, point) = ERROR
        BY <2>1, <2>15, <3>3, <3>9, ShiftedError
      <4>2. Shifted(ERROR, z) = ERROR
        BY ShiftedError
      <4> QED
        BY <3>4, <3>7, <3>9, <4>1, <4>2
    <3> QED
      BY <3>8, <3>9
  <2> QED
    BY <2>16, <2>17
<1> QED
  BY <1>5, <1>6

(***************************************************************************)
(* ParsesExactly: rap_atoi, rap_atofp and rap_hextoi return the number of  *)
(* any text that is one and that an int4 holds, and RAP_ERROR for every    *)
(* other text, whatever its length (rap_string.c:853, 883, 937).           *)
(***************************************************************************)
THEOREM ParsersAreExact == Spec => []ParsesExactly
<1>1. Init => ParsesExactly
  BY DEF Init, Idle, ParsesExactly
<1>2. ParsesExactly /\ [Next]_vars => ParsesExactly'
  <2> SUFFICES ASSUME ParsesExactly, [Next]_vars PROVE ParsesExactly'
    OBVIOUS
  <2>1. CASE Parse
    <3>1. PICK line \in Lines, point \in Points :
            Calls([fn |-> "parse", line |-> line, point |-> point],
                  [atoi |-> AtoI(line), atofp |-> AtoFp(line, point), hextoi |-> HexToI(line)])
      BY <2>1 DEF Parse
    <3>2. /\ call'.fn = "parse" /\ call'.line = line /\ call'.point = point
          /\ result'.atoi = AtoI(line) /\ result'.atofp = AtoFp(line, point)
          /\ result'.hextoi = HexToI(line)
      BY <3>1 DEF Calls
    <3>3. line \in Seq(Octets) /\ point \in Nat
      BY InputsAssumption DEF Octets
    <3>4. LET decimal == line # << >> /\ \A i \in DOMAIN line : IsDigit(line[i])
          IN  AtoI(line) = IfFits(decimal, IF decimal THEN ValueOf(line, 10) ELSE 0)
      BY <3>3, AtoIExact
    <3>5. LET hex == line # << >> /\ \A i \in DOMAIN line : HexDigit(line[i]) # ERROR
          IN  HexToI(line) = IfFits(hex, IF hex THEN ValueOf(line, 16) ELSE 0)
      BY <3>3, HexToIExact
    <3>6. AtoFp(line, point) = FixedPoint(line, point)
      BY <3>3, AtoFpExact
    <3> QED
      BY <3>2, <3>4, <3>5, <3>6 DEF ParsesExactly
  <2>2. CASE Next /\ ~ Parse
    <3>1. call'.fn # "parse"
      BY <2>2, CallsMade DEF Next
    <3> QED
      BY <3>1 DEF ParsesExactly
  <2>3. CASE UNCHANGED vars
    BY <2>3 DEF vars, ParsesExactly
  <2> QED
    BY <2>1, <2>2, <2>3
<1> QED
  BY <1>1, <1>2, PTL DEF Spec
-----------------------------------------------------------------------------
(***************************************************************************)
(* The 64 bit numbers.  Val is what the limbs say.                         *)
(***************************************************************************)
Limbs == 0 .. Limb - 1

Joined(x, m) == x * Limb + m
Val(n) == Joined(Joined(Joined(n[1], n[2]), n[3]), n[4])

\* A quotient and its remainder.
Made(k, q, s) == k * q + s
Divided(e, k, q, s) == q = e \div k /\ s = e % k /\ e = Made(k, q, s)

LEMMA Limbed ==
  ASSUME NEW a \in Limbs, NEW b \in Limbs, NEW c \in Limbs, NEW d \in Limbs
  PROVE  /\ <<a, b, c, d>> \in Number64
         /\ <<a, b, c, d>>[1] = a /\ <<a, b, c, d>>[2] = b
         /\ <<a, b, c, d>>[3] = c /\ <<a, b, c, d>>[4] = d
  BY DEF Number64, Limbs

LEMMA LimbsOf ==
  ASSUME NEW n \in Number64
  PROVE  n[1] \in Limbs /\ n[2] \in Limbs /\ n[3] \in Limbs /\ n[4] \in Limbs
  BY DEF Number64, Limbs

LEMMA LimbFacts == Limb \in Nat /\ Limb >= 2 /\ 0 \in Limbs /\ 1 \in Limbs /\ Limb - 1 \in Limbs
                   /\ \A m \in Limbs : m \in Nat /\ m < Limb
  BY LimbAssumption DEF Limbs

\* A product of naturals, and how it grows.
LEMMA Products ==
  ASSUME NEW a \in Nat, NEW b \in Nat, NEW c \in Nat
  PROVE  /\ a * b \in Nat /\ a * b = b * a
         /\ a <= b => a * c <= b * c /\ c * a <= c * b
         /\ (a + b) * c = a * c + b * c /\ c * (a + b) = c * a + c * b
         /\ (a * b) * c = a * (b * c)
<1>1. a * b \in Nat /\ a * b = b * a
  OBVIOUS
<1>2. (a + b) * c = a * c + b * c /\ c * (a + b) = c * a + c * b
  OBVIOUS
<1>3. a <= b => a * c <= b * c /\ c * a <= c * b
  <2> SUFFICES ASSUME a <= b PROVE a * c <= b * c /\ c * a <= c * b
    OBVIOUS
  <2>1. PICK e \in Nat : b = a + e
    <3>1. b - a \in Nat /\ b = a + (b - a)
      OBVIOUS
    <3> QED
      BY <3>1
  <2>2. b * c = a * c + e * c /\ e * c \in Nat /\ a * c \in Nat
    BY <2>1
  <2>3. c * a = a * c /\ c * b = b * c
    OBVIOUS
  <2> QED
    BY <2>2, <2>3
<1>4. (a * b) * c = a * (b * c)
  OBVIOUS
<1> QED
  BY <1>1, <1>2, <1>3, <1>4

\* What the division of a number by another says.
LEMMA Division ==
  ASSUME NEW e \in Nat, NEW k \in Nat \ {0}
  PROVE  \E q \in Nat : \E s \in 0 .. k - 1 : Divided(e, k, q, s)
<1>1. e % k \in 0 .. k - 1 /\ e \div k \in Int /\ e \div k >= 0
  OBVIOUS
<1>2. (e \div k) * k + (e % k) = e
  OBVIOUS
<1>3. PICK q \in Nat : q = e \div k
  BY <1>1
<1>4. PICK s \in 0 .. k - 1 : s = e % k
  BY <1>1
<1>5. q * k + s = e
  BY <1>2, <1>3, <1>4
<1>6. q * k = k * q
  OBVIOUS
<1>7. k * q + s = e
  BY <1>5, <1>6
<1> QED
  BY <1>3, <1>4, <1>7 DEF Made, Divided

\* One limb of a division: the remainder so far, and the limb behind it.
LEMMA LimbDivided ==
  ASSUME NEW k \in Nat \ {0}, NEW r \in 0 .. k - 1, NEW m \in Limbs, NEW e, e = Joined(r, m)
  PROVE  e \in Nat /\ \E q \in Limbs : \E s \in 0 .. k - 1 : Divided(e, k, q, s)
<1>1. r * Limb \in Nat /\ m \in Nat /\ m < Limb /\ Limb \in Nat
  BY LimbFacts
<1>2. e \in Nat /\ e = r * Limb + m
  BY <1>1 DEF Joined
<1>3. e < k * Limb
  <2>1. r + 1 \in Nat /\ r + 1 <= k
    OBVIOUS
  <2>2. (r + 1) * Limb <= k * Limb
    BY <1>1, <2>1, Products
  <2>3. (r + 1) * Limb = r * Limb + Limb
    BY <1>1
  <2>4. k * Limb \in Nat
    BY <1>1
  <2> QED
    BY <1>1, <1>2, <2>2, <2>3, <2>4
<1>4. PICK q \in Nat, s \in 0 .. k - 1 : Divided(e, k, q, s)
  BY <1>2, Division
<1>7. e = k * q + s
  BY <1>4 DEF Made, Divided
<1>5. q < Limb
  <2> SUFFICES ASSUME q >= Limb PROVE FALSE
    BY <1>1
  <2>1. k * Limb <= k * q
    BY <1>1, Products
  <2>2. k * q \in Nat /\ k * Limb \in Nat
    BY <1>1
  <2> QED
    BY <1>2, <1>3, <1>7, <2>1, <2>2
<1>6. q \in Limbs
  BY <1>1, <1>5 DEF Limbs
<1> QED
  BY <1>2, <1>4, <1>6

\* The next limb of a division.
Splits(k, x, a, p) == k \in Nat /\ x \in Nat /\ a \in Nat /\ p \in Nat /\ x = Made(k, a, p)

LEMMA Carried ==
  ASSUME NEW k, NEW x, NEW a, NEW p, Splits(k, x, a, p),
         NEW m, NEW b, NEW q, Splits(k, Joined(p, m), b, q), m \in Nat
  PROVE  Splits(k, Joined(x, m), Joined(a, b), q)
<1> USE DEF Made, Joined, Splits
<1>1. PICK L \in Nat : L = Limb
  BY LimbFacts
<1>2. x * L = (k * a) * L + p * L
  BY Products
<1>3. (k * a) * L = k * (a * L)
  BY Products
<1>4. k * (a * L + b) = k * (a * L) + k * b
  BY Products
<1>5. x * L \in Nat /\ p * L \in Nat /\ k * (a * L) \in Nat /\ k * b \in Nat
  OBVIOUS
<1> QED
  BY <1>1, <1>2, <1>3, <1>4, <1>5

\* A quotient and a remainder: what they say together is the number.
LEMMA DivModFacts ==
  ASSUME NEW n \in Number64, NEW k \in Nat \ {0}
  PROVE  /\ DivMod(n, k).quotient \in Number64 /\ DivMod(n, k).remainder \in 0 .. k - 1
         /\ Splits(k, Val(n), Val(DivMod(n, k).quotient), DivMod(n, k).remainder)
<1>0. /\ 0 \in 0 .. k - 1 /\ Limb \in Nat /\ \A m \in Limbs : m \in Nat
      /\ n[1] \in Limbs /\ n[2] \in Limbs /\ n[3] \in Limbs /\ n[4] \in Limbs
  BY LimbsOf, LimbFacts
<1>1. PICK a \in Limbs, p \in 0 .. k - 1 : Divided(n[1], k, a, p)
  <2>1. n[1] = Joined(0, n[1])
    BY <1>0 DEF Joined
  <2> QED
    BY <1>0, <2>1, LimbDivided
<1>2. PICK e : e = Joined(p, n[2])
  OBVIOUS
<1>3. PICK b \in Limbs, q \in 0 .. k - 1 : Divided(e, k, b, q)
  BY <1>0, <1>2, LimbDivided
<1>4. PICK f : f = Joined(q, n[3])
  OBVIOUS
<1>5. PICK c \in Limbs, r \in 0 .. k - 1 : Divided(f, k, c, r)
  BY <1>0, <1>4, LimbDivided
<1>6. PICK g : g = Joined(r, n[4])
  OBVIOUS
<1>7. PICK d \in Limbs, s \in 0 .. k - 1 : Divided(g, k, d, s)
  BY <1>0, <1>6, LimbDivided
<1>8. DivMod(n, k) = [quotient |-> <<a, b, c, d>>, remainder |-> s]
  BY <1>1, <1>2, <1>3, <1>4, <1>5, <1>6, <1>7 DEF DivMod, Joined, Divided
<1>9. PICK z : z = <<a, b, c, d>>
  OBVIOUS
<1>10. z \in Number64 /\ z[1] = a /\ z[2] = b /\ z[3] = c /\ z[4] = d
  BY <1>9, Limbed
<1>11. DivMod(n, k).quotient = z /\ DivMod(n, k).remainder = s
  BY <1>8, <1>9
<1>12. /\ k \in Nat /\ a \in Nat /\ b \in Nat /\ c \in Nat /\ d \in Nat
       /\ p \in Nat /\ q \in Nat /\ r \in Nat /\ s \in Nat
       /\ n[1] \in Nat /\ n[2] \in Nat /\ n[3] \in Nat /\ n[4] \in Nat
  BY <1>0
<1>13. e \in Nat /\ f \in Nat /\ g \in Nat
  BY <1>0, <1>2, <1>4, <1>6, LimbDivided
<1>14. /\ Splits(k, n[1], a, p) /\ Splits(k, Joined(p, n[2]), b, q)
       /\ Splits(k, Joined(q, n[3]), c, r) /\ Splits(k, Joined(r, n[4]), d, s)
  BY <1>1, <1>2, <1>3, <1>4, <1>5, <1>6, <1>7, <1>12, <1>13 DEF Divided, Splits
<1>15. Splits(k, Joined(n[1], n[2]), Joined(a, b), q)
  BY <1>12, <1>14, Carried
<1>16. Splits(k, Joined(Joined(n[1], n[2]), n[3]), Joined(Joined(a, b), c), r)
  BY <1>12, <1>14, <1>15, Carried
<1>17. Splits(k, Val(n), Joined(Joined(Joined(a, b), c), d), s)
  BY <1>12, <1>14, <1>16, Carried DEF Val
<1>18. Val(z) = Joined(Joined(Joined(a, b), c), d)
  BY <1>10 DEF Val
<1> QED
  BY <1>7, <1>10, <1>11, <1>17, <1>18

LEMMA TimesPlusIn ==
  ASSUME NEW n \in Number64, NEW k \in Nat, NEW c \in Nat
  PROVE  TimesPlus(n, k, c) \in Number64
<1> USE LimbsOf
<1>0. Limb \in Nat \ {0} /\ \A m \in Limbs : m \in Nat
  BY LimbFacts
<1>2. \A m \in Nat : m \div Limb \in Nat /\ m % Limb \in Limbs
  <2> TAKE m \in Nat
  <2>1. PICK q \in Nat, s \in 0 .. Limb - 1 : Divided(m, Limb, q, s)
    BY <1>0, Division
  <2> QED
    BY <2>1 DEF Divided, Limbs
<1> DEFINE d == n[4] * k + c
<1> DEFINE e == n[3] * k + d \div Limb
<1> DEFINE f == n[2] * k + e \div Limb
<1> DEFINE g == n[1] * k + f \div Limb
<1>1. \A x \in Limbs : \A y \in Nat : x * k + y \in Nat
  BY <1>0
<1>3. d \in Nat
  BY <1>1
<1> HIDE DEF d
<1>4. e \in Nat
  BY <1>1, <1>2, <1>3
<1> HIDE DEF e
<1>5. f \in Nat
  BY <1>1, <1>2, <1>4
<1> HIDE DEF f
<1>8. g \in Nat
  BY <1>1, <1>2, <1>5
<1> HIDE DEF g
<1>6. TimesPlus(n, k, c) = <<g % Limb, f % Limb, e % Limb, d % Limb>>
  BY DEF TimesPlus, d, e, f, g
<1>7. g % Limb \in Limbs /\ f % Limb \in Limbs /\ e % Limb \in Limbs /\ d % Limb \in Limbs
  BY <1>2, <1>3, <1>4, <1>5, <1>8
<1> QED
  BY <1>6, <1>7, Limbed

LEMMA LimbsMade ==
  ASSUME NEW n \in Number64
  PROVE  /\ Zero64 \in Number64 /\ <<0, 0, 0, 1>> \in Number64
         /\ Low32(n) \in Number64 /\ SignedLow32(n) \in Number64 /\ Negated(n) \in Number64
<1> USE LimbsOf, LimbFacts
<1>2. Zero64 \in Number64 /\ <<0, 0, 0, 1>> \in Number64 /\ Low32(n) \in Number64
  BY Limbed DEF Zero64, Low32
<1>3. SignedLow32(n) \in Number64
  <2>1. <<Limb - 1, Limb - 1, n[3], n[4]>> \in Number64
    BY Limbed
  <2> QED
    BY <1>2, <2>1 DEF SignedLow32
<1>4. Negated(n) \in Number64
  <2>1. \A i \in 1 .. 4 : Limb - 1 - n[i] \in 0 .. Limb - 1
    BY DEF Number64
  <2>2. [i \in 1 .. 4 |-> Limb - 1 - n[i]] \in Number64
    BY <2>1 DEF Number64
  <2> QED
    BY <2>2, TimesPlusIn DEF Negated
<1> QED
  BY <1>2, <1>3, <1>4

LEMMA Integer64In ==
  ASSUME NEW d, d.arg \in Number64
  PROVE  Integer64(d) \in Number64 /\ Negated(Integer64(d)) \in Number64
<1>1. <<0, 0, 0, 1>> \in Number64
  BY LimbsMade
<1>2. PICK m \in Number64 : m = Negated(<<0, 0, 0, 1>>)
  BY <1>1, LimbsMade
<1>3. Low32(d.arg) \in Number64 /\ SignedLow32(d.arg) \in Number64
  BY LimbsMade
<1>4. Integer64(d) \in {m, Low32(d.arg), SignedLow32(d.arg), d.arg}
  BY <1>2 DEF Integer64
<1>5. Integer64(d) \in Number64
  BY <1>2, <1>3, <1>4
<1> QED
  BY <1>5, LimbsMade

-----------------------------------------------------------------------------
(***************************************************************************)
(* The digits of a number: at most twenty.                                 *)
(***************************************************************************)
Ten5 == 10 * 10 * 10 * 10 * 10

\* Putting a limb behind a number.
LEMMA JoinedBelow ==
  ASSUME NEW x \in Nat, NEW most \in Nat, x < most, NEW m \in Limbs
  PROVE  Joined(x, m) \in Nat /\ Joined(x, m) < most * Ten5
<1>1. PICK t \in Nat, L \in Nat : t = Ten5 /\ L = Limb /\ L <= t /\ m \in Nat /\ m < L
  <2>1. Ten5 \in Nat /\ Limb <= Ten5
    BY LimbAssumption DEF Ten5
  <2> QED
    BY <2>1, LimbFacts
<1>2. x * L <= x * t
  BY <1>1, Products
<1>3. (x + 1) * t <= most * t
  BY Products
<1>4. (x + 1) * t = x * t + t
  OBVIOUS
<1>5. x * L \in Nat /\ x * t \in Nat /\ most * t \in Nat
  OBVIOUS
<1> QED
  BY <1>1, <1>2, <1>3, <1>4, <1>5 DEF Joined

LEMMA ValFacts ==
  ASSUME NEW n \in Number64
  PROVE  /\ Val(n) \in Nat /\ Val(n) < Ten5 * Ten5 * Ten5 * Ten5
         /\ Val(n) = 0 => n = Zero64
<1>1. /\ n[1] \in Limbs /\ n[2] \in Limbs /\ n[3] \in Limbs /\ n[4] \in Limbs
      /\ \A m \in Limbs : m \in Nat /\ m < Limb
      /\ Ten5 \in Nat /\ Limb \in Nat \ {0} /\ Limb <= Ten5
  BY LimbsOf, LimbFacts, LimbAssumption DEF Ten5
<1>2. PICK x \in Nat : x = Joined(n[1], n[2]) /\ x < Ten5 * Ten5
  <2>1. n[1] \in Nat /\ n[1] < Ten5
    BY <1>1
  <2> QED
    BY <1>1, <2>1, JoinedBelow
<1>3. PICK y \in Nat : y = Joined(x, n[3]) /\ y < Ten5 * Ten5 * Ten5
  <2>1. PICK most \in Nat : most = Ten5 * Ten5
    BY <1>1
  <2> QED
    BY <1>1, <1>2, <2>1, JoinedBelow
<1>4. PICK v \in Nat : v = Joined(y, n[4]) /\ v < Ten5 * Ten5 * Ten5 * Ten5
  <2>1. PICK most \in Nat : most = Ten5 * Ten5 * Ten5
    BY <1>1
  <2> QED
    BY <1>1, <1>3, <2>1, JoinedBelow
<1>5. Val(n) = v
  BY <1>2, <1>3, <1>4 DEF Val
<1>6. ASSUME v = 0 PROVE n = Zero64
  <2>1. \A a \in Nat : \A m \in Limbs : Joined(a, m) = 0 => a = 0 /\ m = 0
    <3> TAKE a \in Nat
    <3> TAKE m \in Limbs
    <3>1. m \in Nat /\ a * Limb \in Nat /\ (a > 0 => a * Limb > 0)
      <4>1. m \in Nat /\ a * Limb \in Nat
        BY <1>1
      <4>2. a > 0 => 1 * Limb <= a * Limb /\ 1 * Limb = Limb
        BY <1>1, Products
      <4> QED
        BY <1>1, <4>1, <4>2
    <3> QED
      BY <3>1 DEF Joined
  <2>2. y = 0 /\ n[4] = 0
    BY <1>1, <1>4, <1>6, <2>1
  <2>3. x = 0 /\ n[3] = 0
    BY <1>1, <1>3, <2>1, <2>2
  <2>4. n[1] = 0 /\ n[2] = 0
    <3>1. n[1] \in Nat
      BY <1>1
    <3> QED
      BY <1>1, <1>2, <2>1, <2>3, <3>1
  <2>5. PICK z : z = Zero64
    OBVIOUS
  <2>6. z \in Number64 /\ z[1] = 0 /\ z[2] = 0 /\ z[3] = 0 /\ z[4] = 0
    BY <2>5, LimbFacts, Limbed DEF Zero64
  <2>7. \A i \in 1 .. 4 : n[i] = z[i]
    BY <2>2, <2>3, <2>4, <2>6
  <2> QED
    BY <2>5, <2>6, <2>7 DEF Number64
<1> QED
  BY <1>4, <1>5, <1>6

\* Twenty times ten.
LEMMA Powers ==
  \E p \in [0 .. 20 -> Nat] : /\ p[1] = 10 /\ \A k \in 1 .. 20 : p[k] = 10 * p[k - 1]
                              /\ p[20] = Ten5 * Ten5 * Ten5 * Ten5
<1> DEFINE next == [k \in 1 .. 20 |-> [x \in Nat |-> 10 * x]]
<1>1. Closed(Nat, next, 20)
  BY DEF Closed
<1>2. \A k \in 1 .. 20 : \A x \in Nat : next[k][x] = 10 * x
  OBVIOUS
<1> HIDE DEF next
<1>3. PICK p : /\ p \in [0 .. 20 -> Nat] /\ p[0] = 1
               /\ \A k \in 1 .. 20 : p[k - 1] \in Nat /\ p[k] = next[k][p[k - 1]]
  <2>1. PICK n \in Nat : n = 20
    OBVIOUS
  <2>2. PICK S, x : S = Nat /\ x = 1
    OBVIOUS
  <2>3. Closed(S, next, n) /\ x \in S /\ n \in Nat
    BY <1>1, <2>1, <2>2
  <2>4. \E f : /\ f \in [0 .. n -> S] /\ f[0] = x
               /\ \A k \in 1 .. n : f[k - 1] \in S /\ f[k] = next[k][f[k - 1]]
               /\ f = [k \in 0 .. n |-> f[k]]
    BY <2>3, StepsExist
  <2> QED
    BY <2>1, <2>2, <2>4
<1>4. \A k \in 1 .. 20 : p[k] = 10 * p[k - 1]
  BY <1>2, <1>3
<1>5. p[1] = 10 /\ p[2] = 10 * 10 /\ p[3] = 10 * 10 * 10 /\ p[4] = 10 * 10 * 10 * 10 /\ p[5] = Ten5
  BY <1>3, <1>4 DEF Ten5
<1>6. \A k \in 0 .. 15 : p[k + 5] = p[k] * Ten5
  <2> TAKE k \in 0 .. 15
  <2>1. /\ p[k + 1] = 10 * p[k] /\ p[k + 2] = 10 * p[k + 1] /\ p[k + 3] = 10 * p[k + 2]
        /\ p[k + 4] = 10 * p[k + 3] /\ p[k + 5] = 10 * p[k + 4]
    <3>1. \A j \in 1 .. 5 : p[k + j] = 10 * p[k + j - 1]
      BY <1>4
    <3> QED
      BY <3>1
  <2>2. p[k] \in Nat
    BY <1>3
  <2> QED
    BY <2>1, <2>2 DEF Ten5
<1>7. p[10] = Ten5 * Ten5 /\ p[15] = Ten5 * Ten5 * Ten5 /\ p[20] = Ten5 * Ten5 * Ten5 * Ten5
  <2>1. p[5 + 5] = p[5] * Ten5 /\ p[10 + 5] = p[10] * Ten5 /\ p[15 + 5] = p[15] * Ten5
    BY <1>6
  <2>2. p[10] = p[5] * Ten5 /\ p[15] = p[10] * Ten5 /\ p[20] = p[15] * Ten5
    BY <2>1
  <2>3. p[10] = Ten5 * Ten5
    BY <1>5, <2>2
  <2>4. p[15] = Ten5 * Ten5 * Ten5
    BY <2>2, <2>3
  <2> QED
    BY <2>2, <2>3, <2>4
<1> QED
  BY <1>3, <1>4, <1>5, <1>7

\* What the recursive definition of Digits asks of its function.
DigitsRuns(hex, f) ==
  f = [m \in Number64 |->
        LET d == DivMod(m, IF hex = 0 THEN 10 ELSE 16)
            high == IF d.quotient = Zero64 THEN << >> ELSE f[d.quotient]
        IN  Append(high, DigitChar(d.remainder, hex))]

\* The digits in front of the last, and the last.
Ahead(hex, m) == DivMod(m, IF hex = 0 THEN 10 ELSE 16).quotient
Behind(hex, m) == DigitChar(DivMod(m, IF hex = 0 THEN 10 ELSE 16).remainder, hex)

LEMMA AheadFacts ==
  ASSUME NEW hex, NEW m \in Number64
  PROVE  /\ Ahead(hex, m) \in Number64 /\ Behind(hex, m) \in Octets
         /\ Val(m) \in Nat /\ Val(Ahead(hex, m)) \in Nat
         /\ \A most \in Nat : Val(m) < 10 * most => Val(Ahead(hex, m)) < most
<1>1. PICK k \in Nat \ {0} : k = (IF hex = 0 THEN 10 ELSE 16)
  OBVIOUS
<1>2. PICK q \in Number64, r \in 0 .. k - 1 :
        q = DivMod(m, k).quotient /\ r = DivMod(m, k).remainder /\ Splits(k, Val(m), Val(q), r)
  BY DivModFacts
<1>3. Ahead(hex, m) = q /\ Behind(hex, m) = DigitChar(r, hex)
  BY <1>1, <1>2 DEF Ahead, Behind
<1>4. DigitChar(r, hex) \in Octets
  BY <1>1 DEF DigitChar, Octets
<1>5. Val(m) \in Nat /\ Val(q) \in Nat /\ Val(m) = k * Val(q) + r
  BY <1>2 DEF Splits, Made
<1>6. ASSUME NEW most \in Nat, Val(m) < 10 * most PROVE Val(q) < most
  BY <1>1, <1>5, <1>6
<1> QED
  BY <1>2, <1>3, <1>4, <1>5, <1>6

\* A function that makes the digits.
LEMMA DigitsExist ==
  ASSUME NEW hex
  PROVE  \E f : DigitsRuns(hex, f)
<1> DEFINE S == [Number64 -> Seq(Octets)]
<1> DEFINE step(g, m) == Append(IF Ahead(hex, m) = Zero64 THEN << >> ELSE g[Ahead(hex, m)],
                                Behind(hex, m))
<1> DEFINE made == [g \in S |-> [m \in Number64 |-> step(g, m)]]
<1> DEFINE next == [k \in 1 .. 22 |-> made]
<1>1. ASSUME NEW g \in S PROVE made[g] \in S /\ \A m \in Number64 : made[g][m] = step(g, m)
  <2>1. ASSUME NEW m \in Number64 PROVE step(g, m) \in Seq(Octets)
    <3>1. PICK a \in Number64, b \in Octets : a = Ahead(hex, m) /\ b = Behind(hex, m)
      BY AheadFacts
    <3>2. PICK h \in Seq(Octets) : h = (IF a = Zero64 THEN << >> ELSE g[a])
      <4>1. << >> \in Seq(Octets) /\ g[a] \in Seq(Octets)
        OBVIOUS
      <4> QED
        BY <4>1, Zenon
    <3>3. Append(h, b) \in Seq(Octets)
      OBVIOUS
    <3> QED
      BY <3>1, <3>2, <3>3
  <2> HIDE DEF step
  <2>2. [m \in Number64 |-> step(g, m)] \in S
    BY <2>1
  <2> QED
    BY <2>2
<1>2. \A k \in 1 .. 22 : next[k] = made
  OBVIOUS
<1>3. PICK g : g \in S
  <2>1. << >> \in Seq(Octets)
    OBVIOUS
  <2>2. [m \in Number64 |-> << >>] \in S
    BY <2>1
  <2> QED
    BY <2>2
<1> HIDE DEF made, S, next
<1>4. Closed(S, next, 22)
  BY <1>1, <1>2 DEF Closed
<1>5. PICK f : /\ \A k \in 0 .. 22 : f[k] \in S
               /\ \A k \in 1 .. 22 : f[k] = made[f[k - 1]]
  <2>1. PICK n \in Nat : n = 22
    OBVIOUS
  <2>2. \E f : /\ f \in [0 .. n -> S] /\ f[0] = g
               /\ \A k \in 1 .. n : f[k - 1] \in S /\ f[k] = next[k][f[k - 1]]
               /\ f = [k \in 0 .. n |-> f[k]]
    <3>1. g \in S /\ n \in Nat /\ Closed(S, next, n)
      BY <1>3, <1>4, <2>1
    <3> QED
      BY <3>1, StepsExist
  <2> QED
    BY <1>2, <2>1, <2>2
<1>6. \A k \in 1 .. 22 : f[k - 1] \in S /\ \A m \in Number64 : f[k][m] = step(f[k - 1], m)
  <2> TAKE k \in 1 .. 22
  <2>1. k - 1 \in 0 .. 22
    OBVIOUS
  <2>2. PICK y \in S : y = f[k - 1]
    BY <1>5, <2>1
  <2>3. f[k] = made[y]
    BY <1>5, <2>2
  <2> HIDE DEF step
  <2>4. \A m \in Number64 : f[k][m] = step(y, m)
    BY <1>1, <2>3
  <2> QED
    BY <2>2, <2>4
<1>7. PICK p \in [0 .. 20 -> Nat] : /\ p[1] = 10 /\ \A k \in 1 .. 20 : p[k] = 10 * p[k - 1]
                                    /\ p[20] = Ten5 * Ten5 * Ten5 * Ten5
  BY Powers
<1> DEFINE P == {k \in 1 .. 20 : \A m \in Number64 : Val(m) < p[k] => f[k][m] = f[k + 1][m]}
<1>8. 1 \in P
  <2> SUFFICES ASSUME NEW m \in Number64, Val(m) < 10 PROVE f[1][m] = f[1 + 1][m]
    BY <1>7
  <2>1. Ahead(hex, m) = Zero64
    <3>1. Val(Ahead(hex, m)) < 1 /\ Val(Ahead(hex, m)) \in Nat
      BY AheadFacts
    <3> QED
      BY <3>1, AheadFacts, ValFacts
  <2>2. f[1][m] = step(f[0], m) /\ f[1 + 1][m] = step(f[1], m)
    <3> HIDE DEF step
    <3>1. 1 \in 1 .. 22 /\ 1 + 1 \in 1 .. 22 /\ 1 - 1 = 0 /\ (1 + 1) - 1 = 1
      OBVIOUS
    <3> QED
      BY <1>6, <3>1
  <2>3. step(f[0], m) = step(f[1], m)
    BY <2>1
  <2> HIDE DEF step
  <2> QED
    BY <2>2, <2>3
<1>9. ASSUME NEW k \in 2 .. 20, k - 1 \in P PROVE k \in P
  <2> SUFFICES ASSUME NEW m \in Number64, Val(m) < p[k] PROVE f[k][m] = f[k + 1][m]
    OBVIOUS
  <2>1. f[k][m] = step(f[k - 1], m) /\ f[k + 1][m] = step(f[k], m)
    <3>1. \A j \in 1 .. 22 : f[j][m] = step(f[j - 1], m)
      BY <1>6
    <3> HIDE DEF step
    <3>2. k \in 1 .. 22 /\ k + 1 \in 1 .. 22 /\ (k + 1) - 1 = k
      OBVIOUS
    <3> QED
      BY <3>1, <3>2
  <2>2. PICK a \in Number64 : a = Ahead(hex, m)
    BY AheadFacts
  <2>3. Val(a) < p[k - 1]
    <3>1. p[k - 1] \in Nat /\ Val(m) < 10 * p[k - 1]
      BY <1>7
    <3> QED
      BY <2>2, <3>1, AheadFacts
  <2>4. f[k - 1][a] = f[k][a]
    BY <1>9, <2>3
  <2> QED
    BY <2>1, <2>2, <2>4
<1>10. 20 \in P
  <2> HIDE DEF P
  <2>1. \A k \in 1 + 1 .. 20 : k - 1 \in P => k \in P
    BY <1>9
  <2>2. \A k \in 1 .. 20 : k \in P
    BY <1>8, <2>1, GoesOn
  <2> QED
    BY <2>2
<1>11. \A m \in Number64 : f[20][m] = f[21][m]
  BY <1>7, <1>10, ValFacts
<1>12. PICK h : h = f[20]
  OBVIOUS
<1>13. \A m \in Number64 : h[m] = step(h, m)
  <2>1. \A m \in Number64 : f[21][m] = step(f[20], m)
    BY <1>6
  <2> HIDE DEF step
  <2> QED
    BY <1>11, <1>12, <2>1
<1>14. h = [m \in Number64 |-> h[m]]
  <2>1. h \in S
    BY <1>5, <1>12
  <2> QED
    BY <2>1 DEF S
<1>15. h = [m \in Number64 |-> step(h, m)]
  <2> HIDE DEF step
  <2> QED
    BY <1>13, <1>14
<1> QED
  BY <1>15 DEF DigitsRuns, Ahead, Behind

\* The digits are bytes, and not more than twenty.
LEMMA DigitsFacts ==
  ASSUME NEW hex, NEW n \in Number64
  PROVE  Digits(n, hex) \in Seq(Octets) /\ Len(Digits(n, hex)) <= 20
<1> DEFINE f == CHOOSE h : DigitsRuns(hex, h)
<1>1. DigitsRuns(hex, f) /\ Digits(n, hex) = f[n]
  BY DigitsExist DEF Digits, DigitsRuns
<1> HIDE DEF f
<1>2. \A m \in Number64 :
        f[m] = Append(IF Ahead(hex, m) = Zero64 THEN << >> ELSE f[Ahead(hex, m)], Behind(hex, m))
  BY <1>1 DEF DigitsRuns, Ahead, Behind
<1>3. PICK p \in [0 .. 20 -> Nat] : /\ p[1] = 10 /\ \A k \in 1 .. 20 : p[k] = 10 * p[k - 1]
                                    /\ p[20] = Ten5 * Ten5 * Ten5 * Ten5
  BY Powers
<1> DEFINE P == {k \in 1 .. 20 : \A m \in Number64 :
                   Val(m) < p[k] => f[m] \in Seq(Octets) /\ Len(f[m]) <= k}
<1>4. 1 \in P
  <2> SUFFICES ASSUME NEW m \in Number64, Val(m) < 10 PROVE f[m] \in Seq(Octets) /\ Len(f[m]) <= 1
    BY <1>3
  <2>1. Ahead(hex, m) = Zero64
    <3>1. Val(Ahead(hex, m)) < 1 /\ Val(Ahead(hex, m)) \in Nat
      BY AheadFacts
    <3> QED
      BY <3>1, AheadFacts, ValFacts
  <2>2. f[m] = Append(<< >>, Behind(hex, m))
    BY <1>2, <2>1
  <2>3. Behind(hex, m) \in Octets
    BY AheadFacts
  <2> QED
    BY <2>2, <2>3
<1>5. ASSUME NEW k \in 2 .. 20, k - 1 \in P PROVE k \in P
  <2> SUFFICES ASSUME NEW m \in Number64, Val(m) < p[k] PROVE f[m] \in Seq(Octets) /\ Len(f[m]) <= k
    OBVIOUS
  <2>1. PICK a \in Number64, b \in Octets : a = Ahead(hex, m) /\ b = Behind(hex, m)
    BY AheadFacts
  <2>2. Val(a) < p[k - 1]
    <3>1. p[k - 1] \in Nat /\ Val(m) < 10 * p[k - 1]
      BY <1>3
    <3> QED
      BY <2>1, <3>1, AheadFacts
  <2>3. f[a] \in Seq(Octets) /\ Len(f[a]) <= k - 1
    BY <1>5, <2>2
  <2>4. PICK h \in Seq(Octets) : h = (IF a = Zero64 THEN << >> ELSE f[a]) /\ Len(h) <= k - 1
    <3>1. << >> \in Seq(Octets) /\ Len(<< >>) = 0 /\ 0 <= k - 1
      OBVIOUS
    <3>2. CASE a = Zero64
      BY <3>1, <3>2
    <3>3. CASE a # Zero64
      BY <2>3, <3>3
    <3> QED
      BY <3>2, <3>3
  <2>5. f[m] = Append(h, b)
    BY <1>2, <2>1, <2>4
  <2>6. Append(h, b) \in Seq(Octets) /\ Len(Append(h, b)) = Len(h) + 1 /\ Len(h) \in Nat
    OBVIOUS
  <2>7. Len(Append(h, b)) <= k
    BY <2>4, <2>6
  <2> QED
    BY <2>5, <2>6, <2>7, Zenon
<1>6. 20 \in P
  <2> HIDE DEF P
  <2>1. \A k \in 1 + 1 .. 20 : k - 1 \in P => k \in P
    BY <1>5
  <2>2. \A k \in 1 .. 20 : k \in P
    BY <1>4, <2>1, GoesOn
  <2> QED
    BY <2>2
<1>7. f[n] \in Seq(Octets) /\ Len(f[n]) <= 20
  BY <1>3, <1>6, ValFacts
<1> QED
  BY <1>1, <1>7

-----------------------------------------------------------------------------
(***************************************************************************)
(* Printing into less room: the text is the same, cut at the end.          *)
(***************************************************************************)
Texts == Seq(Octets)

\* s and t are what base begins with, t in the room most, and s cut where last is.
Cut(base, s, last, t, most) ==
  /\ base \in Texts /\ Len(base) <= Len(t) /\ \A i \in 1 .. Len(base) : t[i] = base[i]
  /\ s \in Texts /\ t \in Texts /\ last \in Nat /\ most \in Nat
  /\ Len(s) <= last /\ Len(t) <= most /\ last <= most
  /\ s # t => Len(s) = last /\ last <= Len(t) /\ \A i \in 1 .. last : s[i] = t[i]

\* Nothing is cut from what fits.
LEMMA CutWhole ==
  ASSUME NEW s \in Texts, NEW last \in Nat, NEW most \in Nat, Len(s) <= last, last <= most
  PROVE  Cut(s, s, last, s, most)
<1>1. Len(s) \in Nat
  BY DEF Texts
<1> QED
  BY <1>1 DEF Cut

\* How much of a text there is room for.
Fitting(buf, last, text) == IF Len(text) <= last - Len(buf) THEN Len(text) ELSE last - Len(buf)

\* z is what there is room for of the text, behind what is in the buffer.
PutBehind(z, buf, text, n) ==
  /\ z \in Texts /\ Len(z) = Len(buf) + n
  /\ \A i \in 1 .. Len(buf) : z[i] = buf[i]
  /\ \A i \in 1 .. n : z[Len(buf) + i] = text[i]

LEMMA PutFacts ==
  ASSUME NEW buf \in Texts, NEW last \in Nat, Len(buf) <= last, NEW text \in Texts
  PROVE  /\ Fitting(buf, last, text) \in Nat
         /\ PutBehind(Put(buf, last, text), buf, text, Fitting(buf, last, text))
<1>1. Len(buf) \in Nat /\ Len(text) \in Nat
  BY DEF Texts
<1>9. PICK n \in Nat : n = Fitting(buf, last, text)
  <2>1. CASE Len(text) <= last - Len(buf)
    BY <1>1, <2>1 DEF Fitting
  <2>2. CASE ~ (Len(text) <= last - Len(buf))
    BY <1>1, <2>2 DEF Fitting
  <2> QED
    BY <2>1, <2>2
<1>2. Min({Len(text), last - Len(buf)}) = n
  <2>1. last - Len(buf) \in Int /\ Len(text) \in Int
    BY <1>1
  <2>2. Min({Len(text), last - Len(buf)}) =
          IF Len(text) <= last - Len(buf) THEN Len(text) ELSE last - Len(buf)
    BY <2>1, OfTwo
  <2> QED
    BY <2>2, <1>9 DEF Fitting
<1>3. n <= Len(text)
  BY <1>1, <1>9 DEF Fitting
<1>4. PICK x : x = SubSeq(text, 1, n)
  OBVIOUS
<1>5. x \in Seq(Octets) /\ Len(x) = n /\ \A i \in 1 .. n : x[i] = text[i]
  BY <1>1, <1>3, <1>4 DEF Texts
<1>6. PICK z : z = buf \o x
  OBVIOUS
<1>7. /\ z \in Seq(Octets) /\ Len(z) = Len(buf) + n
      /\ \A i \in 1 .. Len(buf) : z[i] = buf[i]
      /\ \A i \in Len(buf) + 1 .. Len(buf) + n : z[i] = x[i - Len(buf)]
  <2>1. buf \in Seq(Octets)
    BY DEF Texts
  <2>2. z \in Seq(Octets) /\ Len(z) = Len(buf) + Len(x)
    <3>1. \A u, v \in Seq(Octets) : u \o v \in Seq(Octets) /\ Len(u \o v) = Len(u) + Len(v)
      OBVIOUS
    <3> QED
      BY <1>5, <1>6, <2>1, <3>1
  <2>3. \A i \in 1 .. Len(buf) : z[i] = buf[i]
    BY <1>1, <1>5, <1>6, <2>1
  <2>4. \A i \in Len(buf) + 1 .. Len(buf) + Len(x) : z[i] = x[i - Len(buf)]
    BY <1>1, <1>5, <1>6, <2>1
  <2> QED
    BY <1>5, <2>2, <2>3, <2>4
<1>10. \A i \in 1 .. n : z[Len(buf) + i] = text[i]
  <2> TAKE i \in 1 .. n
  <2>1. Len(buf) + i \in Len(buf) + 1 .. Len(buf) + n /\ (Len(buf) + i) - Len(buf) = i
    BY <1>1
  <2> QED
    BY <1>5, <1>7, <2>1
<1>8. Put(buf, last, text) = z
  BY <1>2, <1>4, <1>6 DEF Put
<1> QED
  BY <1>7, <1>8, <1>9, <1>10 DEF Texts, PutBehind

\* Sequences that are equal item by item are equal.
LEMMA SameTexts ==
  ASSUME NEW s \in Texts, NEW t \in Texts, Len(s) = Len(t), \A i \in 1 .. Len(s) : s[i] = t[i]
  PROVE  s = t
<1>1. s = [i \in 1 .. Len(s) |-> s[i]] /\ t = [i \in 1 .. Len(t) |-> t[i]]
  BY DEF Texts
<1> QED
  BY <1>1

LEMMA PutCut ==
  ASSUME NEW s, NEW t, NEW last, NEW most, NEW base, Cut(base, s, last, t, most), NEW text \in Texts
  PROVE  Cut(base, Put(s, last, text), last, Put(t, most, text), most)
<1>1. /\ s \in Texts /\ t \in Texts /\ last \in Nat /\ most \in Nat
      /\ Len(s) <= last /\ Len(t) <= most /\ last <= most
      /\ s # t => Len(s) = last /\ last <= Len(t) /\ \A i \in 1 .. last : s[i] = t[i]
  BY DEF Cut
<1>2. Len(s) \in Nat /\ Len(t) \in Nat /\ Len(text) \in Nat
  BY <1>1 DEF Texts
<1>5. PICK x, a : x = Put(s, last, text) /\ a = Fitting(s, last, text)
  OBVIOUS
<1>6. PICK y, b : y = Put(t, most, text) /\ b = Fitting(t, most, text)
  OBVIOUS
<1>11. a \in Nat /\ PutBehind(x, s, text, a) /\ b \in Nat /\ PutBehind(y, t, text, b)
  BY <1>1, <1>5, <1>6, PutFacts
<1>3. a = IF Len(text) <= last - Len(s) THEN Len(text) ELSE last - Len(s)
  BY <1>5 DEF Fitting
<1>4. b = IF Len(text) <= most - Len(t) THEN Len(text) ELSE most - Len(t)
  BY <1>6 DEF Fitting
<1>7. /\ x \in Texts /\ Len(x) = Len(s) + a
      /\ \A i \in 1 .. Len(s) : x[i] = s[i]
      /\ \A i \in 1 .. a : x[Len(s) + i] = text[i]
  BY <1>11 DEF PutBehind
<1>8. /\ y \in Texts /\ Len(y) = Len(t) + b
      /\ \A i \in 1 .. Len(t) : y[i] = t[i]
      /\ \A i \in 1 .. b : y[Len(t) + i] = text[i]
  BY <1>11 DEF PutBehind
<1>12. a \in Nat /\ b \in Nat
  BY <1>11
<1>9. Len(x) <= last /\ Len(y) <= most
  BY <1>1, <1>2, <1>12, <1>3, <1>4, <1>7, <1>8
<1>10. x # y => Len(x) = last /\ last <= Len(y) /\ \A i \in 1 .. last : x[i] = y[i]
  <2>1. CASE s # t
    <3>1. Len(s) = last /\ last <= Len(t) /\ \A i \in 1 .. last : s[i] = t[i]
      BY <1>1, <2>1
    <3>2. a = 0
      BY <1>2, <1>3, <1>12, <3>1
    <3>3. Len(x) = last /\ last <= Len(y)
      BY <1>1, <1>2, <1>12, <1>7, <1>8, <3>1, <3>2
    <3>4. ASSUME NEW i \in 1 .. last PROVE x[i] = y[i]
      <4>1. i \in 1 .. Len(s) /\ i \in 1 .. Len(t)
        BY <1>1, <1>2, <1>12, <3>1
      <4> QED
        BY <1>7, <1>8, <3>1, <4>1
    <3> QED
      BY <3>3, <3>4
  <2>2. CASE s = t
    <3>1. a <= b
      BY <1>1, <1>2, <1>12, <1>3, <1>4, <2>2
    <3>2. ASSUME NEW i \in 1 .. Len(s) + a PROVE x[i] = y[i]
      <4>1. CASE i <= Len(s)
        <5>1. i \in 1 .. Len(s)
          BY <1>2, <4>1
        <5> QED
          BY <1>7, <1>8, <2>2, <5>1
      <4>2. CASE i > Len(s)
        <5>1. PICK j \in Int : j = i - Len(s)
          BY <1>2
        <5>2. j \in 1 .. a /\ j \in 1 .. b /\ Len(s) + j = i
          BY <1>2, <1>12, <3>1, <4>2, <5>1
        <5>3. x[Len(s) + j] = text[j]
          BY <1>7, <5>2
        <5>4. y[Len(s) + j] = text[j]
          BY <1>8, <2>2, <5>2
        <5> QED
          BY <5>2, <5>3, <5>4
      <4> QED
        BY <1>2, <1>12, <4>1, <4>2
    <3>3. CASE a = b
      <4>1. Len(x) = Len(y)
        BY <1>7, <1>8, <2>2, <3>3
      <4>2. x = y
        BY <1>7, <1>8, <3>2, <4>1, SameTexts
      <4> QED
        BY <4>2
    <3>4. CASE a # b
      <4>1. Len(x) = last /\ last <= Len(y) /\ Len(s) + a = last
        BY <1>1, <1>2, <1>12, <1>3, <1>4, <1>7, <1>8, <2>2, <3>1, <3>4
      <4> QED
        BY <3>2, <4>1
    <3> QED
      BY <3>3, <3>4
  <2> QED
    BY <2>1, <2>2
<1>13. base \in Texts /\ Len(base) <= Len(y) /\ \A i \in 1 .. Len(base) : y[i] = base[i]
  <2>1. /\ base \in Texts /\ Len(base) <= Len(t) /\ Len(base) \in Nat
        /\ \A i \in 1 .. Len(base) : t[i] = base[i]
    BY DEF Cut, Texts
  <2>2. \A i \in 1 .. Len(base) : i \in 1 .. Len(t)
    BY <1>2, <2>1
  <2>3. Len(y) = Len(t) + b /\ \A i \in 1 .. Len(t) : y[i] = t[i]
    BY <1>8
  <2> QED
    BY <1>2, <1>12, <2>1, <2>2, <2>3
<1> QED
  BY <1>1, <1>5, <1>6, <1>7, <1>8, <1>9, <1>10, <1>13 DEF Cut

\* One more character where there is room for it.
LEMMA AppendCut ==
  ASSUME NEW buf \in Texts, NEW last \in Nat, NEW most \in Nat, Len(buf) < last, last <= most,
         NEW c \in Octets
  PROVE  Cut(buf, Append(buf, c), last, Append(buf, c), most)
<1>1. Append(buf, c) \in Texts /\ Len(Append(buf, c)) = Len(buf) + 1 /\ Len(buf) \in Nat
  BY DEF Texts
<1>2. Len(Append(buf, c)) <= last
  BY <1>1
<1>3. \A i \in 1 .. Len(buf) : Append(buf, c)[i] = buf[i]
  BY DEF Texts
<1> QED
  BY <1>1, <1>2, <1>3 DEF Cut

LEMMA PaddingIn ==
  ASSUME NEW zero \in Octets, NEW width \in Nat, NEW text \in Texts
  PROVE  Padding(zero, width, text) \in Texts
<1>1. Len(text) \in Nat
  BY DEF Texts
<1>2. PICK m \in Nat : m = Max({0, width - Len(text)})
  <2>1. 0 \in Int /\ width - Len(text) \in Int
    BY <1>1
  <2>2. Max({0, width - Len(text)}) = IF 0 >= width - Len(text) THEN 0 ELSE width - Len(text)
    BY <2>1, OfTwo
  <2> QED
    BY <1>1, <2>2
<1>3. [i \in 1 .. m |-> zero] \in Seq(Octets)
  OBVIOUS
<1> QED
  BY <1>2, <1>3 DEF Padding, Texts

\* rap_sprintf_num
LEMMA SprintfNumCut ==
  ASSUME NEW s, NEW t, NEW last, NEW most, NEW base, Cut(base, s, last, t, most), NEW n \in Number64,
         NEW zero \in Octets, NEW hex, NEW width \in Nat
  PROVE  Cut(base, SprintfNum(s, last, n, zero, hex, width), last,
             SprintfNum(t, most, n, zero, hex, width), most)
<1>1. PICK text \in Texts : text = Digits(n, hex)
  BY DigitsFacts DEF Texts
<1>2. PICK pad \in Texts : pad = Padding(zero, width, text)
  BY PaddingIn
<1>3. Cut(base, Put(s, last, pad), last, Put(t, most, pad), most)
  BY PutCut
<1>4. Cut(base, Put(Put(s, last, pad), last, text), last, Put(Put(t, most, pad), most, text), most)
  BY <1>3, PutCut
<1> QED
  BY <1>1, <1>2, <1>4 DEF SprintfNum

-----------------------------------------------------------------------------
(***************************************************************************)
(* One item of a format, and then all of them.                             *)
(***************************************************************************)
\* A place in a buffer that is not full: s and t are the same there.
Open(buf, last, most) ==
  buf \in Texts /\ last \in Nat /\ most \in Nat /\ Len(buf) < last /\ last <= most

LEMMA OpenCut ==
  ASSUME NEW buf, NEW last, NEW most, Open(buf, last, most)
  PROVE  /\ Cut(buf, buf, last, buf, most)
         /\ \A c \in Octets : Cut(buf, Append(buf, c), last, Append(buf, c), most)
<1>1. /\ buf \in Texts /\ last \in Nat /\ most \in Nat
      /\ Len(buf) < last /\ last <= most /\ Len(buf) <= last
  BY DEF Open, Texts
<1> QED
  BY <1>1, CutWhole, AppendCut

LEMMA IntegerCut ==
  ASSUME NEW buf, NEW last, NEW most, Open(buf, last, most),
         NEW d, d.arg \in Number64, d.width \in Nat
  PROVE  Cut(buf, PrintedInteger(buf, last, d), last, PrintedInteger(buf, most, d), most)
<1> DEFINE minus == Signed(d) /\ Negative64(Integer64(d))
<1>1. PICK start : start = IF minus THEN Append(buf, 45) ELSE buf
  OBVIOUS
<1>2. PICK n \in Number64 : n = IF minus THEN Negated(Integer64(d)) ELSE Integer64(d)
  <2> HIDE DEF minus
  <2>1. Integer64(d) \in Number64 /\ Negated(Integer64(d)) \in Number64
    BY Integer64In
  <2> QED
    BY <2>1
<1>3. PICK zero \in Octets : zero = IF d.zero \/ d.conv = "p" THEN 48 ELSE 32
  BY DEF Octets
<1>4. PICK width \in Nat : width = IF d.conv = "p" THEN PointerDigits ELSE d.width
  <2>1. CASE d.conv = "p"
    BY <2>1, NumbersAssumption
  <2>2. CASE d.conv # "p"
    BY <2>2
  <2> QED
    BY <2>1, <2>2
<1>5. Cut(buf, start, last, start, most)
  <2> HIDE DEF minus
  <2>1. 45 \in Octets
    BY DEF Octets
  <2> QED
    BY <1>1, <2>1, OpenCut
<1>6. /\ PrintedInteger(buf, last, d) = SprintfNum(start, last, n, zero, Hex(d), width)
      /\ PrintedInteger(buf, most, d) = SprintfNum(start, most, n, zero, Hex(d), width)
  BY <1>1, <1>2, <1>3, <1>4 DEF PrintedInteger
<1>7. PICK hex : hex = Hex(d)
  OBVIOUS
<1>8. Cut(buf, SprintfNum(start, last, n, zero, hex, width), last,
          SprintfNum(start, most, n, zero, hex, width), most)
  BY <1>5, SprintfNumCut
<1> QED
  BY <1>6, <1>7, <1>8

\* A power of ten, as the 32 bits hold it.
LEMMA ScaleIn == ASSUME NEW digits \in Nat PROVE Scale(digits) \in Number64
<1> DEFINE step(n, y) == Low32(TimesPlus(y, 10, 0))
<1> DEFINE next == [n \in 1 .. digits |-> [y \in Number64 |-> Low32(TimesPlus(y, 10, 0))]]
<1> DEFINE Body(f) == f = [n \in 0 .. digits |-> IF n = 0 THEN <<0, 0, 0, 1>>
                                                  ELSE Low32(TimesPlus(f[n - 1], 10, 0))]
<1>1. \A y \in Number64 : Low32(TimesPlus(y, 10, 0)) \in Number64
  BY TimesPlusIn, LimbsMade
<1>2. PICK one \in Number64 : one = <<0, 0, 0, 1>>
  <2>1. PICK n \in Number64 : TRUE
    BY LimbFacts, Limbed
  <2> QED
    BY <2>1, LimbsMade
<1>3. Closed(Number64, next, digits)
  BY <1>1 DEF Closed
<1>4. \A n \in 1 .. digits : \A y \in Number64 : next[n][y] = Low32(TimesPlus(y, 10, 0))
  OBVIOUS
<1> HIDE DEF next
<1>5. PICK f : /\ f \in [0 .. digits -> Number64] /\ f[0] = one
               /\ \A n \in 1 .. digits : f[n - 1] \in Number64 /\ f[n] = next[n][f[n - 1]]
               /\ f = [n \in 0 .. digits |-> f[n]]
  BY <1>3, StepsExist
<1>6. Body(f)
  <2>1. ASSUME NEW n \in 0 .. digits
        PROVE  f[n] = IF n = 0 THEN <<0, 0, 0, 1>> ELSE Low32(TimesPlus(f[n - 1], 10, 0))
    <3>1. CASE n = 0
      BY <1>2, <1>5, <3>1
    <3>2. CASE n # 0
      <4>1. n \in 1 .. digits
        BY <3>2
      <4> QED
        BY <1>4, <1>5, <3>2, <4>1
    <3> QED
      BY <3>1, <3>2
  <2>2. f = [n \in 0 .. digits |-> IF n = 0 THEN <<0, 0, 0, 1>> ELSE Low32(TimesPlus(f[n - 1], 10, 0))]
    BY <1>5, <2>1
  <2> QED
    BY <2>2
<1> DEFINE g == CHOOSE h : Body(h)
<1>7. Body(g) /\ Scale(digits) = g[digits]
  BY <1>6 DEF Scale
<1> HIDE DEF g
<1>8. /\ g[0] = one
      /\ \A n \in 1 .. digits : g[n] = Low32(TimesPlus(g[n - 1], 10, 0))
  <2>1. \A n \in 0 .. digits : g[n] = IF n = 0 THEN <<0, 0, 0, 1>> ELSE Low32(TimesPlus(g[n - 1], 10, 0))
    BY <1>7
  <2>2. 0 \in 0 .. digits /\ \A n \in 1 .. digits : n \in 0 .. digits /\ n # 0
    OBVIOUS
  <2> QED
    BY <1>2, <2>1, <2>2
<1> HIDE DEF Body
<1> DEFINE P == {n \in 0 .. digits : g[n] \in Number64}
<1>9. 0 \in P /\ \A n \in 0 + 1 .. digits : n - 1 \in P => n \in P
  BY <1>1, <1>2, <1>8
<1> HIDE DEF P
<1>10. \A n \in 0 .. digits : n \in P
  BY <1>9, GoesOn
<1>11. g[digits] \in Number64
  BY <1>10 DEF P
<1> QED
  BY <1>7, <1>11

\* Of a number and a divisor, the fraction of a scale.
LEMMA ScaledIn ==
  ASSUME NEW f, f.num \in Nat, f.den \in Nat \ {0}, NEW scale \in Number64
  PROVE  Scaled(f, scale) \in Number64
<1>1. PICK num \in Nat, den \in Nat \ {0}, half \in Nat :
        num = f.num /\ den = f.den /\ half = f.den \div 2
  <2>1. f.den \div 2 \in Nat
    OBVIOUS
  <2> QED
    BY <2>1
<1>2. TimesPlus(scale, num, half) \in Number64
  BY TimesPlusIn
<1>3. DivMod(TimesPlus(scale, num, half), den).quotient \in Number64
  BY <1>2, DivModFacts
<1> QED
  BY <1>1, <1>3 DEF Scaled, Quotient

LEMMA FractionCut ==
  ASSUME NEW buf, NEW last, NEW most, Open(buf, last, most),
         NEW d, d.arg.whole \in Number64, d.arg.num \in Nat, d.arg.den \in Nat \ {0},
         d.width \in Nat, d.frac \in Nat
  PROVE  Cut(buf, PrintedFraction(buf, last, d), last, PrintedFraction(buf, most, d), most)
<1>1. PICK f : f = d.arg
  OBVIOUS
<1>2. PICK start : start = IF f.neg THEN Append(buf, 45) ELSE buf
  OBVIOUS
<1>3. PICK zero \in Octets : zero = IF d.zero THEN 48 ELSE 32
  BY DEF Octets
<1>4. PICK scale \in Number64 : scale = Scale(d.frac)
  BY ScaleIn
<1>5. PICK scaled \in Number64 : scaled = Scaled(f, scale)
  BY <1>1, ScaledIn
<1> DEFINE carry == d.frac > 0 /\ scaled = scale
<1>6. PICK frac \in Number64 : frac = IF carry THEN Zero64 ELSE scaled
  <2>1. Zero64 \in Number64
    BY LimbsMade
  <2> HIDE DEF carry
  <2> QED
    BY <2>1
<1>7. PICK one \in Nat : one = IF carry THEN 1 ELSE 0
  OBVIOUS
<1>8. PICK n \in Number64 : n = TimesPlus(f.whole, 1, one)
  BY <1>1, TimesPlusIn
<1>9. Cut(buf, start, last, start, most)
  <2>1. 45 \in Octets
    BY DEF Octets
  <2> QED
    BY <1>2, <2>1, OpenCut
<1> DEFINE whole(end) == SprintfNum(start, end, n, zero, 0, d.width)
<1> DEFINE dotted(end) == SprintfNum(Put(whole(end), end, <<46>>), end, frac, 48, 0, d.frac)
<1>10. \A end : PrintedFraction(buf, end, d) = IF d.frac = 0 THEN whole(end) ELSE dotted(end)
  BY <1>1, <1>2, <1>3, <1>4, <1>5, <1>6, <1>7, <1>8 DEF PrintedFraction
<1>11. Cut(buf, whole(last), last, whole(most), most)
  BY <1>9, SprintfNumCut
<1>12. <<46>> \in Texts /\ 48 \in Octets
  BY DEF Octets, Texts
<1> HIDE DEF whole
<1>13. Cut(buf, Put(whole(last), last, <<46>>), last, Put(whole(most), most, <<46>>), most)
  BY <1>11, <1>12, PutCut
<1>14. Cut(buf, dotted(last), last, dotted(most), most)
  BY <1>12, <1>13, SprintfNumCut
<1> HIDE DEF dotted
<1> QED
  BY <1>10, <1>11, <1>14

LEMMA UpToNulIn ==
  ASSUME NEW s \in Texts
  PROVE  UpToNul(s) \in Texts
<1>1. CASE 0 \in ToSet(s)
  <2> DEFINE I == {i \in 1 .. Len(s) : s[i] = 0}
  <2>1. I # {} /\ I \subseteq Nat /\ Len(s) \in Nat
    BY <1>1 DEF ToSet, Texts
  <2>2. Min(I) \in I
    <3> HIDE DEF I
    <3> QED
      BY <2>1, MinFacts
  <2>3. PICK m \in 1 .. Len(s) : m = Min(I)
    BY <2>2
  <2>4. UpToNul(s) = SubSeq(s, 1, m - 1)
    BY <1>1, <2>1, <2>3 DEF UpToNul, SelectInSeq
  <2> HIDE DEF I
  <2>5. SubSeq(s, 1, m - 1) \in Seq(Octets)
    BY <2>1 DEF Texts
  <2> QED
    BY <2>4, <2>5 DEF Texts
<1>2. CASE 0 \notin ToSet(s)
  BY <1>2 DEF UpToNul
<1> QED
  BY <1>1, <1>2

\* One item, into what is there and not full.
LEMMA ItemCut ==
  ASSUME NEW buf, NEW last, NEW most, Open(buf, last, most), NEW d, Given(d)
  PROVE  Cut(buf, PrintedItem(buf, last, d), last, PrintedItem(buf, most, d), most)
<1>1. CASE d.conv \in {"T", "M", "d", "l", "D", "L", "p"}
  <2>1. /\ PrintedItem(buf, last, d) = PrintedInteger(buf, last, d)
        /\ PrintedItem(buf, most, d) = PrintedInteger(buf, most, d)
    BY <1>1 DEF PrintedItem
  <2>2. d.arg \in Number64 /\ d.width \in Nat
    BY <1>1 DEF Given
  <2> QED
    BY <2>1, <2>2, IntegerCut
<1>2. CASE d.conv = "f"
  <2>1. /\ PrintedItem(buf, last, d) = PrintedFraction(buf, last, d)
        /\ PrintedItem(buf, most, d) = PrintedFraction(buf, most, d)
    BY <1>2 DEF PrintedItem
  <2>2. /\ d.arg.whole \in Number64 /\ d.arg.num \in Nat /\ d.arg.den \in Nat \ {0}
        /\ d.width \in Nat /\ d.frac \in Nat
    BY <1>2 DEF Given
  <2> QED
    BY <2>1, <2>2, FractionCut
<1>3. CASE d.conv \in {"V", "v", "s"}
  <2>1. d.arg \in Texts
    BY <1>3 DEF Given, Texts, Octets
  <2>2. PICK text \in Texts :
          text = IF d.conv # "s" THEN d.arg
                 ELSE IF "*" \in d.flags THEN SubSeq(d.arg, 1, d.len) ELSE UpToNul(d.arg)
    <3>1. CASE d.conv # "s"
      BY <2>1, <3>1
    <3>2. CASE d.conv = "s" /\ "*" \in d.flags
      <4>1. PICK len \in 0 .. Len(d.arg) : len = d.len
        BY <3>2 DEF Given
      <4>2. SubSeq(d.arg, 1, len) \in Texts
        BY <2>1, <4>1 DEF Texts
      <4> QED
        BY <3>2, <4>1, <4>2
    <3>3. CASE d.conv = "s" /\ "*" \notin d.flags
      BY <2>1, <3>3, UpToNulIn
    <3> QED
      BY <3>1, <3>2, <3>3
  <2>3. /\ PrintedItem(buf, last, d) = Put(buf, last, text)
        /\ PrintedItem(buf, most, d) = Put(buf, most, text)
    <3>1. CASE d.conv = "s"
      BY <2>2, <3>1 DEF PrintedItem
    <3>2. CASE d.conv # "s"
      BY <1>3, <2>2, <3>2 DEF PrintedItem
    <3> QED
      BY <3>1, <3>2
  <2>4. Cut(buf, buf, last, buf, most)
    BY OpenCut
  <2> QED
    BY <2>3, <2>4, PutCut
<1>4. CASE d.conv \notin {"T", "M", "d", "l", "D", "L", "p", "f", "V", "v", "s"}
  <2>1. PICK c : c = IF d.conv = "c" THEN d.arg % 256 ELSE IF d.conv = "Z" THEN 0 ELSE d.char
    OBVIOUS
  <2>2. c \in Octets
    <3>1. CASE d.conv = "c"
      <4>1. PICK a \in Int : a = d.arg
        BY <3>1 DEF Given
      <4>2. a % 256 \in 0 .. 255
        OBVIOUS
      <4> QED
        BY <2>1, <3>1, <4>1, <4>2 DEF Octets
    <3>2. CASE d.conv = "Z"
      BY <2>1, <3>2 DEF Octets
    <3>3. CASE d.conv \notin {"c", "Z"}
      BY <2>1, <3>3 DEF Octets, Given
    <3> QED
      BY <3>1, <3>2, <3>3
  <2>3. PrintedItem(buf, last, d) = Append(buf, c) /\ PrintedItem(buf, most, d) = Append(buf, c)
    <3>1. CASE d.conv = "c"
      BY <2>1, <3>1 DEF PrintedItem
    <3>2. CASE d.conv = "Z"
      BY <2>1, <3>2 DEF PrintedItem
    <3>3. CASE d.conv \notin {"c", "Z"}
      BY <1>4, <2>1, <3>3 DEF PrintedItem
    <3> QED
      BY <3>1, <3>2, <3>3
  <2> QED
    BY <2>2, <2>3, OpenCut
<1> QED
  BY <1>1, <1>2, <1>3, <1>4

\* What the recursive definition of Vslprintf asks of its function.
PrintRuns(last, fmt, f) ==
  f = [n \in 0 .. Len(fmt) |->
        IF n = 0 THEN << >>
        ELSE IF Len(f[n - 1]) >= last THEN f[n - 1]
        ELSE PrintedItem(f[n - 1], last, fmt[n])]

\* The items of a format, one after the other.
LEMMA PrintSteps ==
  ASSUME NEW last \in Nat, NEW fmt, fmt \in Seq(ToSet(fmt)), \A d \in ToSet(fmt) : Given(d)
  PROVE  \E g : /\ Vslprintf(<< >>, last, fmt) = g[Len(fmt)] /\ g[0] = << >>
                /\ \A n \in 1 .. Len(fmt) :
                     g[n] = IF Len(g[n - 1]) >= last THEN g[n - 1]
                            ELSE PrintedItem(g[n - 1], last, fmt[n])
<1> DEFINE step(n, y) == IF Len(y) >= last THEN y ELSE PrintedItem(y, last, fmt[n])
<1> DEFINE next == [n \in 1 .. Len(fmt) |-> [y \in Texts |-> step(n, y)]]
<1>1. PICK N \in Nat : N = Len(fmt)
  OBVIOUS
<1>2. ASSUME NEW n \in 1 .. N, NEW y \in Texts PROVE step(n, y) \in Texts
  <2>1. CASE Len(y) >= last
    BY <2>1
  <2>2. CASE ~ (Len(y) >= last)
    <3>1. PICK d : d = fmt[n] /\ Given(d)
      <4>1. fmt[n] \in ToSet(fmt)
        BY <1>1
      <4> QED
        BY <4>1
    <3>2. Open(y, last, last)
      <4>1. Len(y) \in Nat
        BY DEF Texts
      <4> QED
        BY <2>2, <4>1 DEF Open
    <3>3. PrintedItem(y, last, d) \in Texts
      BY <3>1, <3>2, ItemCut DEF Cut
    <3> QED
      BY <2>2, <3>1, <3>3
  <2> QED
    BY <2>1, <2>2
<1>3. \A n \in 1 .. N : \A y \in Texts : next[n][y] = step(n, y)
  BY <1>1
<1> HIDE DEF next, step
<1>4. Closed(Texts, next, N)
  BY <1>2, <1>3 DEF Closed
<1>5. << >> \in Texts
  BY DEF Texts
<1>6. PICK f : /\ f \in [0 .. N -> Texts] /\ f[0] = << >>
               /\ \A n \in 1 .. N : f[n - 1] \in Texts /\ f[n] = next[n][f[n - 1]]
               /\ f = [n \in 0 .. N |-> f[n]]
  BY <1>4, <1>5, StepsExist
<1>7. PrintRuns(last, fmt, f)
  <2>1. ASSUME NEW n \in 0 .. N PROVE f[n] = IF n = 0 THEN << >> ELSE step(n, f[n - 1])
    <3>1. n = 0 \/ (n # 0 /\ n \in 1 .. N)
      OBVIOUS
    <3> QED
      BY <1>3, <1>6, <3>1
  <2>2. f = [n \in 0 .. N |-> IF n = 0 THEN << >> ELSE step(n, f[n - 1])]
    BY <1>6, <2>1
  <2> QED
    BY <1>1, <2>2 DEF PrintRuns, step
<1> DEFINE g == CHOOSE h : PrintRuns(last, fmt, h)
<1>8. PrintRuns(last, fmt, g) /\ Vslprintf(<< >>, last, fmt) = g[Len(fmt)]
  BY <1>7 DEF Vslprintf, PrintRuns
<1> HIDE DEF g
<1>9. g[0] = << >> /\ \A n \in 1 .. N : g[n] = step(n, g[n - 1])
  <2>1. \A n \in 0 .. N : g[n] = IF n = 0 THEN << >> ELSE step(n, g[n - 1])
    BY <1>1, <1>8 DEF PrintRuns, step
  <2>2. 0 \in 0 .. N /\ \A n \in 1 .. N : n \in 0 .. N /\ n # 0
    OBVIOUS
  <2> QED
    BY <2>1, <2>2
<1> QED
  BY <1>1, <1>8, <1>9 DEF step

\* A format printed into less room is cut there.
LEMMA PrintCut ==
  ASSUME NEW last \in Nat, NEW most \in Nat, last <= most,
         NEW fmt, fmt \in Seq(ToSet(fmt)), \A d \in ToSet(fmt) : Given(d)
  PROVE  Cut(<< >>, Vslprintf(<< >>, last, fmt), last, Vslprintf(<< >>, most, fmt), most)
<1>1. PICK g : /\ Vslprintf(<< >>, last, fmt) = g[Len(fmt)] /\ g[0] = << >>
               /\ \A n \in 1 .. Len(fmt) :
                     g[n] = IF Len(g[n - 1]) >= last THEN g[n - 1]
                            ELSE PrintedItem(g[n - 1], last, fmt[n])
  BY PrintSteps
<1>2. PICK h : /\ Vslprintf(<< >>, most, fmt) = h[Len(fmt)] /\ h[0] = << >>
               /\ \A n \in 1 .. Len(fmt) :
                     h[n] = IF Len(h[n - 1]) >= most THEN h[n - 1]
                            ELSE PrintedItem(h[n - 1], most, fmt[n])
  BY PrintSteps
<1>3. PICK N \in Nat : N = Len(fmt)
  OBVIOUS
<1> DEFINE P == {n \in 0 .. N : Cut(<< >>, g[n], last, h[n], most)}
<1>4. 0 \in P
  <2>1. << >> \in Texts /\ Len(<< >>) = 0
    BY DEF Texts
  <2>2. Cut(<< >>, << >>, last, << >>, most)
    BY <2>1, CutWhole
  <2> QED
    BY <1>1, <1>2, <2>2
<1>5. ASSUME NEW n \in 0 + 1 .. N, n - 1 \in P PROVE n \in P
  <2>1. PICK s, t : s = g[n - 1] /\ t = h[n - 1]
    OBVIOUS
  <2>2. Cut(<< >>, s, last, t, most)
    BY <1>5, <2>1
  <2>3. PICK d : d = fmt[n] /\ Given(d)
    <3>1. fmt[n] \in ToSet(fmt)
      BY <1>3
    <3> QED
      BY <3>1
  <2>4. /\ g[n] = IF Len(s) >= last THEN s ELSE PrintedItem(s, last, d)
        /\ h[n] = IF Len(t) >= most THEN t ELSE PrintedItem(t, most, d)
    BY <1>1, <1>2, <1>3, <2>1, <2>3
  <2>9. << >> \in Texts /\ Len(<< >>) = 0
    BY DEF Texts
  <2>5. /\ s \in Texts /\ t \in Texts /\ Len(s) \in Nat /\ Len(t) \in Nat
        /\ Len(s) <= last /\ Len(t) <= most
        /\ s # t => Len(s) = last /\ last <= Len(t) /\ \A i \in 1 .. last : s[i] = t[i]
    BY <2>2 DEF Cut, Texts
  <2>6. CASE Len(t) >= most
    <3>1. Len(s) >= last
      BY <2>5, <2>6
    <3> QED
      BY <2>2, <2>4, <2>6, <3>1
  <2>7. CASE Len(t) < most /\ Len(s) < last
    <3>1. s = t /\ Open(s, last, most)
      BY <2>5, <2>7 DEF Open
    <3>2. g[n] = PrintedItem(s, last, d) /\ h[n] = PrintedItem(s, most, d)
      BY <2>4, <2>5, <2>7, <3>1
    <3>3. PICK x, z : x = PrintedItem(s, last, d) /\ z = PrintedItem(s, most, d)
      OBVIOUS
    <3>4. Cut(s, x, last, z, most)
      BY <2>3, <3>1, <3>3, ItemCut
    <3>5. Cut(<< >>, x, last, z, most)
      <4>1. Len(z) \in Nat
        BY <3>4 DEF Cut, Texts
      <4> QED
        BY <2>9, <3>4, <4>1 DEF Cut
    <3> QED
      BY <3>2, <3>3, <3>5
  <2>8. CASE Len(t) < most /\ Len(s) >= last
    <3>1. g[n] = s /\ h[n] = PrintedItem(t, most, d)
      BY <2>4, <2>5, <2>8
    <3>2. Open(t, most, most)
      BY <2>5, <2>8 DEF Open
    <3>3. PICK z : z = PrintedItem(t, most, d)
      OBVIOUS
    <3>4. Cut(t, z, most, z, most)
      BY <2>3, <3>2, <3>3, ItemCut
    <3>5. /\ z \in Texts /\ Len(z) \in Nat /\ Len(t) <= Len(z) /\ Len(z) <= most
          /\ \A i \in 1 .. Len(t) : z[i] = t[i]
      BY <3>4 DEF Cut, Texts
    <3>6. Len(s) = last /\ last <= Len(t) /\ \A i \in 1 .. last : s[i] = t[i]
      BY <2>5, <2>8
    <3>7. \A i \in 1 .. last : s[i] = z[i]
      <4> TAKE i \in 1 .. last
      <4>1. i \in 1 .. Len(t)
        BY <2>5, <3>6
      <4> QED
        BY <3>5, <3>6, <4>1
    <3>8. last <= Len(z)
      BY <2>5, <3>5, <3>6
    <3>9. Cut(<< >>, s, last, z, most)
      BY <2>5, <2>9, <3>5, <3>6, <3>7, <3>8 DEF Cut
    <3> QED
      BY <3>1, <3>3, <3>9
  <2> QED
    BY <2>5, <2>6, <2>7, <2>8
<1>6. N \in P
  <2> HIDE DEF P
  <2>1. \A n \in 0 .. N : n \in P
    BY <1>4, <1>5, GoesOn
  <2> QED
    BY <2>1
<1> QED
  BY <1>1, <1>2, <1>3, <1>6

\* A copied word ends with a NUL inside its room, and has no other.
LEMMA CopyFits ==
  ASSUME NEW src \in WordTexts, NEW n \in Nat, NEW z, z = Cpystrn(Strlow(src, Len(src)), n)
  PROVE  IF n = 0 THEN z = << >>
         ELSE Len(z) <= n /\ Last(z) = 0 /\ 0 \notin ToSet(Front(z))
<1>1. CASE n = 0
  BY <1>1 DEF Cpystrn
<1>2. CASE n # 0
  <2>1. PICK N \in Nat : N = Len(src)
    BY DEF WordTexts
  <2>2. \A i \in 1 .. N : src[i] \in Bytes /\ Lower(src[i]) \in Bytes
    <3>1. \A c \in Bytes : Lower(c) \in Bytes
      BY DEF Bytes, Lower
    <3>2. \A i \in 1 .. N : src[i] \in Bytes
      BY <2>1 DEF WordTexts
    <3> QED
      BY <3>1, <3>2
  <2>3. PICK low : low = Strlow(src, Len(src))
    OBVIOUS
  <2>4. low \in Seq(Bytes) /\ Len(low) = N
    <3>1. [i \in 1 .. N |-> Lower(src[i])] \in Seq(Bytes) /\ Len([i \in 1 .. N |-> Lower(src[i])]) = N
      BY <2>1, <2>2
    <3> QED
      BY <2>1, <2>3, <3>1 DEF Strlow
  <2> DEFINE nul == {i \in 1 .. n - 1 : CharAt(low, i) = 0}
  <2>5. \A i \in 1 .. n - 1 : CharAt(low, i) = 0 <=> i > N
    <3> TAKE i \in 1 .. n - 1
    <3>1. CASE i <= N
      <4>1. i \in DOMAIN low /\ low[i] \in Bytes
        BY <2>4, <3>1
      <4>2. PICK c \in Bytes : c = low[i] /\ c # 0
        BY <4>1 DEF Bytes
      <4>3. CharAt(low, i) # 0
        BY <4>1, <4>2 DEF CharAt
      <4> QED
        BY <3>1, <4>3
    <3>2. CASE i > N
      <4>1. i \notin DOMAIN low
        BY <2>4, <3>2
      <4> QED
        BY <3>2, <4>1 DEF CharAt
    <3> QED
      BY <3>1, <3>2
  <2>6. PICK k \in Nat : k = Strnlen(low, n - 1) /\ k <= n - 1 /\ k <= N
    <3>1. Strnlen(low, n - 1) = IF nul = {} THEN n - 1 ELSE Min(nul) - 1
      BY DEF Strnlen
    <3>2. CASE nul = {}
      <4>1. n - 1 <= N
        <5> SUFFICES ASSUME n - 1 > N PROVE FALSE
          OBVIOUS
        <5>1. n - 1 \in 1 .. n - 1
          BY <1>2
        <5> QED
          BY <2>5, <3>2, <5>1
      <4> QED
        BY <1>2, <3>1, <3>2, <4>1
    <3>3. CASE nul # {}
      <4> HIDE DEF nul
      <4>1. nul \subseteq Nat
        BY DEF nul
      <4>2. Min(nul) \in nul /\ \A j \in nul : Min(nul) <= j
        BY <3>3, <4>1, MinFacts
      <4>3. PICK m \in 1 .. n - 1 : m = Min(nul)
        BY <4>2 DEF nul
      <4>4. m - 1 <= N
        <5> SUFFICES ASSUME m - 1 > N PROVE FALSE
          OBVIOUS
        <5>1. m - 1 \in 1 .. n - 1 /\ m - 1 < m
          OBVIOUS
        <5>2. m - 1 \in nul
          BY <2>5, <5>1 DEF nul
        <5> QED
          BY <4>2, <4>3, <5>1, <5>2
      <4> QED
        BY <3>1, <3>3, <4>3, <4>4
    <3> QED
      BY <3>2, <3>3
  <2>7. PICK w \in Seq(Bytes) : w = SubSeq(low, 1, k) /\ Len(w) = k
    <3>1. k \in 0 .. Len(low) /\ low \in Seq(Bytes)
      BY <2>4, <2>6
    <3>2. PICK w : w = SubSeq(low, 1, k)
      OBVIOUS
    <3>3. w \in Seq(Bytes) /\ Len(w) = k
      BY <3>1, <3>2
    <3> QED
      BY <3>2, <3>3
  <2>8. z = Append(w, 0)
    BY <1>2, <2>3, <2>6, <2>7 DEF Cpystrn
  <2>9. Len(z) = k + 1 /\ z[k + 1] = 0 /\ SubSeq(z, 1, k) = w
    <3>1. w \in Seq(0 .. 255) /\ 0 \in 0 .. 255
      BY DEF Bytes
    <3>2. z \in Seq(0 .. 255) /\ Len(z) = k + 1 /\ z[k + 1] = 0 /\ \A i \in 1 .. k : z[i] = w[i]
      BY <2>7, <2>8, <3>1
    <3>3. SubSeq(z, 1, k) = [i \in 1 .. k |-> z[i]]
      BY <3>2
    <3>4. w = [i \in 1 .. k |-> w[i]]
      BY <2>7
    <3>5. SubSeq(z, 1, k) = w
      BY <3>2, <3>3, <3>4
    <3> QED
      BY <3>2, <3>5
  <2>10. Last(z) = 0 /\ Front(z) = w
    BY <2>9 DEF Last, Front
  <2>11. 0 \notin ToSet(w)
    <3>1. \A i \in DOMAIN w : w[i] \in Bytes
      BY <2>7
    <3>2. \A c \in Bytes : c # 0
      BY DEF Bytes
    <3> QED
      BY <3>1, <3>2, Zenon DEF ToSet
  <2> QED
    BY <1>2, <2>6, <2>9, <2>10, <2>11
<1> QED
  BY <1>1, <1>2

(***************************************************************************)
(* NeverPastTheEnd: for any format whose arguments are of the types its    *)
(* directives name, and any room, what rap_vslprintf writes ends inside    *)
(* the room and begins what it would write into more of it; the digits of  *)
(* every number fit the 20 bytes rap_sprintf_num has for them; and what    *)
(* rap_cpystrn copies has its only NUL inside its room (rap_string.c:49,   *)
(* 159, 432).                                                              *)
(***************************************************************************)
THEOREM BuffersHold == Spec => []NeverPastTheEnd
<1>1. Init => NeverPastTheEnd
  BY DEF Init, Idle, NeverPastTheEnd
<1>2. NeverPastTheEnd /\ [Next]_vars => NeverPastTheEnd'
  <2> SUFFICES ASSUME NeverPastTheEnd, [Next]_vars PROVE NeverPastTheEnd'
    OBVIOUS
  <2>1. CASE PrintText
    <3>1. PICK fmt \in Formats, last \in Rooms :
            Calls([fn |-> "print", fmt |-> fmt, last |-> last], Vslprintf(<< >>, last, fmt))
      BY <2>1 DEF PrintText
    <3>2. /\ call'.fn = "print" /\ call'.fmt = fmt /\ call'.last = last
          /\ result' = Vslprintf(<< >>, last, fmt)
      BY <3>1 DEF Calls
    <3>3. fmt \in Seq(ToSet(fmt)) /\ \A d \in ToSet(fmt) : Given(d)
      BY FormatsAssumption
    <3>4. last \in Nat /\ Enough \in Nat /\ last <= Enough
      BY InputsAssumption
    <3>5. PICK s, t : s = Vslprintf(<< >>, last, fmt) /\ t = Vslprintf(<< >>, Enough, fmt)
      OBVIOUS
    <3>6. Cut(<< >>, s, last, t, Enough)
      BY <3>3, <3>4, <3>5, PrintCut
    <3>7. Len(s) <= last /\ IsPrefix(s, t)
      <4>1. /\ s \in Texts /\ t \in Texts /\ Len(s) <= last /\ Len(s) \in Nat /\ Len(t) \in Nat
            /\ s # t => Len(s) = last /\ last <= Len(t) /\ \A i \in 1 .. last : s[i] = t[i]
        BY <3>6 DEF Cut, Texts
      <4>2. Len(s) <= Len(t) /\ \A i \in 1 .. Len(s) : s[i] = t[i]
        BY <4>1
      <4>3. SubSeq(s, 1, Len(s)) = [i \in 1 .. Len(s) |-> s[i]]
        BY <4>1 DEF Texts
      <4>4. SubSeq(t, 1, Len(s)) = [i \in 1 .. Len(s) |-> t[i]]
        BY <4>1, <4>2 DEF Texts
      <4> QED
        BY <4>1, <4>2, <4>3, <4>4 DEF IsPrefix
    <3>8. ASSUME NEW i \in DOMAIN fmt, fmt[i].conv \in {"d", "l", "D", "L", "T", "M"}
          PROVE  Len(Digits(fmt[i].arg, Hex(fmt[i]))) <= 20
      <4>1. PICK d : d = fmt[i] /\ Given(d)
        <5>1. fmt[i] \in ToSet(fmt)
          BY DEF ToSet
        <5> QED
          BY <3>3, <5>1
      <4>2. d.arg \in Number64
        BY <3>8, <4>1 DEF Given
      <4> QED
        BY <4>1, <4>2, DigitsFacts
    <3> QED
      BY <3>2, <3>5, <3>7, <3>8 DEF NeverPastTheEnd
  <2>2. CASE CopyWord
    <3>1. PICK src \in Words, n \in Rooms :
            Calls([fn |-> "copy", src |-> src, n |-> n], Cpystrn(Strlow(src, Len(src)), n))
      BY <2>2 DEF CopyWord
    <3>2. /\ call'.fn = "copy" /\ call'.n = n
          /\ result' = Cpystrn(Strlow(src, Len(src)), n)
      BY <3>1 DEF Calls
    <3>3. src \in WordTexts /\ n \in Nat
      BY InputsAssumption DEF WordTexts, Bytes
    <3>4. IF n = 0 THEN result' = << >>
          ELSE Len(result') <= n /\ Last(result') = 0 /\ 0 \notin ToSet(Front(result'))
      BY <3>2, <3>3, CopyFits
    <3> QED
      BY <3>2, <3>4 DEF NeverPastTheEnd
  <2>3. CASE Next /\ ~ PrintText /\ ~ CopyWord
    <3>1. call'.fn \notin {"print", "copy"}
      BY <2>3, CallsMade DEF Next
    <3> QED
      BY <3>1 DEF NeverPastTheEnd
  <2>4. CASE UNCHANGED vars
    BY <2>4 DEF vars, NeverPastTheEnd
  <2> QED
    BY <2>1, <2>2, <2>3, <2>4
<1> QED
  BY <1>1, <1>2, PTL DEF Spec

-----------------------------------------------------------------------------
(***************************************************************************)
(* Reading the digits of a number gives the number.                        *)
(***************************************************************************)
LEMMA JoinedDivided ==
  ASSUME NEW r \in Nat, NEW m \in Limbs
  PROVE  Joined(r, m) \div Limb = r /\ Joined(r, m) % Limb = m
<1>1. PICK L \in Nat \ {0} : L = Limb /\ m \in Nat /\ m < L
  BY LimbFacts
<1>2. PICK e \in Nat : e = r * L + m /\ e = Joined(r, m)
  BY <1>1 DEF Joined
<1>3. PICK q \in Nat, s \in 0 .. L - 1 : Divided(e, L, q, s)
  BY Division
<1>4. e = L * q + s
  BY <1>3 DEF Divided, Made
<1>5. q = r
  <2>1. L * q \in Nat /\ r * L \in Nat /\ L * q = q * L
    OBVIOUS
  <2>2. CASE q < r
    <3>1. q + 1 \in Nat /\ q + 1 <= r
      BY <2>2
    <3>2. (q + 1) * L <= r * L
      BY <3>1, Products
    <3>3. (q + 1) * L = q * L + L
      OBVIOUS
    <3> QED
      BY <1>1, <1>2, <1>4, <2>1, <3>2, <3>3
  <2>3. CASE r < q
    <3>1. r + 1 \in Nat /\ r + 1 <= q
      BY <2>3
    <3>2. (r + 1) * L <= q * L
      BY <3>1, Products
    <3>3. (r + 1) * L = r * L + L
      OBVIOUS
    <3> QED
      BY <1>1, <1>2, <1>4, <2>1, <3>2, <3>3
  <2> QED
    BY <2>2, <2>3
<1>6. s = m
  <2>1. L * q = q * L /\ L * q \in Nat
    OBVIOUS
  <2> QED
    BY <1>1, <1>2, <1>4, <1>5, <2>1
<1> QED
  BY <1>1, <1>2, <1>3, <1>5, <1>6 DEF Divided

\* A number times its divisor plus the remainder is the number again.
LEMMA TimesPlusBack ==
  ASSUME NEW n \in Number64, NEW k \in Nat \ {0}
  PROVE  TimesPlus(DivMod(n, k).quotient, k, DivMod(n, k).remainder) = n
<1>0. /\ 0 \in 0 .. k - 1 /\ Limb \in Nat /\ \A m \in Limbs : m \in Nat
      /\ n[1] \in Limbs /\ n[2] \in Limbs /\ n[3] \in Limbs /\ n[4] \in Limbs
  BY LimbsOf, LimbFacts
<1>1. PICK a \in Limbs, p \in 0 .. k - 1 : Divided(n[1], k, a, p)
  <2>1. n[1] = Joined(0, n[1])
    BY <1>0 DEF Joined
  <2> QED
    BY <1>0, <2>1, LimbDivided
<1>2. PICK e : e = Joined(p, n[2])
  OBVIOUS
<1>3. PICK b \in Limbs, q \in 0 .. k - 1 : Divided(e, k, b, q)
  BY <1>0, <1>2, LimbDivided
<1>4. PICK f : f = Joined(q, n[3])
  OBVIOUS
<1>5. PICK c \in Limbs, r \in 0 .. k - 1 : Divided(f, k, c, r)
  BY <1>0, <1>4, LimbDivided
<1>6. PICK g : g = Joined(r, n[4])
  OBVIOUS
<1>7. PICK d \in Limbs, s \in 0 .. k - 1 : Divided(g, k, d, s)
  BY <1>0, <1>6, LimbDivided
<1>8. DivMod(n, k) = [quotient |-> <<a, b, c, d>>, remainder |-> s]
  BY <1>1, <1>2, <1>3, <1>4, <1>5, <1>6, <1>7 DEF DivMod, Joined, Divided
<1>18. PICK z : z = <<a, b, c, d>>
  OBVIOUS
<1>9. z[1] = a /\ z[2] = b /\ z[3] = c /\ z[4] = d
  BY <1>18
<1>10. DivMod(n, k).quotient = z /\ DivMod(n, k).remainder = s
  BY <1>8, <1>18
<1>11. /\ a \in Nat /\ b \in Nat /\ c \in Nat /\ d \in Nat
       /\ p \in Nat /\ q \in Nat /\ r \in Nat /\ s \in Nat /\ n[1] \in Nat
  BY <1>0
<1>12. a * k = k * a /\ b * k = k * b /\ c * k = k * c /\ d * k = k * d
  BY <1>11
<1>13. /\ d * k + s = g /\ c * k + r = f /\ b * k + q = e /\ a * k + p = n[1]
  BY <1>1, <1>3, <1>5, <1>7, <1>12 DEF Divided, Made
<1>14. /\ g \div Limb = r /\ g % Limb = n[4] /\ f \div Limb = q /\ f % Limb = n[3]
       /\ e \div Limb = p /\ e % Limb = n[2]
  BY <1>0, <1>2, <1>4, <1>6, <1>11, JoinedDivided
<1>15. n[1] % Limb = n[1]
  <2>1. n[1] = Joined(0, n[1])
    BY <1>0 DEF Joined
  <2> QED
    BY <1>0, <2>1, JoinedDivided
<1>16. TimesPlus(z, k, s) = <<n[1], n[2], n[3], n[4]>>
  BY <1>9, <1>13, <1>14, <1>15 DEF TimesPlus
<1>17. n = <<n[1], n[2], n[3], n[4]>>
  BY DEF Number64
<1> QED
  BY <1>10, <1>16, <1>17

Base(hex) == IF hex = 0 THEN 10 ELSE 16

\* What a digit is printed as is read as the digit, and is none of the signs.
LEMMA DigitRead ==
  ASSUME NEW hex, NEW k \in Nat, k = (IF hex = 0 THEN 10 ELSE 16), NEW d \in 0 .. k - 1
  PROVE  HexDigit(DigitChar(d, hex)) = d /\ DigitChar(d, hex) \notin {32, 45, 46}
<1>1. CASE d < 10
  <2>1. DigitChar(d, hex) = 48 + d /\ 48 + d \in 48 .. 57
    BY <1>1 DEF DigitChar
  <2>2. HexDigit(48 + d) = d
    BY <2>1 DEF HexDigit, IsDigit
  <2> QED
    BY <2>1, <2>2
<1>2. CASE d >= 10 /\ hex = 1
  <2>1. DigitChar(d, hex) = 87 + d /\ 87 + d \in 97 .. 102 /\ 87 + d \notin 48 .. 57 /\ 87 + d \notin 65 .. 70
    BY <1>2 DEF DigitChar
  <2>2. HexDigit(87 + d) = (87 + d) - 97 + 10
    BY <2>1 DEF HexDigit, IsDigit
  <2> QED
    BY <2>1, <2>2
<1>3. CASE d >= 10 /\ hex # 1
  <2>1. DigitChar(d, hex) = 55 + d /\ 55 + d \in 65 .. 70 /\ 55 + d \notin 48 .. 57 /\ 55 + d \notin 97 .. 102
    BY <1>3 DEF DigitChar
  <2>2. HexDigit(55 + d) = (55 + d) - 65 + 10
    BY <2>1 DEF HexDigit, IsDigit
  <2> QED
    BY <2>1, <2>2
<1> QED
  BY <1>1, <1>2, <1>3

\* A negated number, limb by limb: the lowest that is not zero is complemented
\* to Limb, those above it to Limb - 1.
Complement(m) == Limb - 1 - m
FromLimb(m) == IF m = 0 THEN 0 ELSE Limb - m

LEMMA NegatedLimbs ==
  ASSUME NEW n \in Number64
  PROVE  /\ Negated(n)[4] = FromLimb(n[4])
         /\ Negated(n)[3] = IF n[4] = 0 THEN FromLimb(n[3]) ELSE Complement(n[3])
         /\ Negated(n)[2] = IF n[4] = 0 /\ n[3] = 0 THEN FromLimb(n[2]) ELSE Complement(n[2])
         /\ Negated(n)[1] = IF n[4] = 0 /\ n[3] = 0 /\ n[2] = 0 THEN FromLimb(n[1])
                            ELSE Complement(n[1])
<1>0. /\ n[1] \in Limbs /\ n[2] \in Limbs /\ n[3] \in Limbs /\ n[4] \in Limbs
      /\ \A m \in Limbs : m \in Nat /\ m < Limb
  BY LimbsOf, LimbFacts
<1>1. PICK L \in Nat : L = Limb /\ L >= 2
  BY LimbFacts
<1>2. PICK z : z = [i \in 1 .. 4 |-> Limb - 1 - n[i]]
  OBVIOUS
<1>3. z[1] = L - 1 - n[1] /\ z[2] = L - 1 - n[2] /\ z[3] = L - 1 - n[3] /\ z[4] = L - 1 - n[4]
  BY <1>1, <1>2
\* A limb, and what is carried into it.
<1> DEFINE Sum(m, c) == (L - 1 - m) * 1 + c
<1>4. ASSUME NEW m \in Limbs
      PROVE  /\ Sum(m, 0) = L - 1 - m /\ (L - 1 - m) \div L = 0 /\ (L - 1 - m) % L = L - 1 - m
             /\ Sum(m, 1) = L - m
             /\ m = 0 => (L - m) \div L = 1 /\ (L - m) % L = 0
             /\ m # 0 => (L - m) \div L = 0 /\ (L - m) % L = L - m
  <2>1. m \in Nat /\ m < L
    BY <1>0, <1>1
  <2>2. \A x \in Limbs : x \div L = 0 /\ x % L = x
    <3> TAKE x \in Limbs
    <3>1. Joined(0, x) = x
      BY <1>0, <1>1 DEF Joined
    <3> QED
      BY <1>1, <3>1, JoinedDivided
  <2>3. L \div L = 1 /\ L % L = 0
    <3>1. Joined(1, 0) = L /\ 0 \in Limbs
      BY <1>1, LimbFacts DEF Joined
    <3> QED
      BY <1>1, <3>1, JoinedDivided
  <2>4. L - 1 - m \in Limbs /\ (m # 0 => L - m \in Limbs)
    BY <1>1, <2>1 DEF Limbs
  <2>5. m = 0 => L - m = L
    BY <1>1
  <2> QED
    BY <1>1, <2>1, <2>2, <2>3, <2>4, <2>5
<1>5. PICK c1 \in {0, 1}, c2 \in {0, 1}, c3 \in {0, 1} :
        /\ c3 = (IF n[4] = 0 THEN 1 ELSE 0)
        /\ c2 = (IF n[4] = 0 /\ n[3] = 0 THEN 1 ELSE 0)
        /\ c1 = (IF n[4] = 0 /\ n[3] = 0 /\ n[2] = 0 THEN 1 ELSE 0)
  OBVIOUS
<1>6. Sum(n[4], 1) \div L = c3 /\ Sum(n[3], c3) \div L = c2 /\ Sum(n[2], c2) \div L = c1
  <2> HIDE DEF Sum
  <2> QED
    BY <1>0, <1>4, <1>5
<1>7. Negated(n) = <<Sum(n[1], c1) % L, Sum(n[2], c2) % L, Sum(n[3], c3) % L, Sum(n[4], 1) % L>>
  <2>1. Negated(n) = TimesPlus(z, 1, 1)
    BY <1>2 DEF Negated
  <2>2. /\ z[4] * 1 + 1 = Sum(n[4], 1) /\ z[3] * 1 + c3 = Sum(n[3], c3)
        /\ z[2] * 1 + c2 = Sum(n[2], c2) /\ z[1] * 1 + c1 = Sum(n[1], c1)
    BY <1>3
  <2> HIDE DEF Sum
  <2> QED
    BY <1>1, <1>6, <2>1, <2>2 DEF TimesPlus
<1>8. /\ Sum(n[4], 1) % L = (IF n[4] = 0 THEN 0 ELSE L - n[4])
      /\ Sum(n[3], c3) % L = (IF c3 = 1 THEN (IF n[3] = 0 THEN 0 ELSE L - n[3]) ELSE L - 1 - n[3])
      /\ Sum(n[2], c2) % L = (IF c2 = 1 THEN (IF n[2] = 0 THEN 0 ELSE L - n[2]) ELSE L - 1 - n[2])
      /\ Sum(n[1], c1) % L = (IF c1 = 1 THEN (IF n[1] = 0 THEN 0 ELSE L - n[1]) ELSE L - 1 - n[1])
  <2> HIDE DEF Sum
  <2>1. c1 = 0 \/ c1 = 1
    OBVIOUS
  <2>2. c2 = 0 \/ c2 = 1
    OBVIOUS
  <2>3. c3 = 0 \/ c3 = 1
    OBVIOUS
  <2> QED
    BY <1>0, <1>4, <2>1, <2>2, <2>3
<1> HIDE DEF Sum
<1>9. /\ Negated(n)[1] = Sum(n[1], c1) % L /\ Negated(n)[2] = Sum(n[2], c2) % L
      /\ Negated(n)[3] = Sum(n[3], c3) % L /\ Negated(n)[4] = Sum(n[4], 1) % L
  BY <1>7
<1> QED
  BY <1>1, <1>5, <1>8, <1>9 DEF Complement, FromLimb

LEMMA NegatedTwice ==
  ASSUME NEW n \in Number64
  PROVE  Negated(Negated(n)) = n
<1>1. PICK z \in Number64 : z = Negated(n)
  BY LimbsMade
<1>2. PICK y \in Number64 : y = Negated(z)
  BY LimbsMade
<1>3. PICK L \in Nat : L = Limb
  BY LimbFacts
<1>4. /\ n[1] \in 0 .. L - 1 /\ n[2] \in 0 .. L - 1 /\ n[3] \in 0 .. L - 1 /\ n[4] \in 0 .. L - 1
  BY <1>3, LimbsOf DEF Limbs
<1>5. /\ z[4] = (IF n[4] = 0 THEN 0 ELSE L - n[4])
      /\ z[3] = (IF n[4] = 0 THEN (IF n[3] = 0 THEN 0 ELSE L - n[3]) ELSE L - 1 - n[3])
      /\ z[2] = (IF n[4] = 0 /\ n[3] = 0 THEN (IF n[2] = 0 THEN 0 ELSE L - n[2]) ELSE L - 1 - n[2])
      /\ z[1] = (IF n[4] = 0 /\ n[3] = 0 /\ n[2] = 0 THEN (IF n[1] = 0 THEN 0 ELSE L - n[1])
                 ELSE L - 1 - n[1])
  BY <1>1, <1>3, NegatedLimbs DEF Complement, FromLimb
<1>6. /\ y[4] = (IF z[4] = 0 THEN 0 ELSE L - z[4])
      /\ y[3] = (IF z[4] = 0 THEN (IF z[3] = 0 THEN 0 ELSE L - z[3]) ELSE L - 1 - z[3])
      /\ y[2] = (IF z[4] = 0 /\ z[3] = 0 THEN (IF z[2] = 0 THEN 0 ELSE L - z[2]) ELSE L - 1 - z[2])
      /\ y[1] = (IF z[4] = 0 /\ z[3] = 0 /\ z[2] = 0 THEN (IF z[1] = 0 THEN 0 ELSE L - z[1])
                 ELSE L - 1 - z[1])
  BY <1>2, <1>3, NegatedLimbs DEF Complement, FromLimb
<1>7. y[4] = n[4] /\ (z[4] = 0 <=> n[4] = 0)
  BY <1>4, <1>5, <1>6
<1>8. y[3] = n[3] /\ (z[4] = 0 /\ z[3] = 0 <=> n[4] = 0 /\ n[3] = 0)
  BY <1>4, <1>5, <1>6, <1>7
<1>9. y[2] = n[2] /\ (z[4] = 0 /\ z[3] = 0 /\ z[2] = 0 <=> n[4] = 0 /\ n[3] = 0 /\ n[2] = 0)
  BY <1>4, <1>5, <1>6, <1>7, <1>8
<1>10. y[1] = n[1]
  BY <1>4, <1>5, <1>6, <1>9
<1>11. \A i \in 1 .. 4 : y[i] = n[i]
  BY <1>7, <1>8, <1>9, <1>10
<1>12. y = [i \in 1 .. 4 |-> y[i]] /\ n = [i \in 1 .. 4 |-> n[i]]
  BY DEF Number64
<1> QED
  BY <1>1, <1>2, <1>11, <1>12

\* A text that can be read: digits, padding, signs and dots.
Readable(text) == \A i \in 1 .. Len(text) : text[i] \in {32, 45, 46} \/ HexDigit(text[i]) \in 0 .. 15

ReadRuns(text, base, h) ==
  h = [n \in 0 .. Len(text) |->
        IF n = 0 THEN Zero64
        ELSE IF text[n] \in {32, 45, 46} THEN h[n - 1]
        ELSE TimesPlus(h[n - 1], base, HexDigit(text[n]))]

\* v[n] is what has been read up to n.
ReadBy(v, text, base) ==
  \A n \in 1 .. Len(text) : v[n] = IF text[n] \in {32, 45, 46} THEN v[n - 1]
                                   ELSE TimesPlus(v[n - 1], base, HexDigit(text[n]))

LEMMA ReadSteps ==
  ASSUME NEW text \in Texts, NEW base \in Nat, Readable(text)
  PROVE  \E v : /\ ReadNumber(text, base) = v[Len(text)] /\ v[0] = Zero64
                /\ ReadBy(v, text, base)
<1> DEFINE step(n, y) == IF text[n] \in {32, 45, 46} THEN y ELSE TimesPlus(y, base, HexDigit(text[n]))
<1> DEFINE next == [n \in 1 .. Len(text) |-> [y \in Number64 |-> step(n, y)]]
<1>1. PICK N \in Nat : N = Len(text)
  BY DEF Texts
<1>2. ASSUME NEW n \in 1 .. N, NEW y \in Number64 PROVE step(n, y) \in Number64
  <2>1. CASE text[n] \in {32, 45, 46}
    BY <2>1
  <2>2. CASE text[n] \notin {32, 45, 46}
    <3>1. PICK d \in Nat : d = HexDigit(text[n])
      BY <1>1, <2>2 DEF Readable
    <3>2. TimesPlus(y, base, d) \in Number64
      BY TimesPlusIn
    <3> QED
      BY <2>2, <3>1, <3>2
  <2> QED
    BY <2>1, <2>2
<1>3. \A n \in 1 .. N : \A y \in Number64 : next[n][y] = step(n, y)
  BY <1>1
<1> HIDE DEF next, step
<1>4. Closed(Number64, next, N)
  BY <1>2, <1>3 DEF Closed
<1>5. Zero64 \in Number64
  BY LimbFacts, Limbed DEF Zero64
<1>6. PICK f : /\ f \in [0 .. N -> Number64] /\ f[0] = Zero64
               /\ \A n \in 1 .. N : f[n - 1] \in Number64 /\ f[n] = next[n][f[n - 1]]
               /\ f = [n \in 0 .. N |-> f[n]]
  BY <1>4, <1>5, StepsExist
<1>7. ReadRuns(text, base, f)
  <2>1. ASSUME NEW n \in 0 .. N PROVE f[n] = IF n = 0 THEN Zero64 ELSE step(n, f[n - 1])
    <3>1. n = 0 \/ (n # 0 /\ n \in 1 .. N)
      OBVIOUS
    <3> QED
      BY <1>3, <1>6, <3>1
  <2>2. f = [n \in 0 .. N |-> IF n = 0 THEN Zero64 ELSE step(n, f[n - 1])]
    BY <1>6, <2>1
  <2> QED
    BY <1>1, <2>2 DEF ReadRuns, step
<1> DEFINE g == CHOOSE h : ReadRuns(text, base, h)
<1>8. ReadRuns(text, base, g) /\ ReadNumber(text, base) = g[Len(text)]
  BY <1>7 DEF ReadNumber, ReadRuns
<1> HIDE DEF g
<1>9. g[0] = Zero64 /\ \A n \in 1 .. N : g[n] = step(n, g[n - 1])
  <2>1. \A n \in 0 .. N : g[n] = IF n = 0 THEN Zero64 ELSE step(n, g[n - 1])
    BY <1>1, <1>8 DEF ReadRuns, step
  <2>2. 0 \in 0 .. N /\ \A n \in 1 .. N : n \in 0 .. N /\ n # 0
    OBVIOUS
  <2> QED
    BY <2>1, <2>2
<1> QED
  BY <1>1, <1>8, <1>9 DEF step, ReadBy

\* text holds s behind its place q.
Holds(text, q, s) ==
  q \in Nat /\ q + Len(s) <= Len(text) /\ \A i \in 1 .. Len(s) : text[q + i] = s[i]

LEMMA HoldsBefore ==
  ASSUME NEW text \in Texts, NEW q \in Nat, NEW h \in Seq(Octets), NEW b \in Octets,
         NEW w, w = Append(h, b), Holds(text, q, w)
  PROVE  /\ Holds(text, q, h)
         /\ q + Len(h) + 1 \in 1 .. Len(text) /\ text[q + Len(h) + 1] = b
         /\ q + Len(w) = q + Len(h) + 1
<1>1. PICK l \in Nat, M \in Nat : l = Len(h) /\ M = Len(text)
  BY DEF Texts
<1>3. Len(w) = l + 1 /\ w[l + 1] = b /\ \A i \in 1 .. l : w[i] = h[i]
  BY <1>1
<1>4. q + (l + 1) <= M /\ \A i \in 1 .. l + 1 : text[q + i] = w[i]
  BY <1>1, <1>3 DEF Holds
<1>5. l + 1 \in 1 .. l + 1 /\ \A i \in 1 .. l : i \in 1 .. l + 1
  OBVIOUS
<1>6. q + l <= M /\ \A i \in 1 .. l : text[q + i] = h[i]
  BY <1>3, <1>4, <1>5
<1>7. q + (l + 1) = q + l + 1 /\ text[q + (l + 1)] = b
  BY <1>3, <1>4, <1>5
<1>8. q + l + 1 \in 1 .. M
  BY <1>4
<1>9. q + Len(w) = q + l + 1
  BY <1>3, <1>7
<1> QED
  BY <1>1, <1>6, <1>7, <1>8, <1>9 DEF Holds

\* The characters of a number.
Numerals == {c \in Octets : HexDigit(c) \in 0 .. 15 /\ c \notin {32, 45, 46}}

\* Wherever the digits of a number stand behind what reads as zero, they read as it.
NumbersRead(v, text, hex) ==
  \A n \in Number64 : \A q \in Nat :
    v[q] = Zero64 /\ Holds(text, q, Digits(n, hex)) => v[q + Len(Digits(n, hex))] = n

LEMMA DigitsRead ==
  ASSUME NEW hex, NEW base \in Nat, base = Base(hex),
         NEW text \in Texts, NEW v, ReadBy(v, text, base)
  PROVE  NumbersRead(v, text, hex)
<1> DEFINE f == CHOOSE h : DigitsRuns(hex, h)
<1>1. DigitsRuns(hex, f) /\ \A n : Digits(n, hex) = f[n]
  BY DigitsExist DEF Digits, DigitsRuns
<1> HIDE DEF f
<1>2. \A m \in Number64 :
        f[m] = Append(IF Ahead(hex, m) = Zero64 THEN << >> ELSE f[Ahead(hex, m)], Behind(hex, m))
  BY <1>1 DEF DigitsRuns, Ahead, Behind
<1>3. PICK p \in [0 .. 20 -> Nat] : /\ p[1] = 10 /\ \A k \in 1 .. 20 : p[k] = 10 * p[k - 1]
                                    /\ p[20] = Ten5 * Ten5 * Ten5 * Ten5
  BY Powers
<1>4. \A m \in Number64 : f[m] \in Seq(Octets)
  BY <1>1, DigitsFacts
<1> DEFINE Reads(m) == \A q \in Nat : v[q] = Zero64 /\ Holds(text, q, f[m]) => v[q + Len(f[m])] = m
\* One digit more.
<1>6. ASSUME NEW m \in Number64, Ahead(hex, m) = Zero64 \/ Reads(Ahead(hex, m))
      PROVE  Reads(m)
  <2> SUFFICES ASSUME NEW q \in Nat, v[q] = Zero64, Holds(text, q, f[m])
               PROVE  v[q + Len(f[m])] = m
    OBVIOUS
  <2>1. PICK a \in Number64, b \in Octets : a = Ahead(hex, m) /\ b = Behind(hex, m)
    BY AheadFacts
  <2>2. PICK h \in Seq(Octets) : h = (IF a = Zero64 THEN << >> ELSE f[a])
    <3>1. << >> \in Seq(Octets) /\ f[a] \in Seq(Octets)
      BY <1>4
    <3> QED
      BY <3>1, Zenon
  <2>3. f[m] = Append(h, b)
    BY <1>2, <2>1, <2>2
  <2>4. PICK l \in Nat : l = Len(h)
    OBVIOUS
  <2>6. /\ Holds(text, q, h) /\ q + l + 1 \in 1 .. Len(text) /\ text[q + l + 1] = b
        /\ q + Len(f[m]) = q + l + 1
    <3>1. PICK w : w = f[m]
      OBVIOUS
    <3>2. w = Append(h, b) /\ Holds(text, q, w)
      BY <2>3, <3>1
    <3>3. Holds(text, q, h)
      BY <3>2, HoldsBefore
    <3>6. q + Len(w) = q + Len(h) + 1
      BY <3>2, HoldsBefore
    <3>4. q + Len(h) + 1 \in 1 .. Len(text)
      BY <3>2, HoldsBefore
    <3>5. text[q + Len(h) + 1] = b
      BY <3>2, HoldsBefore
    <3> QED
      BY <2>4, <3>1, <3>3, <3>4, <3>5, <3>6
  <2>7. v[q + l] = a
    <3>1. CASE a = Zero64
      <4>1. l = 0
        BY <2>2, <2>4, <3>1
      <4>2. q + l = q
        BY <4>1
      <4> QED
        BY <3>1, <4>2
    <3>2. CASE a # Zero64
      <4>1. h = f[a] /\ Reads(a)
        BY <1>6, <2>1, <2>2, <3>2
      <4> QED
        BY <2>4, <2>6, <4>1
    <3> QED
      BY <3>1, <3>2
  <2>8. PICK r \in 0 .. base - 1 : r = DivMod(m, base).remainder
    <3>1. base \in Nat \ {0}
      BY DEF Base
    <3> QED
      BY <3>1, DivModFacts
  <2>9. b = DigitChar(r, hex) /\ a = DivMod(m, base).quotient
    BY <2>1, <2>8 DEF Ahead, Behind, Base
  <2>10. HexDigit(b) = r /\ b \notin {32, 45, 46}
    BY <2>9, DigitRead DEF Base
  <2>11. v[q + l + 1] = TimesPlus(v[q + l], base, r)
    <3>1. (q + l + 1) - 1 = q + l
      OBVIOUS
    <3> QED
      BY <2>6, <2>10, <3>1 DEF ReadBy
  <2>12. TimesPlus(a, base, r) = m
    <3>1. base \in Nat \ {0}
      BY DEF Base
    <3> QED
      BY <2>8, <2>9, <3>1, TimesPlusBack
  <2> QED
    BY <2>6, <2>7, <2>11, <2>12
<1> DEFINE P == {k \in 1 .. 20 : \A m \in Number64 : Val(m) < p[k] => Reads(m)}
<1>7. 1 \in P
  <2> HIDE DEF Reads
  <2> SUFFICES ASSUME NEW m \in Number64, Val(m) < 10 PROVE Reads(m)
    BY <1>3
  <2>1. Ahead(hex, m) = Zero64
    <3>1. Val(Ahead(hex, m)) < 1 /\ Val(Ahead(hex, m)) \in Nat
      BY AheadFacts
    <3> QED
      BY <3>1, AheadFacts, ValFacts
  <2> QED
    BY <1>6, <2>1
<1>8. ASSUME NEW k \in 2 .. 20, k - 1 \in P PROVE k \in P
  <2> HIDE DEF Reads
  <2> SUFFICES ASSUME NEW m \in Number64, Val(m) < p[k] PROVE Reads(m)
    OBVIOUS
  <2>1. PICK a \in Number64 : a = Ahead(hex, m)
    BY AheadFacts
  <2>2. Val(a) < p[k - 1]
    <3>1. p[k - 1] \in Nat /\ Val(m) < 10 * p[k - 1]
      BY <1>3
    <3> QED
      BY <2>1, <3>1, AheadFacts
  <2>3. Reads(a)
    BY <1>8, <2>2
  <2> QED
    BY <1>6, <2>1, <2>3
<1>9. 20 \in P
  <2> HIDE DEF P
  <2>1. \A k \in 1 + 1 .. 20 : k - 1 \in P => k \in P
    BY <1>8
  <2>2. \A k \in 1 .. 20 : k \in P
    BY <1>7, <2>1, GoesOn
  <2> QED
    BY <2>2
<1>10. \A m \in Number64 : Reads(m)
  <2> HIDE DEF Reads
  <2> QED
    BY <1>3, <1>9, ValFacts
<1> QED
  BY <1>1, <1>10 DEF NumbersRead

\* All of them are numerals.
LEMMA DigitsNumerals ==
  ASSUME NEW hex, NEW n \in Number64
  PROVE  Digits(n, hex) \in Seq(Numerals)
<1> DEFINE f == CHOOSE h : DigitsRuns(hex, h)
<1>1. DigitsRuns(hex, f) /\ Digits(n, hex) = f[n]
  BY DigitsExist DEF Digits, DigitsRuns
<1> HIDE DEF f
<1>2. \A m \in Number64 :
        f[m] = Append(IF Ahead(hex, m) = Zero64 THEN << >> ELSE f[Ahead(hex, m)], Behind(hex, m))
  BY <1>1 DEF DigitsRuns, Ahead, Behind
<1>3. PICK p \in [0 .. 20 -> Nat] : /\ p[1] = 10 /\ \A k \in 1 .. 20 : p[k] = 10 * p[k - 1]
                                    /\ p[20] = Ten5 * Ten5 * Ten5 * Ten5
  BY Powers
<1>4. ASSUME NEW m \in Number64, Ahead(hex, m) = Zero64 \/ f[Ahead(hex, m)] \in Seq(Numerals)
      PROVE  f[m] \in Seq(Numerals)
  <2>1. PICK h \in Seq(Numerals) : h = IF Ahead(hex, m) = Zero64 THEN << >> ELSE f[Ahead(hex, m)]
    <3>1. << >> \in Seq(Numerals)
      OBVIOUS
    <3> QED
      BY <1>4, <3>1, Zenon
  <2>2. PICK k \in Nat \ {0} : k = (IF hex = 0 THEN 10 ELSE 16)
    OBVIOUS
  <2>3. PICK r \in 0 .. k - 1 : r = DivMod(m, k).remainder
    BY DivModFacts
  <2>4. Behind(hex, m) = DigitChar(r, hex) /\ Behind(hex, m) \in Octets
    BY <2>2, <2>3, AheadFacts DEF Behind
  <2>5. HexDigit(DigitChar(r, hex)) = r /\ DigitChar(r, hex) \notin {32, 45, 46}
    BY <2>2, DigitRead
  <2>6. r \in 0 .. 15
    BY <2>2
  <2>7. PICK b \in Numerals : b = Behind(hex, m)
    BY <2>4, <2>5, <2>6 DEF Numerals
  <2>8. f[m] = Append(h, b)
    BY <1>2, <2>1, <2>7
  <2>9. Append(h, b) \in Seq(Numerals)
    OBVIOUS
  <2> QED
    BY <2>8, <2>9
<1> DEFINE P == {k \in 1 .. 20 : \A m \in Number64 : Val(m) < p[k] => f[m] \in Seq(Numerals)}
<1>5. 1 \in P
  <2> SUFFICES ASSUME NEW m \in Number64, Val(m) < 10 PROVE f[m] \in Seq(Numerals)
    BY <1>3
  <2>1. Ahead(hex, m) = Zero64
    <3>1. Val(Ahead(hex, m)) < 1 /\ Val(Ahead(hex, m)) \in Nat
      BY AheadFacts
    <3> QED
      BY <3>1, AheadFacts, ValFacts
  <2> QED
    BY <1>4, <2>1
<1>6. ASSUME NEW k \in 2 .. 20, k - 1 \in P PROVE k \in P
  <2> SUFFICES ASSUME NEW m \in Number64, Val(m) < p[k] PROVE f[m] \in Seq(Numerals)
    OBVIOUS
  <2>1. PICK a \in Number64 : a = Ahead(hex, m)
    BY AheadFacts
  <2>2. Val(a) < p[k - 1]
    <3>1. p[k - 1] \in Nat /\ Val(m) < 10 * p[k - 1]
      BY <1>3
    <3> QED
      BY <2>1, <3>1, AheadFacts
  <2>3. f[a] \in Seq(Numerals)
    BY <1>6, <2>2
  <2> QED
    BY <1>4, <2>1, <2>3
<1>7. 20 \in P
  <2> HIDE DEF P
  <2>1. \A k \in 1 + 1 .. 20 : k - 1 \in P => k \in P
    BY <1>6
  <2>2. \A k \in 1 .. 20 : k \in P
    BY <1>5, <2>1, GoesOn
  <2> QED
    BY <2>2
<1>8. f[n] \in Seq(Numerals)
  BY <1>3, <1>7, ValFacts
<1> QED
  BY <1>1, <1>8

\* With room for all of it, a number is printed behind its padding.
Printed(z, buf, zero, k, ds) ==
  /\ z \in Texts /\ k \in Nat /\ Len(z) = Len(buf) + k + Len(ds)
  /\ \A i \in 1 .. Len(buf) : z[i] = buf[i]
  /\ \A i \in 1 .. k : z[Len(buf) + i] = zero
  /\ Holds(z, Len(buf) + k, ds)

LEMMA SprintfNumWhole ==
  ASSUME NEW buf \in Texts, NEW last \in Nat, NEW n \in Number64, NEW zero \in Octets, NEW hex,
         NEW width \in Nat, Len(buf) + width <= last, Len(buf) + 20 <= last
  PROVE  \E k \in Nat : /\ Printed(SprintfNum(buf, last, n, zero, hex, width), buf, zero, k, Digits(n, hex))
                        /\ k + Len(Digits(n, hex)) >= width
<1>1. PICK ds \in Texts : ds = Digits(n, hex) /\ Len(ds) <= 20
  BY DigitsFacts DEF Texts
<1>2. PICK B \in Nat, D \in Nat : B = Len(buf) /\ D = Len(ds)
  BY DEF Texts
<1>3. PICK pad \in Texts : pad = Padding(zero, width, ds)
  BY PaddingIn
<1>4. PICK k \in Nat : k = (IF 0 >= width - D THEN 0 ELSE width - D)
  OBVIOUS
<1>5. Len(pad) = k /\ \A i \in 1 .. k : pad[i] = zero
  <2>1. Max({0, width - D}) = k
    <3>1. 0 \in Int /\ width - D \in Int
      OBVIOUS
    <3> QED
      BY <1>4, <3>1, OfTwo
  <2>2. pad = [i \in 1 .. k |-> zero]
    BY <1>2, <1>3, <2>1 DEF Padding
  <2> QED
    BY <2>2
<1>6. B + k <= last /\ B + k + D <= last /\ k + D >= width
  BY <1>1, <1>2, <1>4
<1>7. PICK y : y = Put(buf, last, pad)
  OBVIOUS
<1>8. y \in Texts /\ Len(y) = B + k /\ (\A i \in 1 .. B : y[i] = buf[i])
      /\ \A i \in 1 .. k : y[B + i] = zero
  <2>1. Fitting(buf, last, pad) = k
    BY <1>2, <1>5, <1>6 DEF Fitting
  <2>2. PutBehind(y, buf, pad, k)
    <3>1. Len(buf) <= last
      BY <1>2, <1>6
    <3> QED
      BY <1>7, <2>1, <3>1, PutFacts
  <2> QED
    BY <1>2, <1>5, <2>2 DEF PutBehind
<1>9. PICK z : z = Put(y, last, ds)
  OBVIOUS
<1>10. z \in Texts /\ Len(z) = (B + k) + D /\ (\A i \in 1 .. B + k : z[i] = y[i])
       /\ \A i \in 1 .. D : z[(B + k) + i] = ds[i]
  <2>1. Fitting(y, last, ds) = D
    BY <1>2, <1>6, <1>8 DEF Fitting
  <2>2. PutBehind(z, y, ds, D)
    <3>1. Len(y) <= last
      BY <1>6, <1>8
    <3> QED
      BY <1>8, <1>9, <2>1, <3>1, PutFacts
  <2> QED
    BY <1>8, <2>2 DEF PutBehind
<1>11. Printed(z, buf, zero, k, ds)
  <2>1. \A i \in 1 .. B : i \in 1 .. B + k
    OBVIOUS
  <2>2. \A i \in 1 .. k : B + i \in 1 .. B + k
    OBVIOUS
  <2>3. \A i \in 1 .. B : z[i] = buf[i]
    BY <1>8, <1>10, <2>1
  <2>4. \A i \in 1 .. k : z[B + i] = zero
    BY <1>8, <1>10, <2>2
  <2>5. Holds(z, B + k, ds)
    BY <1>2, <1>10 DEF Holds
  <2> QED
    BY <1>2, <1>10, <2>3, <2>4, <2>5 DEF Printed
<1>12. SprintfNum(buf, last, n, zero, hex, width) = z
  BY <1>1, <1>3, <1>7, <1>9 DEF SprintfNum
<1> QED
  BY <1>1, <1>2, <1>6, <1>11, <1>12

LEMMA TimesPlusZero ==
  ASSUME NEW k \in Nat
  PROVE  TimesPlus(Zero64, k, 0) = Zero64
<1>1. 0 \div Limb = 0 /\ 0 % Limb = 0
  <2>1. Joined(0, 0) = 0 /\ 0 \in Limbs
    BY LimbFacts DEF Joined
  <2> QED
    BY <2>1, JoinedDivided
<1>2. 0 * k + 0 = 0 /\ 0 * k = 0
  OBVIOUS
<1>3. PICK z : z = Zero64
  OBVIOUS
<1>4. z[1] = 0 /\ z[2] = 0 /\ z[3] = 0 /\ z[4] = 0
  BY <1>3 DEF Zero64
<1>5. TimesPlus(z, k, 0) = <<0, 0, 0, 0>>
  BY <1>1, <1>2, <1>4 DEF TimesPlus
<1> QED
  BY <1>3, <1>5 DEF Zero64

\* What is printed behind a sign and padding reads as the number.
ReadsAs(z, hex, n, minus) ==
  ReadNumber(z, Base(hex)) = n /\ (45 \in ToSet(z) <=> minus)

LEMMA PrintedReads ==
  ASSUME NEW z, NEW buf \in Texts, buf \in {<< >>, << 45 >>}, NEW zero \in {32, 48}, NEW k \in Nat,
         NEW hex, NEW n \in Number64, Printed(z, buf, zero, k, Digits(n, hex))
  PROVE  ReadsAs(z, hex, n, buf # << >>)
<1>0. PICK base \in Nat : base = Base(hex)
  BY DEF Base
<1>1. PICK ds \in Seq(Numerals) : ds = Digits(n, hex)
  BY DigitsNumerals
<1>2. PICK B \in Nat, D \in Nat : B = Len(buf) /\ D = Len(ds)
  BY DEF Texts
<1>3. \A i \in 1 .. B : buf[i] = 45
  BY <1>2
<1>4. /\ z \in Texts /\ Len(z) = B + k + D
      /\ \A i \in 1 .. B : z[i] = 45
      /\ \A i \in 1 .. k : z[B + i] = zero
      /\ Holds(z, B + k, ds)
  BY <1>1, <1>2, <1>3 DEF Printed
<1>5. PICK q \in Nat : q = B + k
  OBVIOUS
<1>6. \A i \in 1 .. q : z[i] \in {32, 45, 48}
  <2> TAKE i \in 1 .. q
  <2>1. CASE i <= B
    BY <1>4, <2>1
  <2>2. CASE i > B
    <3>1. PICK j \in 1 .. k : B + j = i
      <4>1. i - B \in 1 .. k /\ B + (i - B) = i
        BY <1>5, <2>2
      <4> QED
        BY <4>1
    <3>2. z[B + j] = zero
      BY <1>4
    <3> QED
      BY <3>1, <3>2
  <2> QED
    BY <2>1, <2>2
<1>7. \A i \in q + 1 .. q + D : z[i] \in Numerals
  <2> TAKE i \in q + 1 .. q + D
  <2>1. i - q \in 1 .. D /\ q + (i - q) = i
    OBVIOUS
  <2>2. ds[i - q] \in Numerals
    BY <1>2, <2>1
  <2>3. z[q + (i - q)] = ds[i - q]
    BY <1>2, <1>4, <1>5, <2>1 DEF Holds
  <2> QED
    BY <2>1, <2>2, <2>3
<1>8. HexDigit(48) = 0
  BY DEF HexDigit, IsDigit
<1>9. Readable(z)
  <2>1. ASSUME NEW i \in 1 .. q + D PROVE z[i] \in {32, 45, 46} \/ HexDigit(z[i]) \in 0 .. 15
    <3>1. CASE i <= q
      BY <1>6, <1>8, <3>1
    <3>2. CASE i > q
      <4>1. i \in q + 1 .. q + D
        BY <3>2
      <4> QED
        BY <1>7, <4>1 DEF Numerals
    <3> QED
      BY <3>1, <3>2
  <2> QED
    BY <1>4, <1>5, <2>1 DEF Readable
<1>10. PICK v : ReadNumber(z, base) = v[q + D] /\ v[0] = Zero64 /\ ReadBy(v, z, base)
  BY <1>4, <1>5, <1>9, ReadSteps
<1>11. v[q] = Zero64
  <2> DEFINE P == {i \in 0 .. q : v[i] = Zero64}
  <2>1. 0 \in P
    BY <1>10
  <2>2. ASSUME NEW i \in 0 + 1 .. q, i - 1 \in P PROVE i \in P
    <3>1. i \in 1 .. q /\ i \in 1 .. Len(z) /\ v[i - 1] = Zero64
      BY <1>4, <1>5, <2>2
    <3>2. z[i] \in {32, 45, 48} /\ TimesPlus(Zero64, base, 0) = Zero64
      BY <1>6, <3>1, TimesPlusZero
    <3>3. v[i] = IF z[i] \in {32, 45, 46} THEN v[i - 1] ELSE TimesPlus(v[i - 1], base, HexDigit(z[i]))
      BY <1>10, <3>1 DEF ReadBy
    <3>4. v[i] = Zero64
      BY <1>8, <3>1, <3>2, <3>3
    <3> QED
      BY <3>4
  <2> HIDE DEF P
  <2>3. \A i \in 0 .. q : i \in P
    BY <2>1, <2>2, GoesOn
  <2>4. q \in P
    BY <2>3
  <2> QED
    BY <2>4 DEF P
<1>12. v[q + D] = n
  <2>1. Holds(z, q, Digits(n, hex))
    BY <1>1, <1>4, <1>5
  <2>2. v[q + Len(Digits(n, hex))] = n
    <3>1. z \in Texts /\ ReadBy(v, z, base)
      BY <1>4, <1>10
    <3>2. NumbersRead(v, z, hex)
      BY <1>0, <3>1, DigitsRead
    <3> QED
      BY <1>11, <2>1, <3>2 DEF NumbersRead
  <2> QED
    BY <1>1, <1>2, <2>2
<1>13. 45 \in ToSet(z) <=> \E i \in 1 .. q + D : z[i] = 45
  <2>1. DOMAIN z = 1 .. q + D
    BY <1>4, <1>5 DEF Texts
  <2> QED
    BY <2>1 DEF ToSet
<1>14. (\E i \in 1 .. q + D : z[i] = 45) <=> B # 0
  <2>1. ASSUME NEW i \in 1 .. q + D, z[i] = 45 PROVE B # 0
    <3>1. CASE i > q
      <4>1. i \in q + 1 .. q + D
        BY <3>1
      <4> QED
        BY <1>7, <2>1, <4>1 DEF Numerals
    <3>2. CASE i <= q
      <4> SUFFICES ASSUME B = 0 PROVE FALSE
        OBVIOUS
      <4>1. i \in 1 .. k /\ B + i = i
        BY <1>5, <3>2
      <4>2. z[i] = zero
        BY <1>4, <4>1
      <4> QED
        BY <2>1, <4>2
    <3> QED
      BY <3>1, <3>2
  <2>2. ASSUME B # 0 PROVE \E i \in 1 .. q + D : z[i] = 45
    <3>1. 1 \in 1 .. B /\ 1 \in 1 .. q + D
      BY <1>5, <2>2
    <3> QED
      BY <1>4, <3>1
  <2> QED
    BY <2>1, <2>2
<1>15. B # 0 <=> buf # << >>
  BY <1>2
<1> QED
  BY <1>0, <1>10, <1>12, <1>13, <1>14, <1>15 DEF ReadsAs

-----------------------------------------------------------------------------
(***************************************************************************)
(* The number an argument stands for is the one that is printed.           *)
(***************************************************************************)
Negates(d) == Signed(d) /\ Negative64(Integer64(d))
Magnitude(d) == IF Negates(d) THEN Negated(Integer64(d)) ELSE Integer64(d)

\* Two's complement, the limb of the sign being the first.
LEMMA SignLimb ==
  ASSUME NEW m \in Number64, NEW first \in {1, 3}, \A i \in 1 .. first - 1 : m[i] = 0, m # Zero64,
         m[first] < Limb \div 2 \/ m = [Zero64 EXCEPT ![first] = Limb \div 2]
  PROVE  /\ Negated(m)[first] >= Limb \div 2
         /\ first = 3 => Negated(m)[1] = Limb - 1 /\ Negated(m)[2] = Limb - 1
<1>1. PICK L \in Nat, half \in Nat : L = Limb /\ half = Limb \div 2 /\ L = half + half /\ half >= 1
  <2>1. Limb = 2 * (Limb \div 2) /\ Limb \in Nat /\ Limb >= 2
    BY LimbAssumption
  <2> QED
    BY <2>1
<1>2. /\ m[1] \in 0 .. L - 1 /\ m[2] \in 0 .. L - 1 /\ m[3] \in 0 .. L - 1 /\ m[4] \in 0 .. L - 1
  BY <1>1, LimbsOf DEF Limbs
<1>3. PICK z : z = Negated(m)
  OBVIOUS
<1>4. /\ z[4] = (IF m[4] = 0 THEN 0 ELSE L - m[4])
      /\ z[3] = (IF m[4] = 0 THEN (IF m[3] = 0 THEN 0 ELSE L - m[3]) ELSE L - 1 - m[3])
      /\ z[2] = (IF m[4] = 0 /\ m[3] = 0 THEN (IF m[2] = 0 THEN 0 ELSE L - m[2]) ELSE L - 1 - m[2])
      /\ z[1] = (IF m[4] = 0 /\ m[3] = 0 /\ m[2] = 0 THEN (IF m[1] = 0 THEN 0 ELSE L - m[1])
                 ELSE L - 1 - m[1])
  BY <1>1, <1>3, NegatedLimbs DEF Complement, FromLimb
<1>5. m[1] # 0 \/ m[2] # 0 \/ m[3] # 0 \/ m[4] # 0
  <2> SUFFICES ASSUME m[1] = 0, m[2] = 0, m[3] = 0, m[4] = 0 PROVE FALSE
    OBVIOUS
  <2>1. m = <<m[1], m[2], m[3], m[4]>>
    BY DEF Number64
  <2> QED
    BY <2>1 DEF Zero64
<1>6. m[first] < half \/ (m[first] = half /\ \A i \in first + 1 .. 4 : m[i] = 0)
  <2>1. CASE m[first] < Limb \div 2
    BY <1>1, <2>1
  <2>2. CASE m = [Zero64 EXCEPT ![first] = Limb \div 2]
    <3>1. /\ DOMAIN Zero64 = 1 .. 4
          /\ Zero64[1] = 0 /\ Zero64[2] = 0 /\ Zero64[3] = 0 /\ Zero64[4] = 0
      BY DEF Zero64
    <3>2. m[first] = half /\ \A i \in 1 .. 4 : i # first => m[i] = 0
      BY <1>1, <2>2, <3>1
    <3> QED
      BY <3>2
  <2> QED
    BY <2>1, <2>2
<1>7. CASE first = 1
  <2>1. m[1] < half \/ (m[1] = half /\ m[2] = 0 /\ m[3] = 0 /\ m[4] = 0)
    BY <1>6, <1>7
  <2>2. z[1] >= half
    BY <1>1, <1>2, <1>4, <1>5, <2>1
  <2> QED
    BY <1>1, <1>3, <1>7, <2>2
<1>8. CASE first = 3
  <2>1. m[1] = 0 /\ m[2] = 0 /\ (m[3] < half \/ (m[3] = half /\ m[4] = 0))
    BY <1>6, <1>8
  <2>2. z[3] >= half /\ z[1] = L - 1 /\ z[2] = L - 1
    BY <1>1, <1>2, <1>4, <1>5, <2>1
  <2> QED
    BY <1>1, <1>3, <1>8, <2>2
<1> QED
  BY <1>7, <1>8

\* Numbers are the same limb by limb.
LEMMA SameNumber ==
  ASSUME NEW m \in Number64, NEW n \in Number64,
         m[1] = n[1], m[2] = n[2], m[3] = n[3], m[4] = n[4]
  PROVE  m = n
<1>1. m = <<m[1], m[2], m[3], m[4]>> /\ n = <<n[1], n[2], n[3], n[4]>>
  BY DEF Number64
<1> QED
  BY <1>1

\* An integer is below half of its type or not.
LEMMA HalfFacts ==
  /\ Limb \div 2 \in Nat /\ 0 < Limb \div 2 /\ Limb \div 2 <= Limb - 1
<1>1. Limb = 2 * (Limb \div 2) /\ Limb \in Nat /\ Limb >= 2
  BY LimbAssumption
<1> QED
  BY <1>1

IntegerKinds == {"T", "M", "d", "l", "D", "L", "p"}

LEMMA NumberPrinted ==
  ASSUME NEW d, d.conv \in IntegerKinds, d.arg \in Number64, StandsFor(d)
  PROVE  (Negates(d) <=> d.neg) /\ Magnitude(d) = d.magnitude
<1>1. PICK m \in Number64, a \in Number64 : m = d.magnitude /\ a = d.arg
  BY DEF StandsFor
<1>2. d.neg \in BOOLEAN
  BY DEF StandsFor
<1>3. PICK z \in Number64 : z = Negated(m) /\ Negated(z) = m
  BY LimbsMade, NegatedTwice
<1>4. PICK half \in Nat : half = Limb \div 2 /\ 0 < half /\ half <= Limb - 1 /\ Limb \in Nat
  BY HalfFacts, LimbFacts
<1>5. \A x \in Number64 : /\ x[1] \in Nat /\ x[2] \in Nat /\ x[3] \in Nat /\ x[4] \in Nat
                          /\ Low32(x) \in Number64 /\ SignedLow32(x) \in Number64
  BY LimbsOf, LimbFacts, LimbsMade
<1>6. \A x \in Number64 : Negative64(x) <=> x[1] >= half
  BY <1>4 DEF Negative64
<1>7. ASSUME NEW x \in Number64, Integer64(d) = x,
             d.neg => Signed(d) /\ x[1] >= half /\ x = z,
             ~ d.neg => x = m /\ (Signed(d) => x[1] < half)
      PROVE  (Negates(d) <=> d.neg) /\ Magnitude(d) = d.magnitude
  <2>1. CASE d.neg = TRUE
    <3>1. Negates(d)
      BY <1>6, <1>7, <2>1 DEF Negates
    <3>2. Magnitude(d) = Negated(z)
      BY <1>7, <2>1, <3>1 DEF Magnitude
    <3> QED
      BY <1>1, <1>3, <2>1, <3>1, <3>2
  <2>2. CASE d.neg = FALSE
    <3>1. ~ Negates(d)
      BY <1>4, <1>5, <1>6, <1>7, <2>2 DEF Negates
    <3>2. Magnitude(d) = m
      BY <1>7, <2>2, <3>1 DEF Magnitude
    <3> QED
      BY <1>1, <2>2, <3>1, <3>2
  <2> QED
    BY <1>2, <2>1, <2>2
<1>8. CASE d.conv \in {"d", "D"}
  <2>1. /\ m[1] = 0 /\ m[2] = 0
        /\ a[3] = (IF d.neg THEN z[3] ELSE m[3]) /\ a[4] = (IF d.neg THEN z[4] ELSE m[4])
        /\ d.neg => TakesSign(d) /\ m # Zero64
                    /\ (m[3] < Limb \div 2 \/ m = [Zero64 EXCEPT ![3] = Limb \div 2])
        /\ TakesSign(d) /\ ~ d.neg => m[3] < half
    <3>1. /\ \A i \in 1 .. 3 - 1 : m[i] = 0
          /\ \A i \in 3 .. 4 : a[i] = IF d.neg THEN z[i] ELSE m[i]
          /\ d.neg => TakesSign(d) /\ m # Zero64
                      /\ (m[3] < Limb \div 2 \/ m = [Zero64 EXCEPT ![3] = Limb \div 2])
          /\ TakesSign(d) /\ ~ d.neg => m[3] < half
      BY <1>1, <1>3, <1>4, <1>8 DEF StandsFor
    <3>2. 1 \in 1 .. 3 - 1 /\ 2 \in 1 .. 3 - 1 /\ 3 \in 3 .. 4 /\ 4 \in 3 .. 4
      OBVIOUS
    <3> QED
      BY <3>1, <3>2
  <2>2. TakesSign(d) <=> Signed(d)
    BY <1>8 DEF TakesSign, Signed
  <2>3. Integer64(d) = IF Signed(d) THEN SignedLow32(a) ELSE Low32(a)
    BY <1>1, <1>8 DEF Integer64
  <2>4. CASE d.neg
    <3>1. z[3] >= half /\ z[1] = Limb - 1 /\ z[2] = Limb - 1
      <4>1. \A i \in 1 .. 3 - 1 : m[i] = 0
        BY <2>1
      <4> QED
        BY <1>3, <1>4, <2>1, <2>4, <4>1, SignLimb
    <3>2. SignedLow32(a) = <<Limb - 1, Limb - 1, z[3], z[4]>>
      BY <1>4, <2>1, <2>4, <3>1 DEF SignedLow32
    <3>3. z = <<z[1], z[2], z[3], z[4]>>
      BY DEF Number64
    <3>4. Integer64(d) = z /\ Signed(d)
      BY <2>1, <2>2, <2>3, <2>4, <3>1, <3>2, <3>3
    <3> QED
      BY <1>4, <1>7, <2>4, <3>1, <3>4
  <2>5. CASE ~ d.neg
    <3>1. Low32(a) = <<0, 0, m[3], m[4]>>
      BY <2>1, <2>5 DEF Low32
    <3>2. m = <<m[1], m[2], m[3], m[4]>>
      BY DEF Number64
    <3>3. Low32(a) = m
      BY <2>1, <3>1, <3>2
    <3>4. Signed(d) => SignedLow32(a) = Low32(a)
      <4> SUFFICES ASSUME Signed(d) PROVE SignedLow32(a) = Low32(a)
        OBVIOUS
      <4>1. a[3] = m[3] /\ m[3] < half /\ m[3] \in Nat
        BY <1>5, <2>1, <2>2, <2>5
      <4>2. ~ (a[3] >= Limb \div 2)
        BY <1>4, <4>1
      <4> QED
        BY <4>2 DEF SignedLow32
    <3>5. Integer64(d) = m
      BY <2>3, <3>3, <3>4
    <3> QED
      BY <1>4, <1>7, <2>1, <2>5, <3>5
  <2> QED
    BY <2>4, <2>5
<1>9. CASE d.conv \in {"T", "l", "L", "p"}
  <2>1. /\ \A i \in 1 .. 4 : a[i] = IF d.neg THEN z[i] ELSE m[i]
        /\ d.neg => TakesSign(d) /\ m # Zero64
                    /\ (m[1] < Limb \div 2 \/ m = [Zero64 EXCEPT ![1] = Limb \div 2])
        /\ TakesSign(d) /\ ~ d.neg => m[1] < half
    BY <1>1, <1>3, <1>4, <1>9 DEF StandsFor
  <2>2. TakesSign(d) <=> Signed(d)
    BY <1>9 DEF TakesSign, Signed
  <2>3. Integer64(d) = a
    BY <1>1, <1>9 DEF Integer64
  <2>4. a = IF d.neg THEN z ELSE m
    <3>1. d.neg => a = z
      BY <2>1, SameNumber
    <3>2. ~ d.neg => a = m
      BY <2>1, SameNumber
    <3> QED
      BY <3>1, <3>2
  <2>5. CASE d.neg
    <3>1. z[1] >= half
      <4>1. \A i \in 1 .. 1 - 1 : m[i] = 0
        OBVIOUS
      <4> QED
        BY <1>3, <1>4, <2>1, <2>5, <4>1, SignLimb
    <3> QED
      BY <1>7, <2>1, <2>2, <2>3, <2>4, <2>5, <3>1
  <2>6. CASE ~ d.neg
    BY <1>7, <2>1, <2>2, <2>3, <2>4, <2>6
  <2> QED
    BY <2>5, <2>6
<1>10. CASE d.conv = "M"
  <2>1. /\ m[1] = 0 /\ m[2] = 0
        /\ a[3] = (IF d.neg THEN z[3] ELSE m[3]) /\ a[4] = (IF d.neg THEN z[4] ELSE m[4])
        /\ m # MinusOne32 /\ (d.neg => m = <<0, 0, 0, 1>>)
    <3>1. /\ \A i \in 1 .. 3 - 1 : m[i] = 0
          /\ \A i \in 3 .. 4 : a[i] = IF d.neg THEN z[i] ELSE m[i]
          /\ m # MinusOne32 /\ (d.neg => m = <<0, 0, 0, 1>>)
      BY <1>1, <1>3, <1>10 DEF StandsFor
    <3>2. 1 \in 1 .. 3 - 1 /\ 2 \in 1 .. 3 - 1 /\ 3 \in 3 .. 4 /\ 4 \in 3 .. 4
      OBVIOUS
    <3> QED
      BY <3>1, <3>2
  <2>2. Signed(d) <=> Low32(a) = MinusOne32
    BY <1>1, <1>10 DEF Signed
  <2>3. Integer64(d) = IF Signed(d) THEN Negated(<<0, 0, 0, 1>>) ELSE Low32(a)
    BY <1>1, <1>10 DEF Integer64
  <2>4. CASE d.neg
    <3>1. PICK L \in Nat : L = Limb /\ L >= 2
      BY LimbFacts
    <3>2. m[1] = 0 /\ m[2] = 0 /\ m[3] = 0 /\ m[4] = 1
      BY <2>1, <2>4
    <3>3. z[1] = L - 1 /\ z[2] = L - 1 /\ z[3] = L - 1 /\ z[4] = L - 1
      <4>1. /\ z[4] = (IF m[4] = 0 THEN 0 ELSE L - m[4])
            /\ z[3] = (IF m[4] = 0 THEN (IF m[3] = 0 THEN 0 ELSE L - m[3]) ELSE L - 1 - m[3])
            /\ z[2] = (IF m[4] = 0 /\ m[3] = 0 THEN (IF m[2] = 0 THEN 0 ELSE L - m[2]) ELSE L - 1 - m[2])
            /\ z[1] = (IF m[4] = 0 /\ m[3] = 0 /\ m[2] = 0 THEN (IF m[1] = 0 THEN 0 ELSE L - m[1])
                       ELSE L - 1 - m[1])
        BY <1>3, <3>1, NegatedLimbs DEF Complement, FromLimb
      <4> QED
        BY <3>1, <3>2, <4>1
    <3>4. Low32(a) = MinusOne32
      BY <2>1, <2>4, <3>1, <3>3 DEF Low32, MinusOne32
    <3>5. Integer64(d) = z /\ Signed(d)
      BY <1>3, <2>1, <2>2, <2>3, <2>4, <3>4
    <3>6. z[1] >= half
      BY <1>4, <3>1, <3>3
    <3> QED
      BY <1>7, <2>4, <3>5, <3>6
  <2>5. CASE ~ d.neg
    <3>1. Low32(a) = <<0, 0, m[3], m[4]>>
      BY <2>1, <2>5 DEF Low32
    <3>2. m = <<m[1], m[2], m[3], m[4]>>
      BY DEF Number64
    <3>3. Low32(a) = m
      BY <2>1, <3>1, <3>2
    <3>4. ~ Signed(d)
      BY <2>1, <2>2, <3>3
    <3>5. Integer64(d) = m
      BY <2>3, <3>3, <3>4
    <3> QED
      BY <1>7, <2>5, <3>4, <3>5
  <2> QED
    BY <2>4, <2>5
<1> QED
  BY <1>8, <1>9, <1>10 DEF IntegerKinds

LEMMA IntegerRead ==
  ASSUME NEW d, d.conv \in IntegerKinds, d.arg \in Number64, d.width \in Nat, StandsFor(d),
         Enough \in Nat
  PROVE  PrintsInteger(d, PrintedInteger(<< >>, Enough, d))
<1>1. PICK m \in Number64 : m = d.magnitude /\ Magnitude(d) = m /\ (Negates(d) <=> d.neg)
  BY NumberPrinted DEF StandsFor
<1>2. d.neg \in BOOLEAN /\ d.width \in 0 .. Enough - 21 /\ PointerDigits \in 0 .. Enough - 21
  BY DEF StandsFor
<1>3. PICK buf : buf = IF d.neg THEN << 45 >> ELSE << >>
  OBVIOUS
<1>4. buf \in Texts /\ buf \in {<< >>, << 45 >>} /\ Len(buf) <= 1 /\ Len(buf) \in Nat
      /\ (buf # << >> <=> d.neg)
  <2>1. << 45 >> \in Seq(Octets) /\ << >> \in Seq(Octets) /\ Len(<< 45 >>) = 1 /\ Len(<< >>) = 0
        /\ << 45 >> # << >>
    BY DEF Octets
  <2>2. CASE d.neg = TRUE
    BY <1>3, <2>1, <2>2 DEF Texts
  <2>3. CASE d.neg = FALSE
    BY <1>3, <2>1, <2>3 DEF Texts
  <2> QED
    BY <1>2, <2>2, <2>3
<1>5. PICK zero \in {32, 48} : zero = IF d.zero \/ d.conv = "p" THEN 48 ELSE 32
  OBVIOUS
<1>6. PICK width \in 0 .. Enough - 21 :
        width = (IF d.conv = "p" THEN PointerDigits ELSE d.width)
  BY <1>2
<1>14. PICK hex : hex = Hex(d)
  OBVIOUS
<1>15. PICK base \in Nat : base = Base(hex)
  BY DEF Base
<1>7. hex = Hex(d) /\ base = Base(hex)
  BY <1>14, <1>15
<1>8. base = IF d.flags \cap {"x", "X"} = {} /\ d.conv # "p" THEN 10 ELSE 16
  BY <1>7 DEF Base, Hex
<1>9. PICK z : z = SprintfNum(buf, Enough, m, zero, hex, width)
  OBVIOUS
<1>10. PrintedInteger(<< >>, Enough, d) = z
  <2>1. (IF Negates(d) THEN Append(<< >>, 45) ELSE << >>) = buf
    BY <1>1, <1>3
  <2>2. (IF Negates(d) THEN Negated(Integer64(d)) ELSE Integer64(d)) = m
    BY <1>1 DEF Magnitude
  <2> QED
    BY <1>5, <1>6, <1>7, <1>9, <2>1, <2>2 DEF PrintedInteger, Negates
<1>11. PICK k \in Nat : /\ Printed(z, buf, zero, k, Digits(m, hex))
                        /\ k + Len(Digits(m, hex)) >= width
  <2>1. zero \in Octets /\ width \in Nat /\ Len(buf) + width <= Enough /\ Len(buf) + 20 <= Enough
    BY <1>4 DEF Octets
  <2> QED
    BY <1>4, <1>9, <2>1, SprintfNumWhole
<1>12. ReadsAs(z, hex, m, buf # << >>)
  BY <1>4, <1>11, PrintedReads
<1>13. Len(z) >= width
  <2>1. Len(Digits(m, hex)) \in Nat
    BY DigitsFacts
  <2> QED
    BY <1>4, <1>11, <2>1 DEF Printed
<1> QED
  BY <1>1, <1>2, <1>4, <1>6, <1>7, <1>8, <1>10, <1>12, <1>13 DEF PrintsInteger, ReadsAs


(***************************************************************************)
(* IntegersReadBack: whatever number of its type an integer directive is   *)
(* given, negative or not, in decimal or hexadecimal and padded to any     *)
(* width, what rap_vslprintf writes reads back as that number: the sign is *)
(* extended to 64 bits and taken off again exactly (rap_string.c:283-339,  *)
(* 405-416, 427-500).                                                      *)
(***************************************************************************)
THEOREM IntegersAreExact == Spec => []IntegersReadBack
<1>1. Init => IntegersReadBack
  BY DEF Init, Idle, IntegersReadBack
<1>2. IntegersReadBack /\ [Next]_vars => IntegersReadBack'
  <2> SUFFICES ASSUME IntegersReadBack, [Next]_vars PROVE IntegersReadBack'
    OBVIOUS
  <2>1. CASE PrintText
    <3>1. PICK fmt \in Formats, last \in Rooms :
            Calls([fn |-> "print", fmt |-> fmt, last |-> last], Vslprintf(<< >>, last, fmt))
      BY <2>1 DEF PrintText
    <3>2. call'.fn = "print" /\ call'.fmt = fmt
      BY <3>1 DEF Calls
    <3>3. fmt \in Seq(ToSet(fmt)) /\ \A d \in ToSet(fmt) : Given(d)
      BY FormatsAssumption
    <3>4. ASSUME NEW d, Len(fmt) = 1, d = Head(fmt), d.conv \in IntegerKinds, "magnitude" \in DOMAIN d
          PROVE  PrintsInteger(d, Vslprintf(<< >>, Enough, fmt))
      <4>1. d = fmt[1] /\ d \in ToSet(fmt)
        BY <3>3, <3>4 DEF ToSet
      <4>2. d.arg \in Number64 /\ d.width \in Nat /\ StandsFor(d)
        BY <3>3, <3>4, <4>1 DEF Given, IntegerKinds
      <4>3. Enough \in Nat /\ Enough > 0
        <5>1. Enough \in Nat /\ d.width \in 0 .. Enough - 21
          BY <4>2, InputsAssumption DEF StandsFor
        <5> QED
          BY <5>1
      <4>4. PICK g : /\ Vslprintf(<< >>, Enough, fmt) = g[Len(fmt)] /\ g[0] = << >>
                     /\ \A n \in 1 .. Len(fmt) :
                          g[n] = IF Len(g[n - 1]) >= Enough THEN g[n - 1]
                                 ELSE PrintedItem(g[n - 1], Enough, fmt[n])
        BY <3>3, <4>3, PrintSteps
      <4>5. g[1] = PrintedItem(<< >>, Enough, d)
        <5>1. g[1] = IF Len(g[1 - 1]) >= Enough THEN g[1 - 1]
                     ELSE PrintedItem(g[1 - 1], Enough, fmt[1])
          BY <3>4, <4>4
        <5>2. g[1 - 1] = << >> /\ Len(<< >>) = 0
          BY <4>4
        <5>3. ~ (Len(g[1 - 1]) >= Enough)
          BY <4>3, <5>2
        <5> QED
          BY <4>1, <5>1, <5>2, <5>3
      <4>6. PrintedItem(<< >>, Enough, d) = PrintedInteger(<< >>, Enough, d)
        BY <3>4 DEF PrintedItem, IntegerKinds
      <4>7. PrintsInteger(d, PrintedInteger(<< >>, Enough, d))
        BY <3>4, <4>2, <4>3, IntegerRead
      <4> QED
        BY <3>4, <4>4, <4>5, <4>6, <4>7
    <3> QED
      BY <3>2, <3>4 DEF IntegersReadBack, IntegerKinds
  <2>2. CASE Next /\ ~ PrintText
    <3>1. call'.fn # "print"
      BY <2>2, CallsMade DEF Next
    <3> QED
      BY <3>1 DEF IntegersReadBack
  <2>3. CASE UNCHANGED vars
    BY <2>3 DEF vars, IntegersReadBack
  <2> QED
    BY <2>1, <2>2, <2>3
<1> QED
  BY <1>1, <1>2, PTL DEF Spec
=============================================================================
