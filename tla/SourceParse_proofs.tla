------------------------- MODULE SourceParse_proofs -------------------------
(***************************************************************************)
(* For any files, any number of elements an array is created with, any     *)
(* room in the pool's first block and any width of the length of a file:   *)
(* the arrays of ranges keep what was pushed (ArraysKeepRanges), and in a  *)
(* clean file that is not too long for this width the passes find what one *)
(* reading of the whole text finds (TextsAsOnePass, KeywordsOutsideTexts). *)
(*                                                                         *)
(* Laid says how the three arrays lie in the pool: apart from each other,  *)
(* the imports at its beginning until they move to its end and stay there, *)
(* the others behind the place where the imports began.  Filled says what  *)
(* they hold.  The body of a class is written behind the imports: inside   *)
(* their room, behind the end of the pool, or in the cell where the        *)
(* comments may begin, and this only when Strays says so.                  *)
(*                                                                         *)
(* TextInv says, pass by pass, how the text and what was found in it       *)
(* follow from a reading of the original text: Blanked up to start in the  *)
(* comments, Masked in the strings, and behind them CodeOnly, with the     *)
(* words and braces that are left in code.  What one reading does is       *)
(* Trace, proved of the recursive function Reading by induction over the   *)
(* places of the text.                                                     *)
(***************************************************************************)
EXTENDS SourceParse, NaturalsInduction, WellFoundedInduction, TLAPS

Names == {"imports", "comments", "strings"}

IsSeq(s) == s \in Seq(ToSet(s))

EndOfRoom(a) == a.elts + a.nalloc

Apart(a, b) == EndOfRoom(a) <= b.elts \/ EndOfRoom(b) <= a.elts

AtHome(a) == a.elts = 0 /\ a.nalloc = Slots

Laid(arr, end) ==
  /\ arr \in [Names -> [elts : Nat, nelts : Nat, nalloc : Nat]]
  /\ end \in Nat
  /\ \A name \in Names :
       /\ arr[name].nelts <= arr[name].nalloc /\ Slots <= arr[name].nalloc
       /\ EndOfRoom(arr[name]) <= end
  /\ \A name, other \in Names : name # other => Apart(arr[name], arr[other])
  /\ AtHome(arr["imports"]) \/ EndOfRoom(arr["imports"]) = end
  /\ Slots <= arr["comments"].elts /\ Slots < arr["strings"].elts

\* the array a holds s from the place on
Holds(memory, a, s, from) ==
  /\ a.nelts = Len(s)
  /\ \A i \in from .. Len(s) :
       a.elts + i - 1 \in DOMAIN memory /\ memory[a.elts + i - 1] = s[i]

Kept == IF Strays THEN 2 ELSE 1

Filled ==
  /\ Holds(mem, arrays["imports"], pushed.imports \o pushed.declares, 1)
  /\ Holds(mem, arrays["strings"], pushed.strings, 1)
  /\ Holds(mem, arrays["comments"], pushed.comments, Kept)
  /\ pushed.definitions # << >> =>
       LET behind == arrays["imports"].elts + arrays["imports"].nelts
       IN  behind \in DOMAIN mem /\ mem[behind] = Last(pushed.definitions)

Kinds == Names \cup {"declares", "definitions", "words"}

PushedType ==
  /\ pushed = [comments |-> pushed.comments, strings |-> pushed.strings,
               imports |-> pushed.imports, declares |-> pushed.declares,
               definitions |-> pushed.definitions, words |-> pushed.words]
  /\ \A kind \in Kinds : IsSeq(pushed[kind])
  /\ Len(pushed.declares) = Len(pushed.definitions)

Before == {"load", "comments", "strings", "chars", "package", "second"}

Passes ==
  /\ pc \in Before => pushed.imports = << >> /\ AtHome(arrays["imports"])
  /\ pc \in Before \cup {"imports"} => pushed.declares = << >> /\ pushed.definitions = << >>

Unloaded ==
  /\ arrays = [name \in Names |-> [elts |-> 0, nelts |-> 0, nalloc |-> 0]]
  /\ pushed = [comments |-> << >>, strings |-> << >>, imports |-> << >>,
               declares |-> << >>, definitions |-> << >>, words |-> << >>]
  /\ pc \in {"load", "ended"} /\ mem = << >>

Loaded == pc # "load" /\ Laid(arrays, last) /\ PushedType /\ Passes /\ Filled

ParseInv == Unloaded \/ Loaded
-----------------------------------------------------------------------------
(***************************************************************************)
(* Sequences, for which it does not matter of what they are.               *)
(***************************************************************************)
LEMMA SeqIsSeq ==
  ASSUME NEW S, NEW t \in Seq(S)
  PROVE  IsSeq(t)
<1>1. Len(t) \in Nat /\ t = [i \in 1 .. Len(t) |-> t[i]]
  OBVIOUS
<1>2. \A i \in 1 .. Len(t) : t[i] \in ToSet(t)
  BY DEF ToSet
<1> QED
  BY <1>1, <1>2 DEF IsSeq

LEMMA Appended ==
  ASSUME NEW s, IsSeq(s), NEW e
  PROVE  /\ IsSeq(Append(s, e)) /\ Len(Append(s, e)) = Len(s) + 1 /\ Len(s) \in Nat
         /\ \A i \in 1 .. Len(s) : Append(s, e)[i] = s[i]
         /\ Append(s, e)[Len(s) + 1] = e
         /\ Append(s, e) # << >> /\ Last(Append(s, e)) = e
<1> DEFINE S == ToSet(s) \cup {e}
<1> DEFINE t == Append(s, e)
<1>1. s \in Seq(S) /\ e \in S
  BY DEF IsSeq
<1> HIDE DEF S
<1>2. t \in Seq(S) /\ Len(t) = Len(s) + 1 /\ Len(s) \in Nat
  BY <1>1
<1>3. /\ \A i \in 1 .. Len(s) : t[i] = s[i]
      /\ t[Len(s) + 1] = e
  BY <1>1
<1>4. IsSeq(t)
  BY <1>2, SeqIsSeq
<1>5. t # << >> /\ Last(t) = e
  BY <1>2, <1>3 DEF Last
<1> QED
  BY <1>2, <1>3, <1>4, <1>5

LEMMA EmptyIsSeq == IsSeq(<< >>) /\ Len(<< >>) = 0
BY DEF IsSeq

\* What is appended to the second of two sequences ends both together.
LEMMA Joined ==
  ASSUME NEW s, IsSeq(s), NEW t, IsSeq(t)
  PROVE  /\ Len(s \o t) = Len(s) + Len(t) /\ Len(s) \in Nat /\ Len(t) \in Nat
         /\ IsSeq(s \o t)
         /\ \A i \in 1 .. Len(s) : (s \o t)[i] = s[i]
         /\ \A i \in 1 .. Len(t) : (s \o t)[Len(s) + i] = t[i]
<1> DEFINE S == ToSet(s) \cup ToSet(t)
<1>1. s \in Seq(S) /\ t \in Seq(S)
  BY DEF IsSeq
<1> HIDE DEF S
<1>2. s \o t \in Seq(S) /\ Len(s \o t) = Len(s) + Len(t) /\ Len(s) \in Nat /\ Len(t) \in Nat
  BY <1>1
<1>3. \A i \in 1 .. Len(s) : (s \o t)[i] = s[i]
  BY <1>1
<1>4. \A i \in 1 .. Len(t) : (s \o t)[Len(s) + i] = t[i]
  BY <1>1
<1>5. IsSeq(s \o t)
  BY <1>2, SeqIsSeq
<1> QED
  BY <1>2, <1>3, <1>4, <1>5

LEMMA JoinedAppend ==
  ASSUME NEW s, IsSeq(s), NEW t, IsSeq(t), NEW e
  PROVE  s \o Append(t, e) = Append(s \o t, e)
<1> DEFINE S == ToSet(s) \cup ToSet(t) \cup {e}
<1>1. s \in Seq(S) /\ t \in Seq(S) /\ e \in S
  BY DEF IsSeq
<1> HIDE DEF S
<1> DEFINE l == s \o Append(t, e)
<1> DEFINE r == Append(s \o t, e)
<1>2. Append(t, e) \in Seq(S) /\ s \o t \in Seq(S)
  BY <1>1
<1>3. l \in Seq(S) /\ r \in Seq(S) /\ Len(l) = Len(s) + Len(t) + 1 /\ Len(r) = Len(l)
      /\ Len(s) \in Nat /\ Len(t) \in Nat
  BY <1>1, <1>2
<1>4. ASSUME NEW i \in 1 .. Len(l) PROVE l[i] = r[i]
  <2>1. CASE i <= Len(s)
    BY <1>1, <1>2, <1>3, <2>1
  <2>2. CASE Len(s) < i /\ i <= Len(s) + Len(t)
    BY <1>1, <1>2, <1>3, <2>2
  <2>3. CASE i = Len(s) + Len(t) + 1
    BY <1>1, <1>2, <1>3, <2>3
  <2> QED
    BY <1>3, <2>1, <2>2, <2>3
<1> HIDE DEF l, r
<1>5. l = r
  BY <1>3, <1>4
<1> QED
  BY <1>5 DEF l, r

LEMMA JoinedEmpty ==
  ASSUME NEW s, IsSeq(s)
  PROVE  s \o << >> = s /\ << >> \o s = s
BY DEF IsSeq

-----------------------------------------------------------------------------
(***************************************************************************)
(* rap_array_push on the array a, called name.                             *)
(***************************************************************************)
LEMMA EvenAbove == \A n \in Nat : Even(n) \in Nat /\ n <= Even(n)
BY DEF Even

Record(arr, memory, end) == [arrays |-> arr, mem |-> memory, last |-> end]

\* what Grown makes of the array a of name and of the pool
GrownTo(arr, memory, end, name, g) ==
  LET a == arr[name]
  IN  \/ /\ a.nelts < a.nalloc
         /\ g = Record(arr, memory, end)
      \/ /\ a.nelts = a.nalloc /\ EndOfRoom(a) = end
         /\ g = Record([arr EXCEPT ![name] = [elts |-> a.elts, nelts |-> a.nelts,
                                              nalloc |-> a.nalloc + 1]],
                       memory, end + 1)
      \/ /\ a.nelts = a.nalloc
         /\ g.arrays = [arr EXCEPT ![name] = [elts |-> Even(end), nelts |-> a.nelts,
                                              nalloc |-> 2 * a.nalloc]]
         /\ g.last = Even(end) + 2 * a.nalloc
         /\ g = Record(g.arrays, g.mem, g.last)
         /\ DOMAIN memory \subseteq DOMAIN g.mem
         /\ \A c \in DOMAIN memory : c < end => g.mem[c] = memory[c]
         /\ \A i \in 0 .. a.nalloc - 1 :
              /\ Even(end) + i \in DOMAIN g.mem
              /\ a.elts + i \in DOMAIN memory => g.mem[Even(end) + i] = memory[a.elts + i]

LEMMA GrownAs ==
  ASSUME NEW arr, NEW memory, NEW end, Laid(arr, end), NEW name \in Names
  PROVE  GrownTo(arr, memory, end, name, Grown(Record(arr, memory, end), name))
<1> DEFINE a == arr[name]
<1> DEFINE p == Record(arr, memory, end)
<1> DEFINE g == Grown(p, name)
<1> DEFINE to == Even(end)
<1>0. /\ a \in [elts : Nat, nelts : Nat, nalloc : Nat] /\ end \in Nat /\ a.nelts <= a.nalloc
      /\ arr \in [Names -> [elts : Nat, nelts : Nat, nalloc : Nat]]
  BY DEF Laid
<1>1. to \in Nat /\ end <= to
  BY <1>0, EvenAbove
<1>2. p.arrays = arr /\ p.mem = memory /\ p.last = end
  BY DEF Record
<1>3. CASE a.nelts < a.nalloc
  <2>1. g = p
    BY <1>2, <1>3 DEF Grown
  <2> QED
    BY <1>3, <2>1 DEF GrownTo
<1>4. CASE a.nelts = a.nalloc /\ EndOfRoom(a) = end /\ end < Room
  <2>1. g = [p EXCEPT !.arrays[name].nalloc = @ + 1, !.last = @ + 1]
    BY <1>0, <1>2, <1>4 DEF Grown, EndsThePool, EndOfRoom
  <2>2. [arr EXCEPT ![name].nalloc = @ + 1]
          = [arr EXCEPT ![name] = [elts |-> a.elts, nelts |-> a.nelts, nalloc |-> a.nalloc + 1]]
    <3> DEFINE b == [elts |-> a.elts, nelts |-> a.nelts, nalloc |-> a.nalloc + 1]
    <3>1. [a EXCEPT !.nalloc = @ + 1] = b
      BY <1>0
    <3> HIDE DEF b
    <3>2. [arr EXCEPT ![name] = [a EXCEPT !.nalloc = @ + 1]] = [arr EXCEPT ![name] = b]
      BY <3>1
    <3> QED
      BY <3>2 DEF b
  <2>3. g = Record([arr EXCEPT ![name].nalloc = @ + 1], memory, end + 1)
    BY <2>1 DEF Record
  <2> QED
    BY <1>4, <2>2, <2>3 DEF GrownTo
<1>5. CASE a.nelts = a.nalloc /\ ~ (EndOfRoom(a) = end /\ end < Room)
  <2> DEFINE At(c) == IF c \in DOMAIN memory THEN memory[c] ELSE Nothing
  <2> DEFINE new == [c \in to .. to + a.nalloc - 1 |-> At(a.elts + c - to)]
  <2>1. g = [arrays |-> [arr EXCEPT ![name] = [elts |-> to, nelts |-> a.nelts,
                                               nalloc |-> 2 * a.nalloc]],
             mem |-> Over(new, memory), last |-> to + 2 * a.nalloc]
    BY <1>0, <1>2, <1>5 DEF Grown, EndsThePool, EndOfRoom
  <2>2. DOMAIN new = to .. to + a.nalloc - 1
    OBVIOUS
  <2>3. \A i \in 0 .. a.nalloc - 1 :
          to + i \in DOMAIN new /\ (a.elts + i \in DOMAIN memory => new[to + i] = memory[a.elts + i])
    <3> SUFFICES ASSUME NEW i \in 0 .. a.nalloc - 1
                 PROVE  to + i \in DOMAIN new
                        /\ (a.elts + i \in DOMAIN memory => new[to + i] = memory[a.elts + i])
      OBVIOUS
    <3>1. to + i \in to .. to + a.nalloc - 1 /\ a.elts + (to + i) - to = a.elts + i
      BY <1>0, <1>1
    <3> QED
      BY <3>1
  <2> HIDE DEF new
  <2>4. \A c \in DOMAIN memory : c < end => ~ (c \in DOMAIN new)
    BY <1>0, <1>1, <2>2
  <2>5. /\ DOMAIN Over(new, memory) = DOMAIN new \cup DOMAIN memory
        /\ \A c \in DOMAIN new : Over(new, memory)[c] = new[c]
        /\ \A c \in DOMAIN memory : c < end => Over(new, memory)[c] = memory[c]
    BY <2>4 DEF Over
  <2>6. g.mem = Over(new, memory) /\ g = Record(g.arrays, g.mem, g.last)
    BY <2>1 DEF Record
  <2> HIDE DEF g
  <2>7. /\ DOMAIN memory \subseteq DOMAIN g.mem
        /\ \A c \in DOMAIN memory : c < end => g.mem[c] = memory[c]
    BY <2>5, <2>6
  <2>8. \A i \in 0 .. a.nalloc - 1 :
          /\ to + i \in DOMAIN g.mem
          /\ a.elts + i \in DOMAIN memory => g.mem[to + i] = memory[a.elts + i]
    BY <2>3, <2>5, <2>6
  <2>9. /\ g.arrays = [arr EXCEPT ![name] = [elts |-> to, nelts |-> a.nelts,
                                             nalloc |-> 2 * a.nalloc]]
        /\ g.last = to + 2 * a.nalloc
    BY <2>1
  <2> QED
    BY <1>5, <2>6, <2>7, <2>8, <2>9 DEF g, GrownTo
<1> QED
  BY <1>0, <1>3, <1>4, <1>5

\* where the array a of name, in a pool that ends at end, lies after a push: at b
Grows(arr, end, name, b, newEnd) ==
  LET a == arr[name]
  IN  \/ a.nelts < a.nalloc /\ b.elts = a.elts /\ b.nalloc = a.nalloc /\ newEnd = end
      \/ /\ EndOfRoom(a) = end /\ b.elts = a.elts /\ b.nalloc = a.nalloc + 1
         /\ a.nelts = a.nalloc /\ newEnd = end + 1
      \/ /\ b.elts = Even(end) /\ b.nalloc = 2 * a.nalloc
         /\ a.nelts = a.nalloc /\ newEnd = EndOfRoom(b)

LEMMA PushedAs ==
  ASSUME NEW arr, NEW memory, NEW end, Laid(arr, end), NEW name \in Names,
         NEW values, Len(values) \in Nat
  PROVE  LET a == arr[name]
             q == Push(Record(arr, memory, end), name, values)
             b == q.arrays[name]
             cell == b.elts + a.nelts
         IN  /\ q.arrays = [arr EXCEPT ![name] = b]
             /\ b \in [elts : Nat, nelts : Nat, nalloc : Nat] /\ b.nelts = a.nelts + 1
             /\ Grows(arr, end, name, b, q.last)
             /\ \A i \in 0 .. a.nelts - 1 :
                  a.elts + i \in DOMAIN memory =>
                    b.elts + i \in DOMAIN q.mem /\ q.mem[b.elts + i] = memory[a.elts + i]
             /\ \A k \in 1 .. Len(values) :
                  cell + k - 1 \in DOMAIN q.mem /\ q.mem[cell + k - 1] = values[k]
             /\ \A c \in DOMAIN memory :
                  c \in Nat /\ c < end /\ ~ (c \in cell .. cell + Len(values) - 1) =>
                    c \in DOMAIN q.mem /\ q.mem[c] = memory[c]
<1> DEFINE a == arr[name]
<1> DEFINE p == Record(arr, memory, end)
<1> DEFINE g == Grown(p, name)
<1> DEFINE q == Push(p, name, values)
<1> DEFINE b == q.arrays[name]
<1> DEFINE cell == b.elts + a.nelts
<1> DEFINE new == [c \in cell .. cell + Len(values) - 1 |-> values[c - cell + 1]]
<1>0. /\ a \in [elts : Nat, nelts : Nat, nalloc : Nat] /\ end \in Nat /\ a.nelts <= a.nalloc
      /\ arr \in [Names -> [elts : Nat, nelts : Nat, nalloc : Nat]]
      /\ EndOfRoom(a) <= end
  BY DEF Laid
<1>1. Even(end) \in Nat /\ end <= Even(end)
  BY <1>0, EvenAbove
<1> DEFINE h == g.arrays[name]
<1>2. GrownTo(arr, memory, end, name, g)
  BY GrownAs
<1>3. h = g.arrays[name] /\ a = arr[name]
  OBVIOUS
<1>4. q = [g EXCEPT !.arrays[name].nelts = @ + 1,
                    !.mem = Over([c \in h.elts + h.nelts .. h.elts + h.nelts + Len(values) - 1 |->
                                    values[c - (h.elts + h.nelts) + 1]], @)]
  BY DEF Push
<1> HIDE DEF g, h, a, q
<1>5. /\ h \in [elts : Nat, nelts : Nat, nalloc : Nat] /\ h.nelts = a.nelts
      /\ g = Record(g.arrays, g.mem, g.last) /\ g.arrays = [arr EXCEPT ![name] = h]
      /\ Grows(arr, end, name, h, g.last)
      /\ DOMAIN memory \subseteq DOMAIN g.mem
      /\ \A c \in DOMAIN memory : c < end => g.mem[c] = memory[c]
      /\ \A i \in 0 .. a.nelts - 1 :
           a.elts + i \in DOMAIN memory =>
             h.elts + i \in DOMAIN g.mem /\ g.mem[h.elts + i] = memory[a.elts + i]
  <2>1. CASE a.nelts < a.nalloc /\ g = Record(arr, memory, end)
    <3>1. g.arrays = arr /\ g.mem = memory /\ g.last = end
      BY <2>1 DEF Record
    <3>2. h = a /\ [arr EXCEPT ![name] = a] = arr
      BY <1>0, <1>3, <3>1
    <3> QED
      BY <1>0, <1>3, <2>1, <3>1, <3>2 DEF Grows
  <2>2. CASE /\ a.nelts = a.nalloc /\ EndOfRoom(a) = end
             /\ g = Record([arr EXCEPT ![name] = [elts |-> a.elts, nelts |-> a.nelts,
                                                  nalloc |-> a.nalloc + 1]],
                           memory, end + 1)
    <3>1. /\ g.arrays = [arr EXCEPT ![name] = [elts |-> a.elts, nelts |-> a.nelts,
                                               nalloc |-> a.nalloc + 1]]
          /\ g.mem = memory /\ g.last = end + 1
      BY <2>2 DEF Record
    <3>2. h = [elts |-> a.elts, nelts |-> a.nelts, nalloc |-> a.nalloc + 1]
      BY <1>0, <1>3, <3>1
    <3>3. \A i \in 0 .. a.nelts - 1 : a.elts + i < end
      BY <1>0, <2>2 DEF EndOfRoom
    <3>4. Grows(arr, end, name, h, g.last)
      BY <1>3, <2>2, <3>1, <3>2 DEF Grows
    <3>5. g = Record(g.arrays, g.mem, g.last)
      BY <2>2, <3>1
    <3>6. h \in [elts : Nat, nelts : Nat, nalloc : Nat] /\ h.elts = a.elts /\ h.nelts = a.nelts
      BY <1>0, <3>2
    <3>7. \A i \in 0 .. a.nelts - 1 :
            a.elts + i \in DOMAIN memory =>
              h.elts + i \in DOMAIN g.mem /\ g.mem[h.elts + i] = memory[a.elts + i]
      BY <3>1, <3>6
    <3> QED
      BY <3>1, <3>2, <3>4, <3>5, <3>6, <3>7
  <2>3. CASE /\ a.nelts = a.nalloc
             /\ g.arrays = [arr EXCEPT ![name] = [elts |-> Even(end), nelts |-> a.nelts,
                                                  nalloc |-> 2 * a.nalloc]]
             /\ g.last = Even(end) + 2 * a.nalloc
             /\ g = Record(g.arrays, g.mem, g.last)
             /\ DOMAIN memory \subseteq DOMAIN g.mem
             /\ \A c \in DOMAIN memory : c < end => g.mem[c] = memory[c]
             /\ \A i \in 0 .. a.nalloc - 1 :
                  /\ Even(end) + i \in DOMAIN g.mem
                  /\ a.elts + i \in DOMAIN memory => g.mem[Even(end) + i] = memory[a.elts + i]
    <3>2. h = [elts |-> Even(end), nelts |-> a.nelts, nalloc |-> 2 * a.nalloc]
      BY <1>0, <1>3, <2>3
    <3>3. Grows(arr, end, name, h, g.last)
      BY <1>0, <1>3, <2>3, <3>2 DEF Grows, EndOfRoom
    <3>4. h \in [elts : Nat, nelts : Nat, nalloc : Nat] /\ h.elts = Even(end) /\ h.nelts = a.nelts
      BY <1>0, <1>1, <3>2
    <3>5. \A i \in 0 .. a.nelts - 1 :
            a.elts + i \in DOMAIN memory =>
              h.elts + i \in DOMAIN g.mem /\ g.mem[h.elts + i] = memory[a.elts + i]
      BY <1>0, <2>3, <3>4
    <3> QED
      BY <2>3, <3>2, <3>3, <3>4, <3>5
  <2> QED
    BY <1>2, <1>3, <2>1, <2>2, <2>3 DEF GrownTo
<1>6. /\ q.arrays = [g.arrays EXCEPT ![name] = [h EXCEPT !.nelts = @ + 1]]
      /\ q.mem = Over([c \in h.elts + a.nelts .. h.elts + a.nelts + Len(values) - 1 |->
                         values[c - (h.elts + a.nelts) + 1]], g.mem)
      /\ q.last = g.last
  BY <1>5, <1>3, <1>4 DEF Record
<1>7. /\ b = [elts |-> h.elts, nelts |-> a.nelts + 1, nalloc |-> h.nalloc]
      /\ q.arrays = [arr EXCEPT ![name] = b]
  <2> DEFINE r == [elts |-> h.elts, nelts |-> a.nelts + 1, nalloc |-> h.nalloc]
  <2>1. [h EXCEPT !.nelts = @ + 1] = r
    BY <1>5
  <2> HIDE DEF r
  <2>2. q.arrays = [g.arrays EXCEPT ![name] = r]
    BY <1>6, <2>1
  <2>3. q.arrays = [arr EXCEPT ![name] = r]
    BY <1>0, <1>5, <2>2
  <2>4. b = r
    BY <1>0, <2>3
  <2>5. q.arrays = [arr EXCEPT ![name] = b]
    BY <2>3, <2>4
  <2>6. b = [elts |-> h.elts, nelts |-> a.nelts + 1, nalloc |-> h.nalloc]
    BY <2>4 DEF r
  <2> HIDE DEF b
  <2> QED
    BY <2>5, <2>6
<1>8. q.mem = Over(new, g.mem) /\ b.elts = h.elts
  <2>1. b.elts = h.elts
    <3> HIDE DEF b
    <3> QED
      BY <1>7
  <2> QED
    BY <1>6, <2>1
<1>9. cell \in Nat
  BY <1>0, <1>5, <1>8
<1>10. /\ DOMAIN new = cell .. cell + Len(values) - 1
       /\ \A k \in 1 .. Len(values) : cell + k - 1 \in DOMAIN new /\ new[cell + k - 1] = values[k]
  <2> HIDE DEF cell
  <2> QED
    BY <1>9
<1> HIDE DEF new, cell, b
<1>11. /\ DOMAIN q.mem = DOMAIN new \cup DOMAIN g.mem
       /\ \A c \in DOMAIN new : q.mem[c] = new[c]
       /\ \A c \in DOMAIN g.mem : ~ (c \in DOMAIN new) => q.mem[c] = g.mem[c]
  BY <1>8 DEF Over
<1>12. \A i \in 0 .. a.nelts - 1 :
         a.elts + i \in DOMAIN memory =>
           b.elts + i \in DOMAIN q.mem /\ q.mem[b.elts + i] = memory[a.elts + i]
  <2> SUFFICES ASSUME NEW i \in 0 .. a.nelts - 1, a.elts + i \in DOMAIN memory
               PROVE  b.elts + i \in DOMAIN q.mem /\ q.mem[b.elts + i] = memory[a.elts + i]
    OBVIOUS
  <2>1. h.elts + i \in DOMAIN g.mem /\ g.mem[h.elts + i] = memory[a.elts + i]
    BY <1>5
  <2>2. ~ (h.elts + i \in cell .. cell + Len(values) - 1)
    BY <1>0, <1>5, <1>8 DEF cell
  <2>3. h.elts + i \notin DOMAIN new
    BY <1>10, <2>2
  <2> QED
    BY <1>8, <1>11, <2>1, <2>3
<1>13. \A k \in 1 .. Len(values) :
         cell + k - 1 \in DOMAIN q.mem /\ q.mem[cell + k - 1] = values[k]
  BY <1>10, <1>11
<1>14. \A c \in DOMAIN memory :
         c \in Nat /\ c < end /\ ~ (c \in cell .. cell + Len(values) - 1) =>
           c \in DOMAIN q.mem /\ q.mem[c] = memory[c]
  <2> SUFFICES ASSUME NEW c \in DOMAIN memory, c < end,
                      ~ (c \in cell .. cell + Len(values) - 1)
               PROVE  c \in DOMAIN q.mem /\ q.mem[c] = memory[c]
    OBVIOUS
  <2>1. c \in DOMAIN g.mem /\ g.mem[c] = memory[c]
    BY <1>5
  <2>2. c \notin DOMAIN new
    BY <1>10
  <2> QED
    BY <1>11, <2>1, <2>2
<1>15. Grows(arr, end, name, b, q.last)
  <2>1. b.elts = h.elts /\ b.nalloc = h.nalloc /\ q.last = g.last
    BY <1>6, <1>7
  <2> QED
    BY <1>5, <2>1 DEF Grows, EndOfRoom
<1>16. b \in [elts : Nat, nelts : Nat, nalloc : Nat] /\ b.nelts = a.nelts + 1
  BY <1>0, <1>5, <1>7
<1> QED
  BY <1>7, <1>12, <1>13, <1>14, <1>15, <1>16 DEF a, b, q, cell

\* The arrays keep their places: apart, and the imports at either end.
LEMMA LaidAfter ==
  ASSUME NEW arr, NEW end, Laid(arr, end), NEW name \in Names,
         NEW b \in [elts : Nat, nelts : Nat, nalloc : Nat], NEW newEnd,
         b.nelts = arr[name].nelts + 1, Grows(arr, end, name, b, newEnd),
         name = "imports" \/ AtHome(arr["imports"])
  PROVE  Laid([arr EXCEPT ![name] = b], newEnd)
<1> DEFINE new == [arr EXCEPT ![name] = b]
<1> DEFINE a == arr[name]
<1>0. /\ arr \in [Names -> [elts : Nat, nelts : Nat, nalloc : Nat]] /\ end \in Nat
      /\ Slots \in Nat \ {0} /\ "imports" \in Names /\ "comments" \in Names /\ "strings" \in Names
  BY SlotsAssumption DEF Laid, Names
<1>1. /\ new[name] = b /\ \A other \in Names : other # name => new[other] = arr[other]
      /\ new \in [Names -> [elts : Nat, nelts : Nat, nalloc : Nat]]
  BY <1>0
<1> HIDE DEF new
<1>2. /\ a \in [elts : Nat, nelts : Nat, nalloc : Nat]
      /\ a.nelts <= a.nalloc /\ Slots <= a.nalloc /\ a.elts + a.nalloc <= end
      /\ b.nelts = a.nelts + 1
  BY <1>0 DEF Laid, EndOfRoom
<1>3. Even(end) \in Nat /\ end <= Even(end)
  BY <1>0, EvenAbove
<1>4. /\ newEnd \in Nat /\ end <= newEnd
      /\ b.nelts <= b.nalloc /\ Slots <= b.nalloc /\ EndOfRoom(b) <= newEnd
      /\ (b.elts = a.elts /\ EndOfRoom(b) = EndOfRoom(a)) \/ (b.elts = a.elts /\ EndOfRoom(a) = end)
           \/ end <= b.elts
  BY <1>0, <1>2, <1>3 DEF Grows, EndOfRoom
<1>5. \A other \in Names : arr[other] \in [elts : Nat, nelts : Nat, nalloc : Nat]
  BY <1>0
<1>6. ASSUME NEW other \in Names, other # name
      PROVE  /\ Apart(arr[name], arr[other]) /\ arr[other].nelts <= arr[other].nalloc
             /\ Slots <= arr[other].nalloc /\ EndOfRoom(arr[other]) <= end
             /\ arr[other].elts < EndOfRoom(arr[other])
             /\ arr[other].elts \in Nat /\ EndOfRoom(arr[other]) \in Nat
  BY <1>0, <1>5, <1>6 DEF Laid, EndOfRoom
<1> DEFINE before == arr[name]
<1>7. /\ b.elts \in Nat /\ b.nalloc \in Nat /\ EndOfRoom(b) \in Nat /\ EndOfRoom(b) = b.elts + b.nalloc
      /\ a.elts \in Nat /\ EndOfRoom(a) \in Nat /\ EndOfRoom(a) = a.elts + a.nalloc
      /\ a.elts < EndOfRoom(a)
  BY <1>0, <1>2 DEF EndOfRoom
<1>8. ASSUME NEW other \in Names, other # name PROVE Apart(b, arr[other])
  <2>1. a.elts >= EndOfRoom(arr[other]) \/ EndOfRoom(a) <= arr[other].elts
    BY <1>6, <1>8 DEF Apart
  <2> HIDE DEF a
  <2> QED
    BY <1>0, <1>4, <1>6, <1>7, <1>8, <2>1 DEF Apart
<1>9. \A one, other \in Names : one # other => Apart(new[one], new[other])
  <2> SUFFICES ASSUME NEW one \in Names, NEW other \in Names, one # other
               PROVE  Apart(new[one], new[other])
    OBVIOUS
  <2>1. Apart(arr[one], arr[other])
    BY DEF Laid
  <2>2. \A u, v : Apart(u, v) => Apart(v, u)
    BY DEF Apart
  <2> QED
    BY <1>1, <1>8, <2>1, <2>2
<1>10. \A one \in Names : /\ new[one].nelts <= new[one].nalloc /\ Slots <= new[one].nalloc
                          /\ EndOfRoom(new[one]) <= newEnd
  <2> SUFFICES ASSUME NEW one \in Names
               PROVE  /\ new[one].nelts <= new[one].nalloc /\ Slots <= new[one].nalloc
                      /\ EndOfRoom(new[one]) <= newEnd
    OBVIOUS
  <2>1. CASE one = name
    BY <1>1, <1>4, <2>1
  <2>2. CASE one # name
    <3>1. /\ arr[one].nelts <= arr[one].nalloc /\ Slots <= arr[one].nalloc
          /\ EndOfRoom(arr[one]) <= end /\ EndOfRoom(arr[one]) \in Nat
      BY <1>6, <2>2
    <3> QED
      BY <1>0, <1>1, <1>4, <2>2, <3>1
  <2> QED
    BY <2>1, <2>2
<1>11. AtHome(new["imports"]) \/ EndOfRoom(new["imports"]) = newEnd
  <2>1. AtHome(arr["imports"]) \/ EndOfRoom(arr["imports"]) = end
    BY DEF Laid
  <2>2. CASE name = "imports"
    <3>1. end > Slots
      <4>1. Slots <= arr["comments"].elts /\ arr["comments"].elts < EndOfRoom(arr["comments"])
            /\ EndOfRoom(arr["comments"]) <= end /\ arr["comments"].elts \in Nat
            /\ EndOfRoom(arr["comments"]) \in Nat
        BY <1>0, <1>6, <2>2 DEF Laid
      <4> QED
        BY <1>0, <4>1
    <3>2. CASE a.nelts < a.nalloc /\ b.elts = a.elts /\ b.nalloc = a.nalloc /\ newEnd = end
      BY <1>1, <2>1, <2>2, <3>2 DEF AtHome, EndOfRoom
    <3>3. CASE EndOfRoom(a) = end /\ b.elts = a.elts /\ b.nalloc = a.nalloc + 1 /\ newEnd = end + 1
      BY <1>1, <1>2, <1>7, <2>2, <3>3 DEF EndOfRoom
    <3>4. CASE newEnd = EndOfRoom(b)
      BY <1>1, <2>2, <3>4
    <3> QED
      BY <3>2, <3>3, <3>4 DEF Grows
  <2>3. CASE name # "imports"
    <3>1. new["imports"] = arr["imports"]
      BY <1>0, <1>1, <2>3
    <3> QED
      BY <2>3, <3>1
  <2> QED
    BY <2>2, <2>3
<1>12. Slots <= new["comments"].elts /\ Slots < new["strings"].elts
  <2>1. Slots <= arr["comments"].elts /\ Slots < arr["strings"].elts
    BY DEF Laid
  <2>2. /\ arr["strings"].elts \in Nat /\ arr["comments"].elts \in Nat
        /\ arr["strings"].elts <= EndOfRoom(arr["strings"])
        /\ EndOfRoom(arr["strings"]) <= end /\ EndOfRoom(arr["strings"]) \in Nat
    BY <1>0, <1>5 DEF EndOfRoom, Laid
  <2>3. b.elts = a.elts \/ Slots < b.elts
    BY <1>0, <1>4, <1>7, <2>1, <2>2
  <2>4. \A one \in Names : new[one].elts = arr[one].elts \/ Slots < new[one].elts
    BY <1>1, <2>3
  <2>5. \A one \in Names : new[one].elts \in Nat
    BY <1>1
  <2> QED
    BY <1>0, <2>1, <2>2, <2>4, <2>5
<1> QED
  BY <1>1, <1>4, <1>9, <1>10, <1>11, <1>12 DEF Laid, new

-----------------------------------------------------------------------------
(***************************************************************************)
(* What an array holds after a push: one more, of the array itself; the    *)
(* same, of another one that none of the cells written is a cell of.       *)
(***************************************************************************)
LEMMA HoldsOneMore ==
  ASSUME NEW memory, NEW later, NEW s, IsSeq(s), NEW value, NEW from \in 1 .. 2,
         NEW a \in [elts : Nat, nelts : Nat, nalloc : Nat],
         NEW b \in [elts : Nat, nelts : Nat, nalloc : Nat],
         b.nelts = a.nelts + 1, Holds(memory, a, s, from),
         \A i \in 0 .. a.nelts - 1 :
           a.elts + i \in DOMAIN memory =>
             b.elts + i \in DOMAIN later /\ later[b.elts + i] = memory[a.elts + i],
         b.elts + a.nelts \in DOMAIN later, later[b.elts + a.nelts] = value
  PROVE  Holds(later, b, Append(s, value), from)
<1> DEFINE t == Append(s, value)
<1>1. /\ Len(t) = Len(s) + 1 /\ Len(s) \in Nat /\ t[Len(s) + 1] = value
      /\ \A i \in 1 .. Len(s) : t[i] = s[i]
  BY Appended
<1> HIDE DEF t
<1>2. b.nelts = Len(t) /\ a.nelts = Len(s)
  BY <1>1 DEF Holds
<1>3. ASSUME NEW i \in from .. Len(t)
      PROVE  b.elts + i - 1 \in DOMAIN later /\ later[b.elts + i - 1] = t[i]
  <2>1. CASE i = Len(t)
    <3>1. b.elts + i - 1 = b.elts + a.nelts
      BY <1>1, <1>2, <2>1
    <3> QED
      BY <1>1, <2>1, <3>1
  <2>2. CASE i # Len(t)
    <3>1. i \in from .. Len(s) /\ i - 1 \in 0 .. a.nelts - 1 /\ i \in 1 .. Len(s)
      BY <1>1, <1>2, <2>2
    <3>2. a.elts + i - 1 \in DOMAIN memory /\ memory[a.elts + i - 1] = s[i]
      BY <3>1 DEF Holds
    <3>3. a.elts + (i - 1) = a.elts + i - 1 /\ b.elts + (i - 1) = b.elts + i - 1
      BY <3>1
    <3>4. b.elts + (i - 1) \in DOMAIN later /\ later[b.elts + (i - 1)] = memory[a.elts + (i - 1)]
      BY <3>1, <3>2, <3>3
    <3> QED
      BY <1>1, <3>1, <3>2, <3>3, <3>4
  <2> QED
    BY <2>1, <2>2
<1> QED
  BY <1>2, <1>3 DEF Holds, t

LEMMA HoldsTheSame ==
  ASSUME NEW memory, NEW later, NEW end \in Nat, NEW s, IsSeq(s), NEW from \in 1 .. 2, NEW W,
         NEW a \in [elts : Nat, nelts : Nat, nalloc : Nat],
         a.nelts <= a.nalloc, EndOfRoom(a) <= end, Holds(memory, a, s, from),
         \A c \in DOMAIN memory :
           c \in Nat /\ c < end /\ ~ (c \in W) => c \in DOMAIN later /\ later[c] = memory[c],
         \A c \in a.elts + from - 1 .. EndOfRoom(a) - 1 : ~ (c \in W)
  PROVE  Holds(later, a, s, from)
<1>0. Len(s) \in Nat /\ a.nelts = Len(s)
  BY DEF IsSeq, Holds
<1>1. ASSUME NEW i \in from .. Len(s)
      PROVE  a.elts + i - 1 \in DOMAIN later /\ later[a.elts + i - 1] = s[i]
  <2>1. a.elts + i - 1 \in DOMAIN memory /\ memory[a.elts + i - 1] = s[i]
    BY DEF Holds
  <2>2. /\ a.elts + i - 1 \in a.elts + from - 1 .. EndOfRoom(a) - 1
        /\ a.elts + i - 1 \in Nat /\ a.elts + i - 1 < end
    BY <1>0 DEF EndOfRoom
  <2> QED
    BY <2>1, <2>2
<1> QED
  BY <1>0, <1>1 DEF Holds

(***************************************************************************)
(* The two lemmas and those about the room, for a step.                    *)
(***************************************************************************)
LEMMA PushStep ==
  ASSUME Laid(arrays, last), NEW name \in Names, NEW values, Len(values) \in Nat,
         Pushes(name, values), name = "imports" \/ AtHome(arrays["imports"])
  PROVE  LET a == arrays[name]
             b == arrays'[name]
             cell == b.elts + a.nelts
             W == cell .. cell + Len(values) - 1
         IN  /\ Laid(arrays', last')
             /\ \A other \in Names : other # name => arrays'[other] = arrays[other]
             /\ b.nelts = a.nelts + 1
             /\ \A i \in 0 .. a.nelts - 1 :
                  a.elts + i \in DOMAIN mem =>
                    b.elts + i \in DOMAIN mem' /\ mem'[b.elts + i] = mem[a.elts + i]
             /\ \A k \in 1 .. Len(values) :
                  cell + k - 1 \in DOMAIN mem' /\ mem'[cell + k - 1] = values[k]
             /\ \A c \in DOMAIN mem :
                  c \in Nat /\ c < last /\ ~ (c \in W) => c \in DOMAIN mem' /\ mem'[c] = mem[c]
<1> DEFINE q == Push(Record(arrays, mem, last), name, values)
<1>1. arrays' = q.arrays /\ mem' = q.mem /\ last' = q.last
  BY DEF Pushes, Pool, Record
<1> DEFINE c == q.arrays[name]
<1>2. /\ q.arrays = [arrays EXCEPT ![name] = c]
      /\ c \in [elts : Nat, nelts : Nat, nalloc : Nat] /\ c.nelts = arrays[name].nelts + 1
      /\ Grows(arrays, last, name, c, q.last)
      /\ \A i \in 0 .. arrays[name].nelts - 1 :
           arrays[name].elts + i \in DOMAIN mem =>
             c.elts + i \in DOMAIN q.mem /\ q.mem[c.elts + i] = mem[arrays[name].elts + i]
      /\ \A k \in 1 .. Len(values) :
           /\ c.elts + arrays[name].nelts + k - 1 \in DOMAIN q.mem
           /\ q.mem[c.elts + arrays[name].nelts + k - 1] = values[k]
      /\ \A d \in DOMAIN mem :
           d \in Nat /\ d < last
             /\ ~ (d \in c.elts + arrays[name].nelts
                          .. c.elts + arrays[name].nelts + Len(values) - 1) =>
             d \in DOMAIN q.mem /\ q.mem[d] = mem[d]
  BY PushedAs
<1> HIDE DEF q
<1>3. Laid([arrays EXCEPT ![name] = c], q.last)
  <2> HIDE DEF c
  <2> QED
    BY <1>2, LaidAfter
<1>4. \A other \in Names : other # name => q.arrays[other] = arrays[other]
  <2>1. arrays \in [Names -> [elts : Nat, nelts : Nat, nalloc : Nat]]
    BY DEF Laid
  <2> HIDE DEF c
  <2> QED
    BY <1>2, <2>1
<1>5. Laid(arrays', last')
  BY <1>1, <1>2, <1>3
<1> QED
  BY <1>1, <1>2, <1>4, <1>5

\* none of n cells from the one on is a cell of the array a, from the place on
Clear(a, from, cell, n) ==
  \A c \in a.elts + from - 1 .. EndOfRoom(a) - 1 : ~ (c \in cell .. cell + n - 1)

LEMMA OthersSame ==
  ASSUME Laid(arrays, last), NEW name \in Names, NEW values, Len(values) \in Nat,
         Pushes(name, values), name = "imports" \/ AtHome(arrays["imports"]),
         NEW other \in Names, other # name, NEW s, IsSeq(s), NEW from \in 1 .. 2,
         Holds(mem, arrays[other], s, from),
         Clear(arrays[other], from, arrays'[name].elts + arrays[name].nelts, Len(values))
  PROVE  Holds(mem', arrays'[other], s, from)
<1> DEFINE cell == arrays'[name].elts + arrays[name].nelts
<1> DEFINE W == cell .. cell + Len(values) - 1
<1>1. /\ arrays'[other] = arrays[other]
      /\ \A c \in DOMAIN mem :
           c \in Nat /\ c < last /\ ~ (c \in W) => c \in DOMAIN mem' /\ mem'[c] = mem[c]
  BY PushStep
<1>2. \A c \in arrays[other].elts + from - 1 .. EndOfRoom(arrays[other]) - 1 : ~ (c \in W)
  BY DEF Clear
<1>3. /\ arrays[other] \in [elts : Nat, nelts : Nat, nalloc : Nat] /\ last \in Nat
      /\ arrays[other].nelts <= arrays[other].nalloc /\ EndOfRoom(arrays[other]) <= last
  BY DEF Laid
<1> HIDE DEF W
<1> QED
  BY <1>1, <1>2, <1>3, HoldsTheSame

LEMMA FindAllStep ==
  ASSUME Loaded, NEW pass, NEW match, NEW content, NEW name \in Names,
         FindAll(pass, match, name, name, content),
         \/ pass \in {"comments", "strings", "chars"} /\ name \in {"comments", "strings"}
         \/ pass = "imports" /\ name = "imports"
  PROVE  Loaded'
<1> DEFINE values == <<match>>
<1>0. /\ Laid(arrays, last) /\ PushedType /\ Passes /\ Filled
      /\ pc = pass /\ pc' = pc
      /\ pushed' = [pushed EXCEPT ![name] = Append(@, match)]
      /\ Pushes(name, values) /\ Len(values) = 1 /\ Len(values) \in Nat /\ values[1] = match
  BY DEF Loaded, FindAll, Searching
<1> HIDE DEF values
<1>1. name = "imports" \/ AtHome(arrays["imports"])
  BY <1>0 DEF Passes, Before
<1>2. pushed.declares = << >> /\ pushed.definitions = << >>
  BY <1>0 DEF Passes, Before
<1>3. /\ pushed'[name] = Append(pushed[name], match)
      /\ \A kind \in Kinds : kind # name => pushed'[kind] = pushed[kind]
      /\ pushed' = [comments |-> pushed'.comments, strings |-> pushed'.strings,
                    imports |-> pushed'.imports, declares |-> pushed'.declares,
                    definitions |-> pushed'.definitions, words |-> pushed'.words]
  BY <1>0 DEF PushedType, Kinds, Names
<1>4. \A kind \in Kinds : IsSeq(pushed[kind]) /\ IsSeq(pushed'[kind])
  BY <1>0, <1>3, Appended DEF PushedType
<1>5. pushed'.declares = << >> /\ pushed'.definitions = << >>
  BY <1>2, <1>3 DEF Kinds, Names
<1>6. PushedType'
  BY <1>3, <1>4, <1>5 DEF PushedType
<1>7. /\ Laid(arrays', last')
      /\ \A other \in Names : other # name => arrays'[other] = arrays[other]
      /\ arrays'[name].nelts = arrays[name].nelts + 1
      /\ \A i \in 0 .. arrays[name].nelts - 1 :
           arrays[name].elts + i \in DOMAIN mem =>
             /\ arrays'[name].elts + i \in DOMAIN mem'
             /\ mem'[arrays'[name].elts + i] = mem[arrays[name].elts + i]
      /\ arrays'[name].elts + arrays[name].nelts \in DOMAIN mem'
      /\ mem'[arrays'[name].elts + arrays[name].nelts] = match
  <2>1. /\ Laid(arrays', last')
        /\ \A other \in Names : other # name => arrays'[other] = arrays[other]
        /\ arrays'[name].nelts = arrays[name].nelts + 1
        /\ \A i \in 0 .. arrays[name].nelts - 1 :
             arrays[name].elts + i \in DOMAIN mem =>
               /\ arrays'[name].elts + i \in DOMAIN mem'
               /\ mem'[arrays'[name].elts + i] = mem[arrays[name].elts + i]
        /\ \A k \in 1 .. Len(values) :
             /\ arrays'[name].elts + arrays[name].nelts + k - 1 \in DOMAIN mem'
             /\ mem'[arrays'[name].elts + arrays[name].nelts + k - 1] = values[k]
    BY <1>0, <1>1, PushStep
  <2>2. /\ arrays[name] \in [elts : Nat, nelts : Nat, nalloc : Nat]
        /\ arrays'[name] \in [elts : Nat, nelts : Nat, nalloc : Nat]
    BY <1>0, <2>1 DEF Laid
  <2>3. /\ 1 \in 1 .. Len(values)
        /\ arrays'[name].elts + arrays[name].nelts + 1 - 1
             = arrays'[name].elts + arrays[name].nelts
    BY <1>0, <2>2
  <2> QED
    BY <1>0, <2>1, <2>3
<1>8. Passes'
  <2>1. name # "imports" =>
          arrays'["imports"] = arrays["imports"] /\ pushed'.imports = pushed.imports
    BY <1>3, <1>7 DEF Kinds, Names
  <2> QED
    BY <1>0, <1>5, <2>1 DEF Passes, Before, AtHome
<1>9. arrays[name] \in [elts : Nat, nelts : Nat, nalloc : Nat]
      /\ arrays'[name] \in [elts : Nat, nelts : Nat, nalloc : Nat]
  BY <1>0, <1>7 DEF Laid
<1>10. ASSUME NEW other \in Names, other # name, NEW from \in 1 .. 2,
              NEW s, IsSeq(s), Holds(mem, arrays[other], s, from)
       PROVE  Holds(mem', arrays'[other], s, from)
  <2> DEFINE cell == arrays'[name].elts + arrays[name].nelts
  <2>1. /\ Apart(arrays'[name], arrays[other]) /\ arrays'[name].nelts <= arrays'[name].nalloc
        /\ arrays[other] \in [elts : Nat, nelts : Nat, nalloc : Nat]
    BY <1>0, <1>7, <1>10 DEF Laid
  <2>2. Clear(arrays[other], from, cell, Len(values))
    <3>1. /\ cell \in Nat /\ arrays'[name].elts <= cell /\ cell < EndOfRoom(arrays'[name])
          /\ EndOfRoom(arrays'[name]) \in Nat /\ EndOfRoom(arrays[other]) \in Nat
          /\ arrays[other].elts \in Nat /\ arrays'[name].elts \in Nat
      BY <1>7, <1>9, <2>1 DEF EndOfRoom
    <3> HIDE DEF cell
    <3>2. cell + Len(values) - 1 = cell
      BY <1>0, <3>1
    <3>3. cell < arrays[other].elts \/ EndOfRoom(arrays[other]) <= cell
      BY <2>1, <3>1 DEF Apart
    <3> QED
      BY <3>1, <3>2, <3>3 DEF Clear
  <2>3. IsSeq(s) /\ Holds(mem, arrays[other], s, from) /\ other # name
    BY <1>10
  <2> QED
    BY <1>0, <1>1, <2>2, <2>3, OthersSame
<1>11. ASSUME NEW from \in 1 .. 2, NEW s, IsSeq(s), Holds(mem, arrays[name], s, from)
       PROVE  Holds(mem', arrays'[name], Append(s, match), from)
  BY <1>7, <1>9, <1>11, HoldsOneMore
<1>12. /\ IsSeq(pushed.imports) /\ IsSeq(pushed'.imports) /\ IsSeq(pushed.strings)
       /\ IsSeq(pushed.comments)
       /\ pushed.imports \o pushed.declares = pushed.imports
       /\ pushed'.imports \o pushed'.declares = pushed'.imports
  BY <1>2, <1>4, <1>5, JoinedEmpty DEF Kinds, Names
<1>13. Kept = 1 /\ Kept' = 1
  <2>1. Len(pushed.imports) \in Nat /\ Len(pushed'.imports) \in Nat
    BY <1>12 DEF IsSeq
  <2> QED
    BY <1>2, <1>5, <2>1, SlotsAssumption DEF Kept, Strays
<1>14. \A one \in Names : Holds(mem, arrays[one], pushed[one], 1)
  BY <1>0, <1>12, <1>13 DEF Filled, Names
<1>15. \A one \in Names : Holds(mem', arrays'[one], pushed'[one], 1)
  <2> SUFFICES ASSUME NEW one \in Names PROVE Holds(mem', arrays'[one], pushed'[one], 1)
    OBVIOUS
  <2>1. one \in Kinds /\ IsSeq(pushed[one]) /\ Holds(mem, arrays[one], pushed[one], 1)
    BY <1>4, <1>14 DEF Kinds
  <2>2. CASE one = name
    <3>1. 1 \in 1 .. 2
      OBVIOUS
    <3>2. Holds(mem', arrays'[name], Append(pushed[name], match), 1)
      BY <1>11, <2>1, <2>2, <3>1
    <3> QED
      BY <1>3, <2>2, <3>2
  <2>3. CASE one # name
    BY <1>3, <1>10, <2>1, <2>3
  <2> QED
    BY <2>2, <2>3
<1>16. Filled'
  BY <1>5, <1>12, <1>13, <1>15 DEF Filled, Names
<1> QED
  BY <1>0, <1>6, <1>7, <1>8, <1>16 DEF Loaded

LEMMA PushClassStep ==
  ASSUME Loaded, pc = "classes", pc' = pc, NEW match, NEW declare, NEW body,
         Pushes("imports", <<declare, body>>),
         pushed' = [pushed EXCEPT !.declares = Append(@, declare),
                                  !.definitions = Append(@, body),
                                  !.words = Append(@, match)]
  PROVE  Loaded'
<1> DEFINE values == <<declare, body>>
<1>0. /\ Laid(arrays, last) /\ PushedType /\ Filled
      /\ pushed' = [pushed EXCEPT !.declares = Append(@, declare),
                                  !.definitions = Append(@, body),
                                  !.words = Append(@, match)]
      /\ Pushes("imports", values) /\ Len(values) = 2 /\ Len(values) \in Nat
      /\ values[1] = declare /\ values[2] = body
      /\ "imports" \in Names /\ "comments" \in Names /\ "strings" \in Names
  BY DEF Loaded, Names
<1> HIDE DEF values
<1>1. /\ pushed'.declares = Append(pushed.declares, declare)
      /\ pushed'.definitions = Append(pushed.definitions, body)
      /\ pushed'.words = Append(pushed.words, match)
      /\ pushed'.comments = pushed.comments /\ pushed'.strings = pushed.strings
      /\ pushed'.imports = pushed.imports
      /\ pushed' = [comments |-> pushed'.comments, strings |-> pushed'.strings,
                    imports |-> pushed'.imports, declares |-> pushed'.declares,
                    definitions |-> pushed'.definitions, words |-> pushed'.words]
  BY <1>0 DEF PushedType
<1>2. /\ IsSeq(pushed.comments) /\ IsSeq(pushed.strings) /\ IsSeq(pushed.imports)
      /\ IsSeq(pushed.declares) /\ IsSeq(pushed.definitions) /\ IsSeq(pushed.words)
      /\ Len(pushed.declares) = Len(pushed.definitions)
  BY <1>0 DEF PushedType, Kinds, Names
<1>3. /\ IsSeq(pushed'.declares) /\ IsSeq(pushed'.definitions) /\ IsSeq(pushed'.words)
      /\ Len(pushed'.declares) = Len(pushed.declares) + 1
      /\ Len(pushed'.definitions) = Len(pushed.definitions) + 1
      /\ Last(pushed'.definitions) = body
  BY <1>1, <1>2, Appended
<1>4. PushedType'
  BY <1>1, <1>2, <1>3 DEF PushedType, Kinds, Names
<1>5. Passes'
  BY DEF Passes, Before
<1> DEFINE a == arrays["imports"]
<1> DEFINE b == arrays'["imports"]
<1> DEFINE cell == b.elts + a.nelts
<1>6. /\ Laid(arrays', last')
      /\ \A other \in Names : other # "imports" => arrays'[other] = arrays[other]
      /\ b.nelts = a.nelts + 1
      /\ \A i \in 0 .. a.nelts - 1 :
           a.elts + i \in DOMAIN mem =>
             b.elts + i \in DOMAIN mem' /\ mem'[b.elts + i] = mem[a.elts + i]
      /\ \A k \in 1 .. Len(values) :
           cell + k - 1 \in DOMAIN mem' /\ mem'[cell + k - 1] = values[k]
  <2>1. PICK name \in Names : name = "imports"
    BY <1>0
  <2>2. /\ Laid(arrays', last')
        /\ \A other \in Names : other # name => arrays'[other] = arrays[other]
        /\ arrays'[name].nelts = arrays[name].nelts + 1
        /\ \A i \in 0 .. arrays[name].nelts - 1 :
             arrays[name].elts + i \in DOMAIN mem =>
               /\ arrays'[name].elts + i \in DOMAIN mem'
               /\ mem'[arrays'[name].elts + i] = mem[arrays[name].elts + i]
        /\ \A k \in 1 .. Len(values) :
             /\ arrays'[name].elts + arrays[name].nelts + k - 1 \in DOMAIN mem'
             /\ mem'[arrays'[name].elts + arrays[name].nelts + k - 1] = values[k]
    <3>1. name = "imports" \/ AtHome(arrays["imports"])
      BY <2>1
    <3>2. Pushes(name, values) /\ Laid(arrays, last) /\ Len(values) \in Nat
      BY <1>0, <2>1
    <3> QED
      BY <3>1, <3>2, PushStep
  <2> QED
    BY <2>1, <2>2
<1>7. /\ a \in [elts : Nat, nelts : Nat, nalloc : Nat] /\ b \in [elts : Nat, nelts : Nat, nalloc : Nat]
      /\ b.nelts <= b.nalloc /\ last' \in Nat
      /\ AtHome(b) \/ EndOfRoom(b) = last'
  BY <1>0, <1>6 DEF Laid
<1>8. /\ cell \in Nat /\ b.elts \in Nat /\ EndOfRoom(b) \in Nat
      /\ b.elts <= cell /\ cell + 1 <= EndOfRoom(b)
      /\ b.elts + b.nelts = cell + 1
      /\ AtHome(b) /\ cell + 1 = EndOfRoom(b) => cell + 1 = Slots /\ b.nelts = Slots
  <2> HIDE DEF a, b
  <2>1. /\ a.elts \in Nat /\ a.nelts \in Nat /\ b.elts \in Nat /\ b.nelts \in Nat /\ b.nalloc \in Nat
        /\ b.nelts = a.nelts + 1 /\ b.nelts <= b.nalloc
    BY <1>6, <1>7
  <2> QED
    BY <2>1, SlotsAssumption DEF EndOfRoom, AtHome
<1>9. /\ cell \in DOMAIN mem' /\ mem'[cell] = declare
      /\ cell + 1 \in DOMAIN mem' /\ mem'[cell + 1] = body
  <2> HIDE DEF cell
  <2>1. 1 \in 1 .. Len(values) /\ 2 \in 1 .. Len(values) /\ cell + 1 - 1 = cell /\ cell + 2 - 1 = cell + 1
    BY <1>0, <1>8
  <2> QED
    BY <1>0, <1>6, <2>1
<1> DEFINE imports == pushed.imports \o pushed.declares
<1>10. /\ IsSeq(imports) /\ Len(imports) = Len(pushed.imports) + Len(pushed.declares)
       /\ Len(pushed.imports) \in Nat /\ Len(pushed.declares) \in Nat
       /\ pushed'.imports \o pushed'.declares = Append(imports, declare)
  <2>1. IsSeq(imports) /\ Len(imports) = Len(pushed.imports) + Len(pushed.declares)
        /\ Len(pushed.imports) \in Nat /\ Len(pushed.declares) \in Nat
    BY <1>2, Joined
  <2>2. pushed.imports \o Append(pushed.declares, declare) = Append(imports, declare)
    <3>1. PICK s, t : s = pushed.imports /\ t = pushed.declares
      OBVIOUS
    <3>2. IsSeq(s) /\ IsSeq(t)
      BY <1>2, <3>1
    <3>3. s \o Append(t, declare) = Append(s \o t, declare)
      BY <3>2, JoinedAppend
    <3> QED
      BY <3>1, <3>3
  <2> QED
    BY <1>1, <2>1, <2>2
<1>11. Holds(mem, a, imports, 1) /\ a.nelts = Len(imports)
  BY <1>0 DEF Filled, Holds
<1>12. Holds(mem', b, pushed'.imports \o pushed'.declares, 1)
  <2> HIDE DEF imports
  <2>1. PICK s, u, v, from : s = imports /\ u = a /\ v = b /\ from = 1
    OBVIOUS
  <2>2. from \in 1 .. 2
    BY <2>1
  <2>3. /\ u \in [elts : Nat, nelts : Nat, nalloc : Nat]
        /\ v \in [elts : Nat, nelts : Nat, nalloc : Nat]
        /\ v.nelts = u.nelts + 1
    BY <1>6, <1>7, <2>1
  <2>4. \A i \in 0 .. u.nelts - 1 :
          u.elts + i \in DOMAIN mem =>
            v.elts + i \in DOMAIN mem' /\ mem'[v.elts + i] = mem[u.elts + i]
    BY <1>6, <2>1
  <2>5. v.elts + u.nelts \in DOMAIN mem' /\ mem'[v.elts + u.nelts] = declare
    BY <1>9, <2>1
  <2>6. IsSeq(s) /\ Holds(mem, u, s, from)
    BY <1>10, <1>11, <2>1
  <2> HIDE DEF a, b
  <2>7. Holds(mem', v, Append(s, declare), from)
    BY <2>2, <2>3, <2>4, <2>5, <2>6, HoldsOneMore
  <2> QED
    BY <1>10, <2>1, <2>7
<1>13. /\ Kept \in 1 .. 2 /\ Kept' \in 1 .. 2 /\ Kept <= Kept'
       /\ AtHome(b) /\ cell + 1 = EndOfRoom(b) => Kept' = 2
  <2>1. /\ Len(pushed'.imports) = Len(pushed.imports)
        /\ Len(pushed'.declares) = Len(pushed.declares) + 1
        /\ Len(pushed.imports) \in Nat /\ Len(pushed.declares) \in Nat
    BY <1>1, <1>3, <1>10
  <2>2. b.nelts = Len(pushed.imports) + Len(pushed.declares) + 1
    BY <1>6, <1>10, <1>11
  <2>3. PICK l \in Nat, d \in Nat :
          /\ Len(pushed.imports) = l /\ Len(pushed.declares) = d
          /\ Len(pushed'.imports) = l /\ Len(pushed'.declares) = d + 1
    BY <2>1
  <2>4. Strays <=> l < Slots /\ l + d >= Slots
    BY <2>3 DEF Strays
  <2>5. Strays' <=> l < Slots /\ l + (d + 1) >= Slots
    BY <2>3 DEF Strays
  <2>6. b.nelts = l + d + 1
    BY <2>2, <2>3
  <2> HIDE DEF a, b
  <2>7. (Strays => Strays') /\ (b.nelts = Slots => Strays')
    BY <2>4, <2>5, <2>6, SlotsAssumption
  <2> QED
    BY <1>8, <2>7 DEF Kept
<1>14. ASSUME NEW other \in Names, other # "imports", NEW from \in 1 .. 2,
              \/ other = "strings"
              \/ other = "comments" /\ (AtHome(b) /\ cell + 1 = EndOfRoom(b) => from = 2)
       PROVE  Clear(arrays[other], from, cell, Len(values))
  <2> DEFINE o == arrays[other]
  <2>1. /\ Apart(b, o) /\ EndOfRoom(o) <= last' /\ o \in [elts : Nat, nelts : Nat, nalloc : Nat]
        /\ other = "strings" => Slots < o.elts
        /\ other = "comments" => Slots <= o.elts
    BY <1>0, <1>6, <1>14 DEF Laid
  <2>2. o.elts \in Nat /\ o.nalloc \in Nat /\ EndOfRoom(o) = o.elts + o.nalloc
    BY <2>1 DEF EndOfRoom
  <2>3. ASSUME NEW c \in o.elts + from - 1 .. EndOfRoom(o) - 1 PROVE c # cell /\ c # cell + 1
    <3> HIDE DEF o, b, cell
    <3>1. EndOfRoom(b) <= o.elts \/ EndOfRoom(o) <= b.elts
      BY <2>1 DEF Apart
    <3>2. c \in Nat /\ o.elts <= c /\ c < EndOfRoom(o) /\ (from = 2 => o.elts < c)
      BY <2>2
    <3>3. c # cell
      BY <1>8, <2>2, <3>1, <3>2
    <3>4. CASE cell + 1 < EndOfRoom(b)
      BY <1>8, <2>2, <3>1, <3>2, <3>4
    <3>5. CASE cell + 1 = EndOfRoom(b) /\ AtHome(b)
      <4>1. cell + 1 = Slots /\ Slots <= o.elts /\ (other = "comments" => from = 2)
            /\ (other = "strings" => Slots < o.elts)
        BY <1>8, <1>14, <2>1, <2>2, <3>5, SlotsAssumption
      <4> QED
        BY <1>8, <1>14, <2>2, <3>2, <4>1, SlotsAssumption
    <3>6. CASE cell + 1 = EndOfRoom(b) /\ EndOfRoom(b) = last'
      BY <1>7, <1>8, <2>1, <2>2, <3>2, <3>3, <3>6
    <3> QED
      BY <1>7, <1>8, <3>3, <3>4, <3>5, <3>6
  <2> HIDE DEF cell, o
  <2>4. \A c \in cell .. cell + Len(values) - 1 : c = cell \/ c = cell + 1
    BY <1>0, <1>8
  <2> QED
    BY <2>3, <2>4 DEF Clear, o
<1>15. Holds(mem', arrays'["strings"], pushed'.strings, 1)
  <2>1. Holds(mem, arrays["strings"], pushed.strings, 1) /\ 1 \in 1 .. 2
    BY <1>0 DEF Filled
  <2>2. Clear(arrays["strings"], 1, cell, Len(values))
    BY <1>0, <1>14, <2>1
  <2> QED
    BY <1>0, <1>1, <1>2, <2>1, <2>2, OthersSame
<1>16. Holds(mem', arrays'["comments"], pushed'.comments, Kept')
  <2> DEFINE from == Kept'
  <2>1. Holds(mem, arrays["comments"], pushed.comments, from)
    <3>1. Holds(mem, arrays["comments"], pushed.comments, Kept)
      BY <1>0 DEF Filled
    <3>2. \A i \in from .. Len(pushed.comments) : i \in Kept .. Len(pushed.comments)
      BY <1>13
    <3> QED
      BY <3>1, <3>2 DEF Holds
  <2>2. from \in 1 .. 2 /\ (AtHome(b) /\ cell + 1 = EndOfRoom(b) => from = 2)
    BY <1>13
  <2> HIDE DEF from
  <2>3. Clear(arrays["comments"], from, cell, Len(values))
    BY <1>0, <1>14, <2>2
  <2>4. Holds(mem', arrays'["comments"], pushed.comments, from)
    BY <1>0, <1>2, <2>1, <2>2, <2>3, OthersSame
  <2> QED
    BY <1>1, <2>4 DEF from
<1>17. Filled'
  BY <1>3, <1>8, <1>9, <1>12, <1>15, <1>16 DEF Filled
<1> QED
  BY <1>4, <1>5, <1>6, <1>17 DEF Loaded

-----------------------------------------------------------------------------
(***************************************************************************)
(* The other steps.                                                        *)
(***************************************************************************)
LEMMA InitParse ==
  ASSUME Init
  PROVE  ParseInv
BY DEF Init, ParseInv, Unloaded, Names

LEMMA LoadStep ==
  ASSUME Unloaded, Load
  PROVE  Loaded'
<1> DEFINE even == Even(Slots)
<1>0. Slots \in Nat \ {0} /\ even \in Nat /\ Slots <= even
  BY SlotsAssumption, EvenAbove
<1> HIDE DEF even
<1>1. /\ arrays' = [imports |-> ArrayAt(0), comments |-> ArrayAt(even), strings |-> ArrayAt(2 * even)]
      /\ last' = 2 * even + Slots /\ pc' = "comments"
      /\ pushed' = [comments |-> << >>, strings |-> << >>, imports |-> << >>,
                    declares |-> << >>, definitions |-> << >>, words |-> << >>]
  BY DEF Load, Unloaded, even
<1>2. /\ arrays'["imports"] = [elts |-> 0, nelts |-> 0, nalloc |-> Slots]
      /\ arrays'["comments"] = [elts |-> even, nelts |-> 0, nalloc |-> Slots]
      /\ arrays'["strings"] = [elts |-> 2 * even, nelts |-> 0, nalloc |-> Slots]
      /\ arrays' \in [Names -> [elts : Nat, nelts : Nat, nalloc : Nat]]
  BY <1>0, <1>1 DEF ArrayAt, Names
<1>3. Laid(arrays', last')
  <2>1. \A name \in Names :
          /\ arrays'[name].nelts <= arrays'[name].nalloc /\ Slots <= arrays'[name].nalloc
          /\ EndOfRoom(arrays'[name]) <= last'
    BY <1>0, <1>1, <1>2 DEF EndOfRoom, Names
  <2>2. \A name, other \in Names : name # other => Apart(arrays'[name], arrays'[other])
    BY <1>0, <1>2 DEF Apart, EndOfRoom, Names
  <2>3. AtHome(arrays'["imports"]) /\ Slots <= arrays'["comments"].elts
        /\ Slots < arrays'["strings"].elts /\ last' \in Nat
    BY <1>0, <1>1, <1>2 DEF AtHome
  <2> QED
    BY <1>2, <2>1, <2>2, <2>3 DEF Laid
<1>4. PushedType'
  BY <1>1, EmptyIsSeq DEF PushedType, Kinds, Names
<1>5. Passes'
  BY <1>1, <1>2 DEF Passes, Before, AtHome
<1>6. Filled'
  <2>1. /\ pushed'.imports = << >> /\ pushed'.declares = << >> /\ pushed'.strings = << >>
        /\ pushed'.comments = << >> /\ pushed'.definitions = << >>
    BY <1>1
  <2>2. pushed'.imports \o pushed'.declares = << >>
    BY <2>1
  <2>3. \A name \in Names, from \in 1 .. 2 : Holds(mem', arrays'[name], << >>, from)
    BY <1>2 DEF Holds, Names
  <2>4. Kept' \in 1 .. 2 /\ 1 \in 1 .. 2
    BY DEF Kept
  <2> QED
    BY <2>1, <2>2, <2>3, <2>4 DEF Filled, Names
<1> QED
  BY <1>1, <1>3, <1>4, <1>5, <1>6 DEF Loaded

\* A step that leaves the arrays and what was pushed, and goes on to a pass that may follow.
LEMMA SameArrays ==
  ASSUME Loaded, UNCHANGED <<arrays, mem, last, pushed>>, pc' # "load",
         pc' \in Before => pc \in Before,
         pc' = "imports" => pc \in Before \cup {"imports"}
  PROVE  Loaded'
<1>1. Laid(arrays', last') /\ PushedType' /\ Passes'
  BY DEF Loaded, PushedType, Passes, AtHome
<1>2. Kept' = Kept
  BY DEF Kept, Strays
<1>3. Filled'
  BY <1>2 DEF Loaded, Filled
<1> QED
  BY <1>1, <1>3 DEF Loaded

LEMMA GoOnStep ==
  ASSUME Loaded, NEW pass, NEW match, NEW next, NEW from, NEW content,
         GoOn(pass, match, next, from, content),
         \/ pass = "comments" /\ next = "strings"
         \/ pass = "strings" /\ next = "chars"
         \/ pass = "chars" /\ next = "package"
         \/ pass = "imports" /\ next = "classes"
  PROVE  Loaded'
BY SameArrays DEF GoOn, Before

LEMMA LoadedStep ==
  ASSUME Loaded, Next
  PROVE  Loaded'
<1>1. ~ Load /\ ~ NoFile
  BY DEF Loaded, Load, NoFile
<1>2. CASE Comments
  <2>1. PICK match :
          \/ FindAll("comments", match, "comments", "comments", SetRange(src.content, match))
          \/ GoOn("comments", match, "strings", 0, ReplaceString(src.content, src.filesize))
    BY <1>2 DEF Comments
  <2> QED
    BY <2>1, FindAllStep, GoOnStep DEF Names
<1>3. CASE Strings
  <2>1. PICK match :
          \/ FindAll("strings", match, "strings", "strings", src.content)
          \/ GoOn("strings", match, "chars", 0, src.content)
    BY <1>3 DEF Strings
  <2> QED
    BY <2>1, FindAllStep, GoOnStep DEF Names
<1>4. CASE Chars
  <2>1. PICK match :
          \/ FindAll("chars", match, "strings", "strings", src.content)
          \/ GoOn("chars", match, "package", 0, src.content)
    BY <1>4 DEF Chars
  <2> QED
    BY <2>1, FindAllStep, GoOnStep DEF Names
<1>5. CASE Package
  <2>1. pc = "package" /\ pc' \in {"imports", "second"} /\ UNCHANGED <<arrays, mem, last, pushed>>
    BY <1>5 DEF Package
  <2> QED
    BY <2>1, SameArrays DEF Before
<1>6. CASE SecondPackage
  <2>1. pc = "second" /\ pc' \in {"imports", "print"} /\ UNCHANGED <<arrays, mem, last, pushed>>
    BY <1>6 DEF SecondPackage
  <2> QED
    BY <2>1, SameArrays DEF Before
<1>7. CASE Imports
  <2>1. PICK match :
          \/ FindAll("imports", match, "imports", "imports", SetRange(src.content, match))
          \/ GoOn("imports", match, "classes", start, src.content)
    BY <1>7 DEF Imports
  <2> QED
    BY <2>1, FindAllStep, GoOnStep DEF Names
<1>8. CASE Classes
  <2>1. \/ /\ pc = "classes" /\ pc' = "print" /\ UNCHANGED <<arrays, mem, last, pushed>>
        \/ \E match, body : pc = "classes" /\ PushClass(match, body) /\ UNCHANGED pc
    BY <1>8 DEF Classes, AfterNoBody
  <2>2. CASE pc = "classes" /\ pc' = "print" /\ UNCHANGED <<arrays, mem, last, pushed>>
    BY <2>2, SameArrays DEF Before
  <2>3. ASSUME NEW match, NEW body, pc = "classes", PushClass(match, body), UNCHANGED pc
        PROVE  Loaded'
    <3>1. \E declare :
            /\ Pushes("imports", <<declare, body>>)
            /\ pushed' = [pushed EXCEPT !.declares = Append(@, declare),
                                        !.definitions = Append(@, body),
                                        !.words = Append(@, match)]
      BY <2>3 DEF PushClass
    <3> QED
      BY <2>3, <3>1, PushClassStep
  <2> QED
    BY <2>1, <2>2, <2>3
<1>9. CASE PrintRanges
  <2>1. pc' = "ended" /\ UNCHANGED <<arrays, mem, last, pushed>>
    BY <1>9 DEF PrintRanges
  <2> QED
    BY <2>1, SameArrays DEF Before
<1>10. CASE Ended
  <2>1. pc = "ended" /\ pc' = "ended" /\ UNCHANGED <<arrays, mem, last, pushed>>
    BY <1>10 DEF Ended, vars
  <2> QED
    BY <2>1, SameArrays DEF Before
<1> QED
  BY <1>1, <1>2, <1>3, <1>4, <1>5, <1>6, <1>7, <1>8, <1>9, <1>10 DEF Next

LEMMA ParseStep ==
  ASSUME ParseInv, [Next]_vars
  PROVE  ParseInv'
<1>1. CASE UNCHANGED vars
  <2>1. UNCHANGED <<arrays, mem, last, pushed, pc>>
    BY <1>1 DEF vars
  <2>2. CASE Unloaded
    BY <2>1, <2>2 DEF Unloaded, ParseInv
  <2>3. CASE Loaded
    <3>1. Loaded'
      BY <2>1, <2>3, SameArrays DEF Loaded
    <3> QED
      BY <3>1 DEF ParseInv
  <2> QED
    BY <2>2, <2>3 DEF ParseInv
<1>2. CASE Loaded /\ Next
  BY <1>2, LoadedStep DEF ParseInv
<1>3. CASE Unloaded /\ Next
  <2>1. CASE Load
    BY <1>3, <2>1, LoadStep DEF ParseInv
  <2>2. CASE NoFile
    BY <1>3, <2>2 DEF NoFile, Unloaded, ParseInv
  <2>3. CASE Ended
    BY <1>3, <2>3 DEF Ended, vars, Unloaded, ParseInv
  <2>4. /\ ~ Comments /\ ~ Strings /\ ~ Chars /\ ~ Package /\ ~ SecondPackage /\ ~ Imports
        /\ ~ Classes /\ ~ PrintRanges
    BY <1>3 DEF Unloaded, Comments, Strings, Chars, Package, SecondPackage, Imports, Classes,
                Searching, PrintRanges
  <2> QED
    BY <1>3, <2>1, <2>2, <2>3, <2>4 DEF Next
<1> QED
  BY <1>1, <1>2, <1>3 DEF ParseInv

-----------------------------------------------------------------------------
(***************************************************************************)
(* What Holds says of the elements that source_init reads.                 *)
(***************************************************************************)
LEMMA EltsFrom ==
  ASSUME NEW name \in Names, arrays[name].nelts \in Nat, NEW s, IsSeq(s),
         NEW from \in 1 .. 2, Holds(mem, arrays[name], s, from)
  PROVE  /\ SubSeq(Elts(name), from, Len(Elts(name))) = SubSeq(s, from, Len(s))
         /\ from = 1 => Elts(name) = s
<1> DEFINE e == Elts(name)
<1> DEFINE n == Len(s)
<1> DEFINE S == ToSet(s) \cup {mem[arrays[name].elts + i - 1] : i \in 1 .. n}
<1>1. n \in Nat /\ s \in Seq(S) /\ arrays[name].nelts = n
  BY DEF IsSeq, Holds
<1>2. /\ e = [i \in 1 .. n |-> mem[arrays[name].elts + i - 1]]
      /\ \A i \in from .. n : e[i] = s[i]
  BY <1>1 DEF Elts, Holds
<1>3. \A i \in 1 .. n : e[i] \in S
  BY <1>1, <1>2
<1> HIDE DEF e, S
<1>4. e \in Seq(S) /\ Len(e) = n
  BY <1>1, <1>2, <1>3
<1> HIDE DEF n
<1>5. from = 1 => e = s
  BY <1>1, <1>2, <1>4 DEF n
<1>6. SubSeq(e, from, n) = SubSeq(s, from, n)
  <2>1. SubSeq(e, from, n) = [i \in 1 .. n - from + 1 |-> e[from + i - 1]]
    BY <1>1, <1>4
  <2>2. SubSeq(s, from, n) = [i \in 1 .. n - from + 1 |-> s[from + i - 1]]
    BY <1>1
  <2>3. \A i \in 1 .. n - from + 1 : from + i - 1 \in from .. n
    BY <1>1
  <2> QED
    BY <1>2, <2>1, <2>2, <2>3
<1> QED
  BY <1>4, <1>5, <1>6 DEF e, n

LEMMA ArraysKeepThem ==
  ASSUME ParseInv
  PROVE  ArraysKeepRanges
<1>1. CASE Unloaded
  <2>1. /\ arrays["imports"].nelts = 0 /\ arrays["comments"].nelts = 0 /\ arrays["strings"].nelts = 0
        /\ pushed.imports = << >> /\ pushed.declares = << >> /\ pushed.strings = << >>
        /\ pushed.comments = << >> /\ pushed.definitions = << >>
    BY <1>1 DEF Unloaded, Names
  <2>2. Elts("imports") = << >> /\ Elts("comments") = << >> /\ Elts("strings") = << >>
    BY <2>1 DEF Elts
  <2> QED
    BY <2>1, <2>2 DEF ArraysKeepRanges
<1>2. CASE Loaded
  <2>1. Laid(arrays, last) /\ PushedType /\ Filled
    BY <1>2 DEF Loaded
  <2>2. \A name \in Names : arrays[name].nelts \in Nat
    BY <2>1 DEF Laid
  <2>3. /\ IsSeq(pushed.comments) /\ IsSeq(pushed.strings)
        /\ IsSeq(pushed.imports) /\ IsSeq(pushed.declares)
    BY <2>1 DEF PushedType, Kinds, Names
  <2>4. PICK imports : imports = pushed.imports \o pushed.declares
    OBVIOUS
  <2>5. IsSeq(imports)
    BY <2>3, <2>4, Joined
  <2>6. 1 \in 1 .. 2 /\ Kept \in 1 .. 2
    BY DEF Kept
  <2>7. Elts("imports") = pushed.imports \o pushed.declares
    <3>1. Holds(mem, arrays["imports"], imports, 1) /\ "imports" \in Names
      BY <2>1, <2>4 DEF Filled, Names
    <3> QED
      BY <2>2, <2>4, <2>5, <2>6, <3>1, EltsFrom
  <2>8. Elts("strings") = pushed.strings
    <3>1. Holds(mem, arrays["strings"], pushed.strings, 1) /\ "strings" \in Names
      BY <2>1 DEF Filled, Names
    <3> QED
      BY <2>2, <2>3, <2>6, <3>1, EltsFrom
  <2>9. SubSeq(Elts("comments"), Kept, Len(Elts("comments")))
          = SubSeq(pushed.comments, Kept, Len(pushed.comments))
    <3>1. Holds(mem, arrays["comments"], pushed.comments, Kept) /\ "comments" \in Names
      BY <2>1 DEF Filled, Names
    <3> QED
      BY <2>2, <2>3, <2>6, <3>1, EltsFrom
  <2>10. pushed.definitions # << >> =>
           mem[arrays.imports.elts + arrays.imports.nelts] = Last(pushed.definitions)
    BY <2>1 DEF Filled
  <2> QED
    BY <2>7, <2>8, <2>9, <2>10 DEF ArraysKeepRanges, Kept
<1> QED
  BY <1>1, <1>2 DEF ParseInv

(***************************************************************************)
(* Whatever a file holds and however many elements an array is created     *)
(* with, the arrays of source_init hold every range that source_parse      *)
(* pushed on them, although they grow and move in one pool and classes are *)
(* pushed on an array of smaller elements (rapc.c, 237 to 358).            *)
(***************************************************************************)
THEOREM RangesAreKept == Spec => []ArraysKeepRanges
<1>1. Init => ParseInv
  BY InitParse
<1>2. ParseInv /\ [Next]_vars => ParseInv'
  BY ParseStep
<1>3. ParseInv => ArraysKeepRanges
  BY ArraysKeepThem
<1> QED
  BY <1>1, <1>2, <1>3, PTL DEF Spec

-----------------------------------------------------------------------------
(***************************************************************************)
(* Induction over the places of a text: a set of places has a least one,   *)
(* what goes on from each place to the next holds up to the end, and a     *)
(* function that is defined from each place to the next exists.            *)
(***************************************************************************)
\* A set of numbers has a least one.
LEMMA LeastElement == ASSUME NEW T, T \subseteq Nat, T # {} PROVE \E m \in T : \A k \in T : m <= k
<1> DEFINE R == OpToRel(<, Nat)
<1>1. IsWellFoundedOn(R, Nat)
  BY NatLessThanWellFounded
<1> HIDE DEF R
<1>2. PICK m \in T : \A k \in T : ~ (<<k, m>> \in R)
  BY <1>1, WFMin
<1>3. \A k \in T : ~ (k < m)
  BY <1>2 DEF R, OpToRel
<1> QED
  BY <1>3

\* What holds at a and goes on from each place to the next holds up to b.
LEMMA GoesOn ==
  ASSUME NEW P, NEW a \in Nat, NEW b \in Nat, a \in P, \A k \in a + 1 .. b : k - 1 \in P => k \in P
  PROVE  \A k \in a .. b : k \in P
<1> DEFINE T == {k \in a .. b : k \notin P}
<1> SUFFICES ASSUME T # {} PROVE FALSE
  OBVIOUS
<1>1. PICK m \in T : \A k \in T : m <= k
  <2>1. T \subseteq Nat
    OBVIOUS
  <2> HIDE DEF T
  <2> QED
    BY <2>1, LeastElement
<1>2. m \in a + 1 .. b /\ m - 1 \in a .. b /\ m - 1 < m
  BY <1>1
<1>3. m - 1 \notin T
  <2> HIDE DEF T
  <2> QED
    BY <1>1, <1>2
<1> QED
  BY <1>1, <1>2, <1>3

\* next[k] takes every value in S to one in S.
Closed(S, next, n) == \A k \in 1 .. n : \A y \in S : next[k][y] \in S

\* f is x and then what next makes of the value before.
Runs(S, x, next, n, f) ==
  f \in [0 .. n -> S] /\ f[0] = x /\ \A k \in 1 .. n : f[k] = next[k][f[k - 1]]

\* A function whose values are defined one after the other exists.
LEMMA Recursion ==
  ASSUME NEW S, NEW x \in S, NEW next, NEW n \in Nat, Closed(S, next, n)
  PROVE  \E f : Runs(S, x, next, n, f)
<1> USE DEF Closed
<1> DEFINE Ok(m) == \E f \in [0 .. m -> S] : f[0] = x /\ \A k \in 1 .. m : f[k] = next[k][f[k - 1]]
<1> DEFINE P == {m \in 0 .. n : Ok(m)}
<1>1. Ok(0)
  <2>1. PICK f : f = [k \in 0 .. 0 |-> x]
    OBVIOUS
  <2>2. f \in [0 .. 0 -> S] /\ f[0] = x /\ \A k \in 1 .. 0 : f[k] = next[k][f[k - 1]]
    BY <2>1
  <2> QED
    BY <2>2
<1>2. ASSUME NEW m \in 1 .. n, Ok(m - 1) PROVE Ok(m)
  <2>1. PICK f \in [0 .. m - 1 -> S] : f[0] = x /\ \A k \in 1 .. m - 1 : f[k] = next[k][f[k - 1]]
    BY <1>2
  <2> DEFINE g == [k \in 0 .. m |-> IF k = m THEN next[m][f[m - 1]] ELSE f[k]]
  <2>2. f[m - 1] \in S /\ m - 1 \in 0 .. m - 1
    BY <2>1
  <2>3. g \in [0 .. m -> S] /\ g[0] = x
    BY <2>1, <2>2
  <2>4. \A k \in 1 .. m : g[k] = next[k][g[k - 1]]
    BY <2>1, <2>2
  <2> HIDE DEF g
  <2> QED
    BY <2>3, <2>4
<1>3. 0 \in P
  <2> HIDE DEF Ok
  <2> QED
    BY <1>1
<1>4. \A k \in 0 + 1 .. n : k - 1 \in P => k \in P
  <2> HIDE DEF Ok
  <2> QED
    BY <1>2
<1>5. n \in P
  <2> HIDE DEF P
  <2>1. \A k \in 0 .. n : k \in P
    BY <1>3, <1>4, GoesOn
  <2> QED
    BY <2>1
<1> QED
  BY <1>5 DEF Runs

\* What may be open: nothing, a comment, a string or a character.
Modes == {"code"} \cup Openers
\* The ranges that a reading finds, and all that it knows behind a symbol.
Ranges == [start : Nat, end : Nat]
States == [mode : Modes, from : Nat, before : Symbols, found : [Openers -> Seq(Ranges)], clean : BOOLEAN]

\* k is l after symbol i, which is c.
ReadAs(l, i, c, k) ==
  /\ k \in States /\ k.before = c /\ (k.clean => l.clean)
  /\ k.clean /\ l.mode \in Quotes =>
       c \notin Marks /\ ~(c = "backslash" /\ l.before = "backslash")
  /\ l.mode = "code" =>
       /\ k.mode = IF c \in Openers THEN c ELSE "code"
       /\ c \in Openers => k.from = i - 1
  /\ l.mode # "code" =>
       /\ k.mode = IF Closing(l, c) THEN "code" ELSE l.mode
       /\ k.from = l.from
  /\ k.found = IF Closing(l, c)
               THEN [l.found EXCEPT ![l.mode] = Append(@, RangeOf(l.from, i))]
               ELSE l.found

\* One symbol read.
LEMMA ReadFacts ==
  ASSUME NEW l \in States, NEW i \in Nat \ {0}, NEW c \in Symbols
  PROVE  ReadAs(l, i, c, Read(l, i, c))
<1> PICK k : k = Read(l, i, c)
  OBVIOUS
<1> SUFFICES ReadAs(l, i, c, k)
  OBVIOUS
<1>1. /\ l.mode \in Modes /\ l.from \in Nat /\ l.before \in Symbols
      /\ l.found \in [Openers -> Seq(Ranges)] /\ l.clean \in BOOLEAN
      /\ l = [mode |-> l.mode, from |-> l.from, before |-> l.before, found |-> l.found, clean |-> l.clean]
  BY DEF States
<1>2. CASE l.mode = "code"
  <2>1. ~ Closing(l, c) /\ ~ Unclear(l, c) /\ l.mode \notin Quotes
    BY <1>2 DEF Closing, Unclear, Quotes
  <2>2. CASE c \in Openers
    <3>1. k = [l EXCEPT !.before = c, !.mode = c, !.from = i - 1]
      BY <1>2, <2>1, <2>2 DEF Read
    <3>2. k = [mode |-> c, from |-> i - 1, before |-> c, found |-> l.found, clean |-> l.clean]
      BY <1>1, <3>1
    <3>3. i - 1 \in Nat
      OBVIOUS
    <3> QED
      BY <1>1, <1>2, <2>1, <2>2, <3>2, <3>3 DEF States, Modes, ReadAs
  <2>3. CASE c \notin Openers
    <3>1. k = [l EXCEPT !.before = c]
      BY <1>2, <2>1, <2>3 DEF Read
    <3>2. k = [mode |-> l.mode, from |-> l.from, before |-> c, found |-> l.found, clean |-> l.clean]
      BY <1>1, <3>1
    <3> QED
      BY <1>1, <1>2, <2>1, <2>3, <3>2 DEF States, Modes, ReadAs
  <2> QED
    BY <2>2, <2>3
<1>3. CASE Closing(l, c)
  <2> DEFINE found == [l.found EXCEPT ![l.mode] = Append(@, RangeOf(l.from, i))]
  <2>1. l.mode \in Openers /\ l.mode # "code" /\ c \notin {"/*", "backslash"}
        /\ (l.mode \in Quotes => c \notin Marks)
    BY <1>3 DEF Closing, Openers, Quotes, Marks
  <2>2. k = [mode |-> "code", from |-> l.from, before |-> c, found |-> found, clean |-> l.clean]
    <3>1. ~ Unclear(l, c)
      BY <2>1 DEF Unclear
    <3>2. k = [l EXCEPT !.before = c, !.mode = "code", !.found[l.mode] = Append(@, RangeOf(l.from, i))]
      BY <1>3, <2>1, <3>1 DEF Read
    <3> QED
      BY <1>1, <3>2
  <2>3. found \in [Openers -> Seq(Ranges)]
    <3>1. RangeOf(l.from, i) \in Ranges
      BY <1>1 DEF RangeOf, Ranges
    <3>2. l.found[l.mode] \in Seq(Ranges)
      BY <1>1, <2>1
    <3>3. Append(l.found[l.mode], RangeOf(l.from, i)) \in Seq(Ranges)
      BY <3>1, <3>2
    <3> QED
      BY <1>1, <2>1, <3>3
  <2> HIDE DEF found
  <2>4. k \in States
    BY <1>1, <2>2, <2>3 DEF States, Modes
  <2> QED
    BY <1>3, <2>1, <2>2, <2>4 DEF found, ReadAs
<1>4. CASE l.mode # "code" /\ ~ Closing(l, c)
  <2>1. CASE Unclear(l, c)
    <3>1. k = [l EXCEPT !.before = c, !.clean = FALSE]
      BY <1>4, <2>1 DEF Read
    <3>2. k = [mode |-> l.mode, from |-> l.from, before |-> c, found |-> l.found, clean |-> FALSE]
      BY <1>1, <3>1
    <3> QED
      BY <1>1, <1>4, <3>2 DEF States, ReadAs
  <2>2. CASE ~ Unclear(l, c)
    <3>1. k = [l EXCEPT !.before = c]
      BY <1>4, <2>2 DEF Read
    <3>2. k = [mode |-> l.mode, from |-> l.from, before |-> c, found |-> l.found, clean |-> l.clean]
      BY <1>1, <3>1
    <3> QED
      BY <1>1, <1>4, <2>2, <3>2 DEF States, Unclear, ReadAs
  <2> QED
    BY <2>1, <2>2
<1> QED
  BY <1>2, <1>3, <1>4

-----------------------------------------------------------------------------
(***************************************************************************)
(* A reading of a clean text, symbol by symbol, without the records that   *)
(* OnePass keeps: what is open behind each symbol, where it was opened,    *)
(* and what was found.                                                     *)
(***************************************************************************)
\* What is open behind symbol i, where it was opened, and what was found up to there.
ModeAt(r, i) == r[i].mode
FromAt(r, i) == r[i].from
FoundAt(r, mode, i) == r[i].found[mode]

\* A backslash precedes symbol i.
EscapedAt(data, i) == i > 1 /\ data[i - 1] = "backslash"

\* Symbol i closes a comment or a string.
Ends(r, data, i) ==
  \/ ModeAt(r, i - 1) = "/*" /\ data[i] = "*/"
  \/ ModeAt(r, i - 1) \in Quotes /\ data[i] = ModeAt(r, i - 1) /\ ~EscapedAt(data, i)

\* What a reading of a clean text does at each symbol.
Opens(r, data, i) ==
  ModeAt(r, i - 1) = "code" =>
    /\ ModeAt(r, i) = IF data[i] \in Openers THEN data[i] ELSE "code"
    /\ data[i] \in Openers => FromAt(r, i) = i - 1

\* Where something is open: it stays so up to its end.
StaysIn(r, data, i) ==
  ModeAt(r, i - 1) # "code" =>
    /\ ModeAt(r, i) = IF Ends(r, data, i) THEN "code" ELSE ModeAt(r, i - 1)
    /\ FromAt(r, i) = FromAt(r, i - 1)

\* What ends is found.
Finds(r, data, i) ==
  \A mode \in Openers :
    FoundAt(r, mode, i) =
      IF Ends(r, data, i) /\ ModeAt(r, i - 1) = mode
      THEN Append(FoundAt(r, mode, i - 1), RangeOf(FromAt(r, i - 1), i))
      ELSE FoundAt(r, mode, i - 1)

\* No mark of a comment and no two backslashes between quotes.
ClearIn(r, data, i) ==
  ModeAt(r, i - 1) \in Quotes =>
    data[i] \notin Marks /\ ~(data[i] = "backslash" /\ EscapedAt(data, i))

\* A reading of a clean text.
Trace(r, data, n) ==
  /\ ModeAt(r, 0) = "code" /\ ModeAt(r, n) # "/*"
  /\ \A mode \in Openers : FoundAt(r, mode, 0) = << >>
  /\ \A i \in 0 .. n : ModeAt(r, i) \in Modes /\ FromAt(r, i) \in Nat
  /\ \A i \in 0 .. n, mode \in Openers : FoundAt(r, mode, i) \in Seq(Ranges)
  /\ \A i \in 1 .. n : Opens(r, data, i) /\ StaysIn(r, data, i) /\ Finds(r, data, i) /\ ClearIn(r, data, i)

\* What is read of a text.
ReadingOf(data, n) ==
  LET reading[i \in 0 .. n] == IF i = 0 THEN Unread ELSE Read(reading[i - 1], i, data[i])
  IN  reading

\* What is read of a clean text is a trace.
LEMMA ReadingIsTrace ==
  ASSUME NEW D \in Seq(Symbols), NEW n \in 0 .. Len(D), NEW r, r = ReadingOf(D, n)
  PROVE  /\ r[0] = Unread
         /\ r[n].clean /\ r[n].mode # "/*" => Trace(r, D, n)
<1>1. n \in Nat /\ \A i \in 1 .. n : D[i] \in Symbols /\ i \in Nat \ {0}
  OBVIOUS
<1> PICK x : x = Unread
  OBVIOUS
<1>2. x \in States /\ x.mode = "code" /\ x.before = "space"
      /\ \A mode \in Openers : x.found[mode] = << >>
  <2>1. [mode \in Openers |-> << >>] \in [Openers -> Seq(Ranges)]
    OBVIOUS
  <2>2. "code" \in Modes /\ "space" \in Symbols
    BY DEF Modes, Symbols
  <2> QED
    BY <2>1, <2>2 DEF Unread, States
<1> DEFINE Rec(f) == f = [i \in 0 .. n |-> IF i = 0 THEN x ELSE Read(f[i - 1], i, D[i])]
<1>3. \E f : Rec(f) /\ f \in [0 .. n -> States]
  <2> DEFINE next == [i \in 1 .. n |-> [l \in States |-> Read(l, i, D[i])]]
  <2>1. \A i \in 1 .. n : \A l \in States : next[i][l] = Read(l, i, D[i])
    OBVIOUS
  <2>2. \A i \in 1 .. n : \A l \in States : next[i][l] \in States
    <3> TAKE i \in 1 .. n
    <3> TAKE l \in States
    <3>1. ReadAs(l, i, D[i], Read(l, i, D[i]))
      BY <1>1, ReadFacts
    <3>2. Read(l, i, D[i]) \in States
      BY <3>1 DEF ReadAs
    <3> QED
      BY <2>1, <3>2
  <2> HIDE DEF next
  <2>3. Closed(States, next, n) /\ n \in Nat /\ x \in States
    BY <1>1, <1>2, <2>2 DEF Closed
  <2>4. PICK f : Runs(States, x, next, n, f)
    BY <2>3, Recursion
  <2>5. f \in [0 .. n -> States] /\ f[0] = x /\ \A k \in 1 .. n : f[k] = next[k][f[k - 1]]
    BY <2>4 DEF Runs
  <2>6. \A k \in 1 .. n : k - 1 \in 0 .. n /\ f[k - 1] \in States
    BY <1>1, <2>5
  <2>7. \A k \in 1 .. n : f[k] = Read(f[k - 1], k, D[k])
    BY <2>1, <2>5, <2>6
  <2>8. \A k \in 0 .. n : k # 0 => k \in 1 .. n
    BY <1>1
  <2>9. Rec(f)
    BY <2>5, <2>7, <2>8
  <2> QED
    BY <2>5, <2>9
<1>4. Rec(r)
  <2>1. r = CHOOSE f : Rec(f)
    BY DEF ReadingOf
  <2>2. \E f : Rec(f)
    BY <1>3
  <2>3. Rec(CHOOSE f : Rec(f))
    <3> HIDE DEF Rec
    <3> QED
      BY <2>2
  <2> HIDE DEF Rec
  <2> QED
    BY <2>1, <2>3
<1>5. r[0] = x /\ \A i \in 1 .. n : r[i] = Read(r[i - 1], i, D[i])
  <2>1. r = [i \in 0 .. n |-> IF i = 0 THEN x ELSE Read(r[i - 1], i, D[i])]
    BY <1>4
  <2> QED
    BY <2>1, <1>1
<1>6. \A i \in 1 .. n : r[i - 1] \in States => ReadAs(r[i - 1], i, D[i], r[i])
  <2> TAKE i \in 1 .. n
  <2> HAVE r[i - 1] \in States
  <2>1. ReadAs(r[i - 1], i, D[i], Read(r[i - 1], i, D[i]))
    BY <1>1, ReadFacts
  <2> QED
    BY <1>5, <2>1
<1>7. \A i \in 0 .. n : r[i] \in States
  <2> DEFINE P == {i \in 0 .. n : r[i] \in States}
  <2>1. 0 \in P /\ \A i \in 0 + 1 .. n : i - 1 \in P => i \in P
    <3>1. ASSUME NEW i \in 1 .. n, r[i - 1] \in States PROVE r[i] \in States
      BY <1>6, <3>1 DEF ReadAs
    <3>2. \A i \in 0 + 1 .. n : i - 1 \in P => i \in P
      <4> TAKE i \in 0 + 1 .. n
      <4>1. i \in 1 .. n /\ i \in 0 .. n
        BY <1>1
      <4> QED
        BY <3>1, <4>1
    <3>3. 0 \in P
      BY <1>1, <1>2, <1>5
    <3> HIDE DEF P
    <3> QED
      BY <3>2, <3>3
  <2> HIDE DEF P
  <2>2. \A i \in 0 .. n : i \in P
    BY <1>1, <2>1, GoesOn
  <2> QED
    BY <2>2 DEF P
<1>8. r[0] = Unread
  BY <1>5
<1> SUFFICES ASSUME r[n].clean, r[n].mode # "/*" PROVE Trace(r, D, n)
  BY <1>8
<1>9. r[n].clean /\ r[n].mode # "/*"
  OBVIOUS
<1>10. ASSUME NEW i \in 1 .. n
      PROVE  /\ i - 1 \in 0 .. n /\ i \in 0 .. n /\ i \in Nat \ {0} /\ D[i] \in Symbols
             /\ r[i - 1] \in States /\ ReadAs(r[i - 1], i, D[i], r[i])
  BY <1>1, <1>6, <1>7
<1>11. \A i \in 0 .. n : r[i].clean
  <2> DEFINE T == {j \in 0 .. n : r[n - j].clean}
  <2>1. 0 \in T
    BY <1>1, <1>9
  <2>2. ASSUME NEW j \in 0 + 1 .. n, j - 1 \in T PROVE j \in T
    <3> PICK i : i = n - (j - 1)
      OBVIOUS
    <3>1. i \in 1 .. n /\ n - j = i - 1
      BY <1>1
    <3>2. r[i].clean => r[i - 1].clean
      BY <3>1, <1>10 DEF ReadAs
    <3> QED
      BY <1>1, <2>2, <3>1, <3>2
  <2>3. \A j \in 0 .. n : j \in T
    <3> HIDE DEF T
    <3> QED
      BY <1>1, <2>1, <2>2, GoesOn
  <2> TAKE i \in 0 .. n
  <2>4. n - i \in 0 .. n /\ n - (n - i) = i
    BY <1>1
  <2> QED
    BY <2>3, <2>4
<1>12. \A i \in 1 .. n : r[i - 1].before = "backslash" <=> EscapedAt(D, i)
  <2> TAKE i \in 1 .. n
  <2>1. CASE i = 1
    <3>1. r[i - 1] = x
      BY <1>5, <2>1
    <3> QED
      BY <1>2, <2>1, <3>1 DEF EscapedAt
  <2>2. CASE i # 1
    <3>1. i - 1 \in 1 .. n /\ i > 1
      BY <1>1, <2>2
    <3>2. r[i - 1].before = D[i - 1]
      BY <3>1, <1>10 DEF ReadAs
    <3> QED
      BY <3>1, <3>2 DEF EscapedAt
  <2> QED
    BY <2>1, <2>2
<1>13. ASSUME NEW i \in 1 .. n
       PROVE  Opens(r, D, i) /\ StaysIn(r, D, i) /\ Finds(r, D, i) /\ ClearIn(r, D, i)
  <2> PICK l, k, c : l = r[i - 1] /\ k = r[i] /\ c = D[i]
    OBVIOUS
  <2>1. l \in States /\ ReadAs(l, i, c, k)
    BY <1>10
  <2>2. Closing(l, c) <=> Ends(r, D, i)
    BY <1>12 DEF Closing, Ends, ModeAt
  <2>3. k.clean
    BY <1>10, <1>11
  <2>4. /\ l.mode = "code" => /\ k.mode = IF c \in Openers THEN c ELSE "code"
                              /\ c \in Openers => k.from = i - 1
        /\ l.mode # "code" => /\ k.mode = IF Closing(l, c) THEN "code" ELSE l.mode
                              /\ k.from = l.from
        /\ k.found = IF Closing(l, c)
                     THEN [l.found EXCEPT ![l.mode] = Append(@, RangeOf(l.from, i))]
                     ELSE l.found
        /\ l.mode \in Quotes => c \notin Marks /\ ~(c = "backslash" /\ l.before = "backslash")
    BY <2>1, <2>3 DEF ReadAs
  <2>5. Opens(r, D, i)
    BY <2>4 DEF Opens, ModeAt, FromAt
  <2>6. StaysIn(r, D, i)
    BY <2>2, <2>4 DEF StaysIn, ModeAt, FromAt
  <2>7. ClearIn(r, D, i)
    BY <1>12, <2>4 DEF ClearIn, ModeAt
  <2>8. Finds(r, D, i)
    <3>1. l.found \in [Openers -> Seq(Ranges)]
      BY <2>1 DEF States
    <3>2. \A mode \in Openers :
            k.found[mode] = IF Closing(l, c) /\ l.mode = mode
                            THEN Append(l.found[mode], RangeOf(l.from, i)) ELSE l.found[mode]
      BY <2>4, <3>1
    <3> QED
      BY <2>2, <3>2 DEF Finds, ModeAt, FromAt, FoundAt
  <2> QED
    BY <2>5, <2>6, <2>7, <2>8
<1>14. \A i \in 0 .. n : ModeAt(r, i) \in Modes /\ FromAt(r, i) \in Nat
  BY <1>7 DEF States, ModeAt, FromAt
<1>15. \A i \in 0 .. n, mode \in Openers : FoundAt(r, mode, i) \in Seq(Ranges)
  BY <1>7 DEF States, FoundAt
<1>16. Trace(r, D, n)
  BY <1>2, <1>5, <1>9, <1>13, <1>14, <1>15 DEF Trace, ModeAt, FoundAt
<1> QED
  BY <1>16

-----------------------------------------------------------------------------
(***************************************************************************)
(* Spans of a reading: what is open was opened behind code, stays open     *)
(* until its end, and is found there.                                      *)
(***************************************************************************)
\* Symbol k opens and symbol e closes a comment, a string or a character, as q says.
Span(r, q, k, e) ==
  /\ k < e /\ ModeAt(r, k - 1) = "code" /\ ModeAt(r, e) = "code"
  /\ \A j \in k .. e - 1 : ModeAt(r, j) = q

\* What is open at j was opened behind a place where nothing was open.
Opener(r, data, q, at, j, k) ==
  /\ k \in at + 1 .. j /\ ModeAt(r, k - 1) = "code" /\ data[k] = q
  /\ \A i \in k .. j : ModeAt(r, i) = q

\* What is open at a place was opened before, behind code, and open since.
LEMMA Opened ==
  ASSUME NEW r, NEW data, NEW n \in Nat, Trace(r, data, n), NEW q \in Openers,
         NEW at \in 0 .. n, ModeAt(r, at) = "code",
         NEW j \in at .. n, ModeAt(r, j) = q
  PROVE  \E k \in at + 1 .. j : Opener(r, data, q, at, j, k)
<1>0. q # "code"
  BY DEF Openers, Quotes
<1> DEFINE P == {i \in at .. n : \A o \in Openers : ModeAt(r, i) = o =>
                   \E k \in at + 1 .. i : Opener(r, data, o, at, i, k)}
<1>1. at \in P
  BY DEF Openers, Quotes
<1>2. ASSUME NEW i \in at + 1 .. n, i - 1 \in P PROVE i \in P
  <2>1. i \in 1 .. n /\ i - 1 \in 0 .. n
    OBVIOUS
  <2>2. Opens(r, data, i) /\ StaysIn(r, data, i)
    BY <2>1 DEF Trace
  <2> SUFFICES ASSUME NEW o \in Openers, ModeAt(r, i) = o
               PROVE  \E k \in at + 1 .. i : Opener(r, data, o, at, i, k)
    OBVIOUS
  <2>3. o # "code"
    BY DEF Openers, Quotes
  <2>4. CASE ModeAt(r, i - 1) = "code"
    <3>1. data[i] = o
      BY <2>2, <2>3, <2>4 DEF Opens
    <3>2. Opener(r, data, o, at, i, i)
      BY <2>4, <3>1 DEF Opener
    <3> QED
      BY <3>2
  <2>5. CASE ModeAt(r, i - 1) # "code"
    <3>1. ModeAt(r, i - 1) = o
      BY <2>2, <2>3, <2>5 DEF StaysIn
    <3>2. PICK k \in at + 1 .. i - 1 : Opener(r, data, o, at, i - 1, k)
      BY <1>2, <3>1
    <3>3. Opener(r, data, o, at, i, k)
      BY <3>2 DEF Opener
    <3> QED
      BY <3>3
  <2> QED
    BY <2>4, <2>5
<1>3. \A i \in at .. n : i \in P
  <2> HIDE DEF P
  <2> QED
    BY <1>1, <1>2, GoesOn
<1> QED
  BY <1>3

\* Where a mode goes on while nothing ends it.
LEMMA Continues ==
  ASSUME NEW r, NEW data, NEW n \in Nat, Trace(r, data, n), NEW q \in Openers,
         NEW a \in 0 .. n, NEW b \in a .. n, ModeAt(r, a) = q,
         \A i \in a + 1 .. b : (\A j \in a .. i - 1 : ModeAt(r, j) = q) => ~ Ends(r, data, i)
  PROVE  \A i \in a .. b : ModeAt(r, i) = q /\ FromAt(r, i) = FromAt(r, a)
<1>0. q # "code"
  BY DEF Openers, Quotes
<1> DEFINE P == {i \in a .. b : \A j \in a .. i : ModeAt(r, j) = q /\ FromAt(r, j) = FromAt(r, a)}
<1>1. a \in P
  OBVIOUS
<1>2. ASSUME NEW i \in a + 1 .. b, i - 1 \in P PROVE i \in P
  <2>1. i \in 1 .. n /\ i - 1 \in a .. i - 1
    OBVIOUS
  <2>2. StaysIn(r, data, i)
    BY <2>1 DEF Trace
  <2>3. ModeAt(r, i - 1) = q /\ FromAt(r, i - 1) = FromAt(r, a)
    BY <1>2, <2>1
  <2>4. ~ Ends(r, data, i)
    BY <1>2
  <2>5. ModeAt(r, i) = q /\ FromAt(r, i) = FromAt(r, a)
    BY <1>0, <2>2, <2>3, <2>4 DEF StaysIn
  <2> QED
    BY <1>2, <2>5
<1>3. \A i \in a .. b : i \in P
  <2>1. a \in Nat /\ b \in Nat
    OBVIOUS
  <2> HIDE DEF P
  <2> QED
    BY <1>1, <1>2, <2>1, GoesOn
<1> QED
  BY <1>3

\* Nothing is found where nothing ends.
LEMMA NoneFound ==
  ASSUME NEW r, NEW data, NEW n \in Nat, Trace(r, data, n), NEW q \in Openers,
         NEW a \in 0 .. n, NEW b \in a .. n,
         \A i \in a + 1 .. b : ~ (Ends(r, data, i) /\ ModeAt(r, i - 1) = q)
  PROVE  FoundAt(r, q, b) = FoundAt(r, q, a)
<1> DEFINE P == {i \in a .. b : FoundAt(r, q, i) = FoundAt(r, q, a)}
<1>1. a \in P
  OBVIOUS
<1>2. ASSUME NEW i \in a + 1 .. b, i - 1 \in P PROVE i \in P
  <2>1. i \in 1 .. n
    OBVIOUS
  <2>2. Finds(r, data, i)
    BY <2>1 DEF Trace
  <2>3. FoundAt(r, q, i) = FoundAt(r, q, i - 1)
    BY <2>2 DEF Finds
  <2> QED
    BY <1>2, <2>3
<1>3. \A i \in a .. b : i \in P
  <2>1. a \in Nat /\ b \in Nat
    OBVIOUS
  <2> HIDE DEF P
  <2> QED
    BY <1>1, <1>2, <2>1, GoesOn
<1> QED
  BY <1>3

\* No q opens between two places.
NoOpener(r, q, a, b) ==
  \A k \in a + 1 .. b : ~ (ModeAt(r, k - 1) = "code" /\ ModeAt(r, k) = q)

\* Where no comment, string or character of a kind opens, none is open and none is found.
LEMMA NothingEnds ==
  ASSUME NEW r, NEW data, NEW n \in Nat, Trace(r, data, n), NEW q \in Openers,
         NEW a \in 0 .. n, NEW b \in a .. n, ModeAt(r, a) = "code", NoOpener(r, q, a, b)
  PROVE  /\ \A i \in a .. b : ModeAt(r, i) # q
         /\ FoundAt(r, q, b) = FoundAt(r, q, a)
<1>1. ASSUME NEW i \in a .. b, ModeAt(r, i) = q PROVE FALSE
  <2>1. i \in a .. n
    OBVIOUS
  <2>2. PICK k \in a + 1 .. i : Opener(r, data, q, a, i, k)
    BY <1>1, <2>1, Opened
  <2>3. ModeAt(r, k - 1) = "code" /\ ModeAt(r, k) = q /\ k \in a + 1 .. b
    BY <2>2 DEF Opener
  <2> QED
    BY <2>3 DEF NoOpener
<1>2. \A i \in a + 1 .. b : ModeAt(r, i - 1) # q
  BY <1>1
<1>3. FoundAt(r, q, b) = FoundAt(r, q, a)
  BY <1>2, NoneFound
<1> QED
  BY <1>1, <1>3

\* The first span of q behind a place is found next.
LEMMA NextFound ==
  ASSUME NEW r, NEW data, NEW n \in Nat, Trace(r, data, n), NEW q \in Openers,
         NEW at \in 0 .. n, ModeAt(r, at) = "code",
         NEW k \in at + 1 .. n, NEW e \in k + 1 .. n, Span(r, q, k, e), data[k] = q,
         NoOpener(r, q, at, k - 1)
  PROVE  FoundAt(r, q, e) = Append(FoundAt(r, q, at), RangeOf(k - 1, e))
<1>0. q # "code"
  BY DEF Openers, Quotes
<1>1. FoundAt(r, q, k - 1) = FoundAt(r, q, at)
  <2>1. k - 1 \in at .. n
    OBVIOUS
  <2> QED
    BY <2>1, NothingEnds
<1>2. \A i \in 1 .. n : Opens(r, data, i) /\ StaysIn(r, data, i) /\ Finds(r, data, i)
  BY DEF Trace
<1>3. ModeAt(r, k - 1) = "code" /\ ModeAt(r, e) = "code" /\ \A j \in k .. e - 1 : ModeAt(r, j) = q
  BY DEF Span
<1>4. FromAt(r, k) = k - 1 /\ FoundAt(r, q, k) = FoundAt(r, q, k - 1)
  <2>1. Opens(r, data, k) /\ Finds(r, data, k)
    BY <1>2
  <2>2. FromAt(r, k) = k - 1
    BY <1>3, <2>1 DEF Opens
  <2>3. FoundAt(r, q, k) = FoundAt(r, q, k - 1)
    BY <1>0, <1>3, <2>1 DEF Finds
  <2> QED
    BY <2>2, <2>3
<1>5. \A i \in k + 1 .. e - 1 : ~ Ends(r, data, i)
  <2> TAKE i \in k + 1 .. e - 1
  <2>1. i - 1 \in k .. e - 1 /\ i \in k .. e - 1 /\ i \in 1 .. n
    OBVIOUS
  <2>2. ModeAt(r, i - 1) = q /\ ModeAt(r, i) = q /\ StaysIn(r, data, i)
    BY <1>2, <1>3, <2>1
  <2> QED
    BY <1>0, <2>2 DEF StaysIn
<1>6. FromAt(r, e - 1) = k - 1
  <2>1. k \in 0 .. n /\ e - 1 \in k .. n /\ ModeAt(r, k) = q
    BY <1>3
  <2>2. \A i \in k .. e - 1 : ModeAt(r, i) = q /\ FromAt(r, i) = FromAt(r, k)
    BY <1>5, <2>1, Continues
  <2> QED
    BY <1>4, <2>1, <2>2
<1>7. FoundAt(r, q, e - 1) = FoundAt(r, q, k)
  <2>1. k \in 0 .. n /\ e - 1 \in k .. n
    OBVIOUS
  <2> QED
    BY <1>5, <2>1, NoneFound
<1>8. Ends(r, data, e) /\ ModeAt(r, e - 1) = q
  <2>1. e - 1 \in k .. e - 1 /\ e \in 1 .. n
    OBVIOUS
  <2>2. ModeAt(r, e - 1) = q /\ StaysIn(r, data, e)
    BY <1>2, <1>3, <2>1
  <2> QED
    BY <1>0, <1>3, <2>2 DEF StaysIn
<1>9. Finds(r, data, e)
  BY <1>2
<1> QED
  BY <1>1, <1>4, <1>6, <1>7, <1>8, <1>9 DEF Finds

-----------------------------------------------------------------------------
(***************************************************************************)
(* What pcre finds: the first place that a pattern matches, and where the  *)
(* match ends.                                                             *)
(***************************************************************************)
\* Min is the least number of a set, and Max one of its numbers.
LEMMA MinFacts ==
  ASSUME NEW T, T \subseteq Nat, T # {}
  PROVE  Min(T) \in T /\ \A j \in T : Min(T) <= j
<1>1. \E m \in T : \A j \in T : m <= j
  BY LeastElement
<1> QED
  BY <1>1 DEF Min

LEMMA MaxFacts ==
  ASSUME NEW n \in Nat, NEW T, T \subseteq 0 .. n, T # {}
  PROVE  Max(T) \in T
<1> DEFINE U == {n - j : j \in T}
<1>1. U \subseteq Nat /\ U # {}
  <2>1. \A j \in T : j \in 0 .. n /\ n - j \in Nat
    OBVIOUS
  <2> QED
    BY <2>1
<1>2. PICK m \in U : \A j \in U : m <= j
  <2> HIDE DEF U
  <2> QED
    BY <1>1, LeastElement
<1>3. PICK x \in T : m = n - x
  BY <1>2
<1>4. \A j \in T : x >= j
  <2> TAKE j \in T
  <2>1. n - j \in U /\ j \in 0 .. n /\ x \in 0 .. n
    OBVIOUS
  <2>2. n - x <= n - j
    BY <1>2, <1>3, <2>1
  <2> HIDE DEF U
  <2> QED
    BY <2>1, <2>2
<1> QED
  BY <1>4 DEF Max

\* How the first match behind from is found among those that ends tells for each place.
First(ends, from, n) ==
  LET found == {RangeOf(i - 1, ends[i]) : i \in {j \in from + 1 .. n : ends[j] # 0}}
  IN  IF found = {} THEN {NoMatch}
      ELSE {match \in found : \A other \in found : match.start <= other.start}

\* No place behind from matches, and place k is the first that does.
NothingFound(ends, from, n) == \A i \in from + 1 .. n : ends[i] = 0

FoundAtPlace(ends, from, n, k) ==
  k \in from + 1 .. n /\ ends[k] # 0 /\ \A i \in from + 1 .. k - 1 : ends[i] = 0

\* The first match is the one of the first place that has any.
LEMMA FirstFacts ==
  ASSUME NEW n \in Nat, NEW from \in Nat, NEW ends, NEW match \in First(ends, from, n)
  PROVE  \/ match = NoMatch /\ NothingFound(ends, from, n)
         \/ \E k \in from + 1 .. n :
              FoundAtPlace(ends, from, n, k) /\ match = RangeOf(k - 1, ends[k])
<1> DEFINE places == {j \in from + 1 .. n : ends[j] # 0}
<1> DEFINE found == {RangeOf(i - 1, ends[i]) : i \in places}
<1>1. match \in IF found = {} THEN {NoMatch}
                ELSE {m \in found : \A other \in found : m.start <= other.start}
  BY DEF First
<1>2. CASE places = {}
  <2>1. found = {}
    BY <1>2
  <2> HIDE DEF found
  <2>2. match = NoMatch
    BY <1>1, <2>1
  <2> QED
    BY <1>2, <2>2 DEF NothingFound
<1>3. CASE places # {}
  <2>1. found # {}
    BY <1>3
  <2>2. match \in found /\ \A other \in found : match.start <= other.start
    <3> HIDE DEF found
    <3> QED
      BY <1>1, <2>1
  <2>3. PICK k \in places : match = RangeOf(k - 1, ends[k])
    BY <2>2
  <2>4. \A i \in places : k - 1 <= i - 1
    <3> TAKE i \in places
    <3>1. RangeOf(i - 1, ends[i]) \in found
      OBVIOUS
    <3>2. match.start <= RangeOf(i - 1, ends[i]).start
      BY <2>2, <3>1
    <3> QED
      BY <2>3, <3>2 DEF RangeOf
  <2>5. k \in from + 1 .. n /\ ends[k] # 0
    OBVIOUS
  <2>6. \A i \in from + 1 .. k - 1 : ends[i] = 0
    BY <2>4, <2>5
  <2> QED
    BY <2>3, <2>5, <2>6 DEF FoundAtPlace
<1> QED
  BY <1>2, <1>3

\* The text that is searched.
Searched == SubSeq(src.content, 1, src.filesize)

\* The text that the passes search is a text, of filesize symbols.
LEMMA SearchedFacts ==
  ASSUME src.content \in Seq(Symbols), src.filesize \in 0 .. Len(src.content)
  PROVE  /\ Searched \in Seq(Symbols) /\ Len(Searched) = src.filesize /\ src.filesize \in Nat
         /\ \A i \in 1 .. src.filesize : Searched[i] = src.content[i]
BY DEF Searched

\* The ends of the matches of each pattern at each place.
CommentEnds == [i \in 1 .. src.filesize |-> CommentEnd(Searched, i)]
\* Where a match of each pattern ends at each place.
QuotedEnds(q) == [i \in 1 .. src.filesize |-> QuotedEnd(Searched, i, q)]
StatementEnds(word) == [i \in 1 .. src.filesize |-> StatementEnd(Searched, i, word)]
ClassEnds == [i \in 1 .. src.filesize |-> ClassEnd(Searched, i)]
BacketEnds == [i \in 1 .. src.filesize |-> BacketEnd(Searched, i)]

\* pcre_exec finds the first of those places.
LEMMA PcreAsFirst ==
  ASSUME src.content \in Seq(Symbols), src.filesize \in 0 .. Len(src.content), NEW from \in Nat
  PROVE  /\ PcreExec(CommentEnd, from) = First(CommentEnds, from, src.filesize)
         /\ PcreExec(DoubleQuoted, from) = First(QuotedEnds("dquote"), from, src.filesize)
         /\ PcreExec(SingleQuoted, from) = First(QuotedEnds("squote"), from, src.filesize)
         /\ PcreExec(PackageEnd, from) = First(StatementEnds("package"), from, src.filesize)
         /\ PcreExec(ImportEnd, from) = First(StatementEnds("import"), from, src.filesize)
         /\ PcreExec(ClassEnd, from) = First(ClassEnds, from, src.filesize)
         /\ PcreExec(BacketEnd, from) = First(BacketEnds, from, src.filesize)
<1> PICK t, n : t = Searched /\ n = src.filesize
  OBVIOUS
<1>1. Len(t) = n /\ n \in Nat
  BY SearchedFacts
<1>2. \A i \in from + 1 .. n : i \in 1 .. n
  BY <1>1
<1>3. PcreExec(CommentEnd, from) = First(CommentEnds, from, n)
  <2> DEFINE found == {RangeOf(i - 1, CommentEnd(t, i)) :
                         i \in {j \in from + 1 .. n : CommentEnd(t, j) # 0}}
  <2>1. found = {RangeOf(i - 1, CommentEnds[i]) : i \in {j \in from + 1 .. n : CommentEnds[j] # 0}}
    BY <1>2 DEF CommentEnds
  <2> QED
    BY <1>1, <2>1 DEF PcreExec, First, Searched
<1>4. PcreExec(DoubleQuoted, from) = First(QuotedEnds("dquote"), from, n)
  <2>1. {RangeOf(i - 1, DoubleQuoted(t, i)) : i \in {j \in from + 1 .. n : DoubleQuoted(t, j) # 0}}
          = {RangeOf(i - 1, QuotedEnds("dquote")[i]) :
               i \in {j \in from + 1 .. n : QuotedEnds("dquote")[j] # 0}}
    BY <1>2 DEF QuotedEnds, DoubleQuoted
  <2> QED
    BY <1>1, <2>1 DEF PcreExec, First, Searched
<1>5. PcreExec(SingleQuoted, from) = First(QuotedEnds("squote"), from, n)
  <2>1. {RangeOf(i - 1, SingleQuoted(t, i)) : i \in {j \in from + 1 .. n : SingleQuoted(t, j) # 0}}
          = {RangeOf(i - 1, QuotedEnds("squote")[i]) :
               i \in {j \in from + 1 .. n : QuotedEnds("squote")[j] # 0}}
    BY <1>2 DEF QuotedEnds, SingleQuoted
  <2> QED
    BY <1>1, <2>1 DEF PcreExec, First, Searched
<1>6. PcreExec(PackageEnd, from) = First(StatementEnds("package"), from, n)
  <2>1. {RangeOf(i - 1, PackageEnd(t, i)) : i \in {j \in from + 1 .. n : PackageEnd(t, j) # 0}}
          = {RangeOf(i - 1, StatementEnds("package")[i]) :
               i \in {j \in from + 1 .. n : StatementEnds("package")[j] # 0}}
    BY <1>2 DEF StatementEnds, PackageEnd
  <2> QED
    BY <1>1, <2>1 DEF PcreExec, First, Searched
<1>7. PcreExec(ImportEnd, from) = First(StatementEnds("import"), from, n)
  <2>1. {RangeOf(i - 1, ImportEnd(t, i)) : i \in {j \in from + 1 .. n : ImportEnd(t, j) # 0}}
          = {RangeOf(i - 1, StatementEnds("import")[i]) :
               i \in {j \in from + 1 .. n : StatementEnds("import")[j] # 0}}
    BY <1>2 DEF StatementEnds, ImportEnd
  <2> QED
    BY <1>1, <2>1 DEF PcreExec, First, Searched
<1>8. PcreExec(ClassEnd, from) = First(ClassEnds, from, n)
  <2>1. {RangeOf(i - 1, ClassEnd(t, i)) : i \in {j \in from + 1 .. n : ClassEnd(t, j) # 0}}
          = {RangeOf(i - 1, ClassEnds[i]) : i \in {j \in from + 1 .. n : ClassEnds[j] # 0}}
    BY <1>2 DEF ClassEnds
  <2> QED
    BY <1>1, <2>1 DEF PcreExec, First, Searched
<1>9. PcreExec(BacketEnd, from) = First(BacketEnds, from, n)
  <2>1. {RangeOf(i - 1, BacketEnd(t, i)) : i \in {j \in from + 1 .. n : BacketEnd(t, j) # 0}}
          = {RangeOf(i - 1, BacketEnds[i]) : i \in {j \in from + 1 .. n : BacketEnds[j] # 0}}
    BY <1>2 DEF BacketEnds
  <2> QED
    BY <1>1, <2>1 DEF PcreExec, First, Searched
<1> QED
  BY <1>3, <1>4, <1>5, <1>6, <1>7, <1>8, <1>9

\* What a match of each pattern at a place says of the text there.
LEMMA CommentEndFacts ==
  ASSUME NEW t \in Seq(Symbols), NEW i \in 1 .. Len(t)
  PROVE  \/ /\ CommentEnd(t, i) = 0
            /\ t[i] = "/*" => \A j \in i + 1 .. Len(t) : t[j] # "*/"
         \/ /\ CommentEnd(t, i) \in i + 1 .. Len(t) /\ t[i] = "/*" /\ t[CommentEnd(t, i)] = "*/"
            /\ \A j \in i + 1 .. CommentEnd(t, i) - 1 : t[j] # "*/"
<1> DEFINE ends == {j \in i + 1 .. Len(t) : t[j] = "*/"}
<1>1. CommentEnd(t, i) = IF t[i] = "/*" THEN (IF ends = {} THEN 0 ELSE Min(ends)) ELSE 0
  BY DEF CommentEnd, Closest
<1>2. CASE t[i] = "/*" /\ ends # {}
  <2>1. ends \subseteq Nat
    OBVIOUS
  <2>2. Min(ends) \in ends /\ \A j \in ends : Min(ends) <= j
    <3> HIDE DEF ends
    <3> QED
      BY <1>2, <2>1, MinFacts
  <2> PICK e : e = Min(ends)
    OBVIOUS
  <2>3. e = CommentEnd(t, i) /\ e \in ends /\ \A j \in ends : e <= j
    BY <1>1, <1>2, <2>2
  <2>4. ASSUME NEW j \in i + 1 .. e - 1, t[j] = "*/" PROVE FALSE
    <3>1. e \in i + 1 .. Len(t)
      BY <2>3
    <3>2. j \in ends /\ j < e
      BY <2>4, <3>1
    <3> HIDE DEF ends
    <3> QED
      BY <2>3, <3>1, <3>2
  <2> QED
    BY <1>2, <2>3, <2>4
<1>3. CASE ~ (t[i] = "/*" /\ ends # {})
  BY <1>1, <1>3
<1> QED
  BY <1>2, <1>3

\* A string or a character ends at the next quote of its kind, on one line.
LEMMA QuotedEndFacts ==
  ASSUME NEW t \in Seq(Symbols), NEW i \in 1 .. Len(t), NEW q
  PROVE  \/ /\ QuotedEnd(t, i, q) = 0
            /\ t[i] = q => \A j \in i + 1 .. Len(t) : ~ (t[j] = q /\ OneLine(t, i, j))
         \/ /\ QuotedEnd(t, i, q) \in i + 1 .. Len(t) /\ t[i] = q /\ t[QuotedEnd(t, i, q)] = q
            /\ \A j \in i + 1 .. QuotedEnd(t, i, q) - 1 : ~ (t[j] = q /\ OneLine(t, i, j))
<1> DEFINE ends == {j \in i + 1 .. Len(t) : t[j] = q /\ OneLine(t, i, j)}
<1>1. QuotedEnd(t, i, q) = IF t[i] = q THEN (IF ends = {} THEN 0 ELSE Min(ends)) ELSE 0
  BY DEF QuotedEnd, Closest
<1>2. CASE t[i] = q /\ ends # {}
  <2>1. ends \subseteq Nat
    OBVIOUS
  <2>2. Min(ends) \in ends /\ \A j \in ends : Min(ends) <= j
    <3> HIDE DEF ends
    <3> QED
      BY <1>2, <2>1, MinFacts
  <2> PICK e : e = Min(ends)
    OBVIOUS
  <2>3. e = QuotedEnd(t, i, q) /\ e \in ends /\ \A j \in ends : e <= j
    BY <1>1, <1>2, <2>2
  <2>4. ASSUME NEW j \in i + 1 .. e - 1, t[j] = q /\ OneLine(t, i, j) PROVE FALSE
    <3>1. e \in i + 1 .. Len(t)
      BY <2>3
    <3>2. j \in ends /\ j < e
      BY <2>4, <3>1
    <3> HIDE DEF ends
    <3> QED
      BY <2>3, <3>1, <3>2
  <2> QED
    BY <1>2, <2>3, <2>4
<1>3. CASE ~ (t[i] = q /\ ends # {})
  BY <1>1, <1>3
<1> QED
  BY <1>2, <1>3

\* A package or an import begins with its word and ends in the text.
LEMMA StatementEndFacts ==
  ASSUME NEW t \in Seq(Symbols), NEW i \in 1 .. Len(t), NEW word, StatementEnd(t, i, word) # 0
  PROVE  t[i] = word /\ StatementEnd(t, i, word) \in 1 .. Len(t)
<1> DEFINE ends == {j \in i + 1 .. Len(t) : t[j] = "semicolon" /\ OneLine(t, i, j)}
<1>1. t[i] = word /\ ends # {} /\ StatementEnd(t, i, word) = Max(ends)
  BY DEF StatementEnd
<1>2. ends \subseteq 0 .. Len(t) /\ ends \subseteq 1 .. Len(t) /\ Len(t) \in Nat
  OBVIOUS
<1> HIDE DEF ends
<1>3. Max(ends) \in ends
  BY <1>1, <1>2, MaxFacts
<1> QED
  BY <1>1, <1>2, <1>3

\* A body begins with a brace and ends in the text.
LEMMA BacketEndFacts ==
  ASSUME NEW t \in Seq(Symbols), NEW i \in 1 .. Len(t), BacketEnd(t, i) # 0
  PROVE  t[i] = "lbrace" /\ BacketEnd(t, i) \in 1 .. Len(t)
<1> DEFINE depth[j \in i - 1 .. Len(t)] ==
             IF j = i - 1 THEN 0
             ELSE depth[j - 1] + (CASE t[j] = "lbrace" -> 1 [] t[j] = "rbrace" -> -1 [] OTHER -> 0)
<1> DEFINE ends == {j \in i + 1 .. Len(t) : depth[j] = 0}
<1>1. t[i] = "lbrace" /\ BacketEnd(t, i) = IF ends = {} THEN 0 ELSE Min(ends)
  BY DEF BacketEnd, Closest
<1>2. ends \subseteq Nat /\ ends \subseteq 1 .. Len(t)
  OBVIOUS
<1> HIDE DEF ends
<1>3. ends # {} => Min(ends) \in ends
  BY <1>2, MinFacts
<1> QED
  BY <1>1, <1>2, <1>3

-----------------------------------------------------------------------------
(***************************************************************************)
(* The pass over the comments (rapc.c:236-257).  Blanked: the comments up  *)
(* to a place are blank and nothing else changed, so the next match of the *)
(* pattern is the next comment that a reader meets, and no quoted text     *)
(* hides or makes one.                                                     *)
(***************************************************************************)
\* Symbol i belongs to a comment.
InComment(r, i) == ModeAt(r, i - 1) = "/*" \/ ModeAt(r, i) = "/*"

\* The text in which the comments up to a place are blank.
Blanked(r, data, text, at, n) ==
  \A i \in 1 .. n : text[i] = IF i <= at /\ InComment(r, i) THEN "space" ELSE data[i]

\* A comment that opens behind the place is one that the pattern matches.
LEMMA CommentMatches ==
  ASSUME NEW r, NEW data, NEW n \in Nat, Trace(r, data, n),
         NEW text \in Seq(Symbols), Len(text) = n,
         NEW at \in 0 .. n, Blanked(r, data, text, at, n),
         NEW k \in at + 1 .. n, data[k] = "/*", ModeAt(r, k) = "/*"
  PROVE  CommentEnd(text, k) # 0
<1>1. SUFFICES ASSUME CommentEnd(text, k) = 0 PROVE FALSE
  OBVIOUS
<1>2. text[k] = "/*" /\ \A j \in k + 1 .. n : text[j] = data[j]
  BY DEF Blanked
<1>3. \A j \in k + 1 .. n : data[j] # "*/"
  BY <1>1, <1>2, CommentEndFacts
<1>4. \A j \in k + 1 .. n : (\A i \in k .. j - 1 : ModeAt(r, i) = "/*") => ~ Ends(r, data, j)
  <2> TAKE j \in k + 1 .. n
  <2> HAVE \A i \in k .. j - 1 : ModeAt(r, i) = "/*"
  <2>1. ModeAt(r, j - 1) = "/*"
    OBVIOUS
  <2> QED
    BY <1>3, <2>1 DEF Ends, Quotes
<1>5. "/*" \in Openers /\ k \in 0 .. n /\ n \in k .. n
  BY DEF Openers
<1>6. \A i \in k .. n : ModeAt(r, i) = "/*" /\ FromAt(r, i) = FromAt(r, k)
  BY <1>4, <1>5, Continues
<1>7. ModeAt(r, n) # "/*"
  BY DEF Trace
<1> QED
  BY <1>5, <1>6, <1>7

\* Before the first match no comment opens.
LEMMA NoCommentBefore ==
  ASSUME NEW r, NEW data, NEW n \in Nat, Trace(r, data, n),
         NEW text \in Seq(Symbols), Len(text) = n,
         NEW at \in 0 .. n, Blanked(r, data, text, at, n), ModeAt(r, at) = "code",
         NEW b \in at .. n, \A i \in at + 1 .. b : CommentEnd(text, i) = 0
  PROVE  /\ NoOpener(r, "/*", at, b)
         /\ \A i \in at .. b : ModeAt(r, i) # "/*"
         /\ FoundAt(r, "/*", b) = FoundAt(r, "/*", at)
<1>1. "/*" \in Openers
  BY DEF Openers
<1>2. ASSUME NEW k \in at + 1 .. b, ModeAt(r, k - 1) = "code", ModeAt(r, k) = "/*" PROVE FALSE
  <2>1. k \in 1 .. n /\ k \in at + 1 .. n
    OBVIOUS
  <2>2. Opens(r, data, k)
    BY <2>1 DEF Trace
  <2>3. data[k] = "/*"
    BY <1>2, <2>2 DEF Opens
  <2>4. CommentEnd(text, k) # 0
    BY <1>2, <2>1, <2>3, CommentMatches
  <2> QED
    BY <2>4
<1>3. NoOpener(r, "/*", at, b)
  BY <1>2 DEF NoOpener
<1> QED
  BY <1>1, <1>3, NothingEnds

\* Where the pattern matches first a comment begins, and it ends where the match does.
LEMMA NextComment ==
  ASSUME NEW r, NEW data, NEW n \in Nat, Trace(r, data, n),
         NEW text \in Seq(Symbols), Len(text) = n,
         NEW at \in 0 .. n, Blanked(r, data, text, at, n), ModeAt(r, at) = "code",
         NEW k \in at + 1 .. n, NEW e, e = CommentEnd(text, k), e # 0,
         \A i \in at + 1 .. k - 1 : CommentEnd(text, i) = 0
  PROVE  /\ e \in k + 1 .. n /\ Span(r, "/*", k, e)
         /\ NoOpener(r, "/*", at, k - 1) /\ \A i \in at .. k - 1 : ModeAt(r, i) # "/*"
         /\ FoundAt(r, "/*", e) = Append(FoundAt(r, "/*", at), RangeOf(k - 1, e))
<1>1. "/*" \in Openers /\ k - 1 \in at .. n /\ k \in 1 .. n /\ k - 1 \in 0 .. n /\ "/*" \in Marks
  BY DEF Openers, Marks
<1>2. NoOpener(r, "/*", at, k - 1) /\ \A i \in at .. k - 1 : ModeAt(r, i) # "/*"
  BY <1>1, NoCommentBefore
<1>3. e \in k + 1 .. n /\ text[k] = "/*" /\ text[e] = "*/" /\ \A j \in k + 1 .. e - 1 : text[j] # "*/"
  <2>1. k \in 1 .. Len(text)
    BY <1>1
  <2> QED
    BY <2>1, CommentEndFacts
<1>4. \A j \in k .. n : text[j] = data[j]
  BY DEF Blanked
<1>5. ModeAt(r, k - 1) = "code"
  <2>1. ModeAt(r, k - 1) \in Modes /\ ClearIn(r, data, k)
    BY <1>1 DEF Trace
  <2>2. ModeAt(r, k - 1) \notin Quotes
    BY <1>1, <1>3, <1>4, <2>1 DEF ClearIn
  <2>3. ModeAt(r, k - 1) # "/*"
    BY <1>1, <1>2
  <2> QED
    BY <2>1, <2>2, <2>3 DEF Modes, Openers
<1>6. ModeAt(r, k) = "/*"
  <2>0. k \in k .. n
    OBVIOUS
  <2>1. Opens(r, data, k) /\ data[k] = "/*"
    BY <1>1, <1>3, <1>4, <2>0 DEF Trace
  <2> QED
    BY <1>1, <1>5, <2>1 DEF Opens
<1>7. \A j \in k .. e - 1 : ModeAt(r, j) = "/*"
  <2>1. k \in 0 .. n /\ e - 1 \in k .. n
    BY <1>1, <1>3
  <2>2. \A j \in k + 1 .. e - 1 : (\A i \in k .. j - 1 : ModeAt(r, i) = "/*") => ~ Ends(r, data, j)
    <3> TAKE j \in k + 1 .. e - 1
    <3> HAVE \A i \in k .. j - 1 : ModeAt(r, i) = "/*"
    <3>1. ModeAt(r, j - 1) = "/*" /\ j \in k .. n
      BY <1>3
    <3> QED
      BY <1>3, <1>4, <3>1 DEF Ends, Quotes
  <2>3. \A j \in k .. e - 1 : ModeAt(r, j) = "/*" /\ FromAt(r, j) = FromAt(r, k)
    BY <1>1, <1>6, <2>1, <2>2, Continues
  <2> QED
    BY <2>3
<1>8. ModeAt(r, e) = "code"
  <2>1. StaysIn(r, data, e) /\ ModeAt(r, e - 1) = "/*" /\ data[e] = "*/"
    <3>1. e \in 1 .. n /\ e \in k .. n /\ e - 1 \in k .. e - 1
      BY <1>3
    <3> QED
      BY <1>3, <1>4, <1>7, <3>1 DEF Trace
  <2> QED
    BY <2>1 DEF StaysIn, Ends
<1>9. Span(r, "/*", k, e)
  BY <1>3, <1>5, <1>7, <1>8 DEF Span
<1>10. data[k] = "/*"
  BY <1>3, <1>4
<1>11. FoundAt(r, "/*", e) = Append(FoundAt(r, "/*", at), RangeOf(k - 1, e))
  BY <1>1, <1>2, <1>3, <1>9, <1>10, NextFound
<1> QED
  BY <1>2, <1>3, <1>9, <1>11

\* With that comment blank too, the comments up to its end are.
LEMMA BlankedNext ==
  ASSUME NEW r, NEW data, NEW n \in Nat, Trace(r, data, n),
         NEW text \in Seq(Symbols), n <= Len(text),
         NEW at \in 0 .. n, Blanked(r, data, text, at, n), ModeAt(r, at) = "code",
         NEW k \in at + 1 .. n, NEW e \in k + 1 .. n, Span(r, "/*", k, e),
         \A i \in at .. k - 1 : ModeAt(r, i) # "/*"
  PROVE  Blanked(r, data, SetRange(text, RangeOf(k - 1, e)), e, n)
<1> PICK t : t = SetRange(text, RangeOf(k - 1, e))
  OBVIOUS
<1>1. \A i \in 1 .. n : t[i] = IF i \in k .. e THEN "space" ELSE text[i]
  BY DEF SetRange, RangeOf
<1>2. \A j \in k .. e - 1 : ModeAt(r, j) = "/*"
  BY DEF Span
<1>3. \A i \in k .. e : InComment(r, i)
  <2> TAKE i \in k .. e
  <2>1. i \in k .. e - 1 \/ i - 1 \in k .. e - 1
    OBVIOUS
  <2> QED
    BY <1>2, <2>1 DEF InComment
<1>4. \A i \in at + 1 .. k - 1 : ~ InComment(r, i)
  <2> TAKE i \in at + 1 .. k - 1
  <2>1. i \in at .. k - 1 /\ i - 1 \in at .. k - 1
    OBVIOUS
  <2> QED
    BY <2>1 DEF InComment
<1>5. ASSUME NEW i \in 1 .. n PROVE t[i] = IF i <= e /\ InComment(r, i) THEN "space" ELSE data[i]
  <2>1. text[i] = IF i <= at /\ InComment(r, i) THEN "space" ELSE data[i]
    BY DEF Blanked
  <2>2. CASE i <= at
    BY <1>1, <2>1, <2>2
  <2>3. CASE i \in at + 1 .. k - 1
    BY <1>1, <1>4, <2>1, <2>3
  <2>4. CASE i \in k .. e
    BY <1>1, <1>3, <2>4
  <2>5. CASE i > e
    BY <1>1, <2>1, <2>5
  <2> QED
    BY <2>2, <2>3, <2>4, <2>5
<1> QED
  BY <1>5 DEF Blanked

-----------------------------------------------------------------------------
(***************************************************************************)
(* source_replace_string (rapc.c:178-211) takes the same quotes to be open *)
(* as a reader, in a text whose comments are blank, and so masks what a    *)
(* reader finds between quotes.                                            *)
(***************************************************************************)
\* The quote that ReplaceString takes to be open behind each symbol.
OpenQuote(text, len) ==
  LET open[i \in 0 .. len] ==
        IF i = 0 THEN "none"
        ELSE OpenAfter(text[i], IF i = 1 THEN "space" ELSE text[i - 1])[open[i - 1]]
  IN  open

\* The symbol before i as ReplaceString sees it, and the quote open behind i.
BeforeIn(text, i) == IF i = 1 THEN "space" ELSE text[i - 1]

NextOpen(text, i, open) == OpenAfter(text[i], BeforeIn(text, i))[open]

\* The quote that is open behind each symbol follows from the one before.
LEMMA OpenFacts ==
  ASSUME NEW text \in Seq(Symbols), NEW n \in 0 .. Len(text), NEW o, o = OpenQuote(text, n)
  PROVE  /\ o[0] = "none"
         /\ \A i \in 1 .. n : o[i] = NextOpen(text, i, o[i - 1])
<1> DEFINE S == Quotes \cup {"none"}
<1> DEFINE Rec(f) == f = [i \in 0 .. n |-> IF i = 0 THEN "none"
                           ELSE OpenAfter(text[i], IF i = 1 THEN "space" ELSE text[i - 1])[f[i - 1]]]
<1>2. \A i \in 1 .. n : \A s \in S : NextOpen(text, i, s) \in S
  BY DEF NextOpen, OpenAfter
<1>3. \E f : Rec(f)
  <2> DEFINE next == [i \in 1 .. n |-> [s \in S |-> NextOpen(text, i, s)]]
  <2>1. \A i \in 1 .. n : \A s \in S : next[i][s] = NextOpen(text, i, s)
    OBVIOUS
  <2> HIDE DEF next
  <2>2. Closed(S, next, n) /\ n \in Nat /\ "none" \in S
    <3>1. \A i \in 1 .. n : \A s \in S : next[i][s] \in S
      <4> HIDE DEF S
      <4> QED
        BY <1>2, <2>1
    <3>2. n \in Nat /\ "none" \in S
      OBVIOUS
    <3> HIDE DEF S
    <3> QED
      BY <3>1, <3>2 DEF Closed
  <2>3. PICK f : Runs(S, "none", next, n, f)
    <3> HIDE DEF S
    <3> QED
      BY <2>2, Recursion
  <2>4. f \in [0 .. n -> S] /\ f[0] = "none" /\ \A k \in 1 .. n : f[k] = next[k][f[k - 1]]
    <3> HIDE DEF S
    <3> QED
      BY <2>3 DEF Runs
  <2>5. ASSUME NEW k \in 1 .. n
        PROVE  f[k] = OpenAfter(text[k], IF k = 1 THEN "space" ELSE text[k - 1])[f[k - 1]]
    <3>1. k - 1 \in 0 .. n
      OBVIOUS
    <3>2. f[k - 1] \in S
      <4> HIDE DEF S
      <4> QED
        BY <2>4, <3>1
    <3>3. f[k] = NextOpen(text, k, f[k - 1])
      BY <2>1, <2>4, <3>2
    <3> QED
      BY <3>3 DEF NextOpen, BeforeIn
  <2>6. \A k \in 0 .. n : k # 0 => k \in 1 .. n
    OBVIOUS
  <2>7. Rec(f)
    BY <2>4, <2>5, <2>6
  <2> QED
    BY <2>7
<1>4. Rec(o)
  <2>1. o = CHOOSE f : Rec(f)
    BY DEF OpenQuote
  <2>2. Rec(CHOOSE f : Rec(f))
    <3> HIDE DEF Rec
    <3> QED
      BY <1>3
  <2> HIDE DEF Rec
  <2> QED
    BY <2>1, <2>2
<1>5. o[0] = "none"
  BY <1>4
<1>6. \A i \in 1 .. n : o[i] = NextOpen(text, i, o[i - 1])
  <2> TAKE i \in 1 .. n
  <2>1. i \in 0 .. n /\ i # 0
    OBVIOUS
  <2> QED
    BY <1>4, <2>1 DEF NextOpen, BeforeIn
<1> QED
  BY <1>5, <1>6

\* The quote that is open in a mode.
QuoteOf(mode) == IF mode \in Quotes THEN mode ELSE "none"

\* In the text without its comments the open quote is the mode of the reading.
LEMMA OpenAsRead ==
  ASSUME NEW r, NEW data, NEW text \in Seq(Symbols), NEW n \in 0 .. Len(text), Trace(r, data, n),
         Blanked(r, data, text, n, n), NEW o, o = OpenQuote(text, n)
  PROVE  \A i \in 0 .. n : o[i] = QuoteOf(ModeAt(r, i))
<1> DEFINE P == {i \in 0 .. n : o[i] = QuoteOf(ModeAt(r, i))}
<1>1. ModeAt(r, 0) = "code"
  BY DEF Trace
<1>2. 0 \in P
  BY <1>1, OpenFacts DEF QuoteOf, Quotes
<1>3. ASSUME NEW i \in 0 + 1 .. n, i - 1 \in P PROVE i \in P
  <2>1. i \in 1 .. n /\ i - 1 \in 0 .. n
    OBVIOUS
  <2> PICK m, k, c, b : m = ModeAt(r, i - 1) /\ k = ModeAt(r, i) /\ c = data[i] /\ b = BeforeIn(text, i)
    OBVIOUS
  <2>2. o[i] = NextOpen(text, i, o[i - 1]) /\ o[i - 1] = QuoteOf(m)
    BY <1>3, <2>1, OpenFacts
  <2>3. Opens(r, data, i) /\ StaysIn(r, data, i) /\ m \in Modes
    BY <2>1 DEF Trace
  <2>4. text[i] = IF m = "/*" \/ k = "/*" THEN "space" ELSE c
    BY <2>1 DEF Blanked, InComment
  <2>5. CASE m = "/*"
    <3>1. k \in {"code", "/*"} /\ text[i] = "space"
      BY <2>3, <2>4, <2>5 DEF StaysIn
    <3> QED
      BY <2>1, <2>2, <2>5, <3>1 DEF NextOpen, OpenAfter, QuoteOf, Quotes
  <2>6. CASE m = "code"
    <3>1. k = IF c \in Openers THEN c ELSE "code"
      BY <2>3, <2>6 DEF Opens
    <3>2. o[i] = IF text[i] \in Quotes THEN text[i] ELSE "none"
      BY <2>2, <2>6 DEF NextOpen, OpenAfter, QuoteOf, Quotes
    <3>3. o[i] = QuoteOf(k)
      <4>1. CASE c \in Quotes
        BY <2>4, <2>6, <3>1, <3>2, <4>1 DEF QuoteOf, Quotes, Openers
      <4>2. CASE c \notin Quotes /\ c = "/*"
        BY <2>4, <2>6, <3>1, <3>2, <4>2 DEF QuoteOf, Quotes, Openers
      <4>3. CASE c \notin Quotes /\ c # "/*"
        BY <2>4, <2>6, <3>1, <3>2, <4>3 DEF QuoteOf, Quotes, Openers
      <4> QED
        BY <4>1, <4>2, <4>3
    <3> QED
      BY <2>1, <3>3
  <2>7. CASE m \in Quotes
    <3>1. i # 1 /\ i - 1 \in 1 .. n
      BY <1>1, <2>1, <2>7 DEF Quotes
    <3>2. ModeAt(r, i - 2) # "/*"
      <4>1. StaysIn(r, data, i - 1) /\ (i - 1) - 1 = i - 2
        BY <3>1 DEF Trace
      <4> QED
        BY <2>7, <4>1 DEF StaysIn, Quotes
    <3>3. b = data[i - 1]
      <4>1. text[i - 1] = IF i - 1 <= n /\ InComment(r, i - 1) THEN "space" ELSE data[i - 1]
        BY <3>1 DEF Blanked
      <4>2. ~ InComment(r, i - 1)
        BY <2>7, <3>1, <3>2 DEF InComment, Quotes
      <4> QED
        BY <3>1, <4>1, <4>2 DEF BeforeIn
    <3>4. Ends(r, data, i) <=> c = m /\ b # "backslash"
      BY <2>1, <2>7, <3>1, <3>3 DEF Ends, EscapedAt, Quotes
    <3>5. k = IF Ends(r, data, i) THEN "code" ELSE m
      BY <2>3, <2>7 DEF StaysIn, Quotes
    <3>6. text[i] = c
      BY <2>4, <2>7, <3>5 DEF Quotes
    <3>7. o[i] = IF c = m /\ b # "backslash" THEN "none" ELSE m
      BY <2>2, <2>7, <3>6 DEF NextOpen, OpenAfter, Closes, QuoteOf, Quotes
    <3>8. o[i] = QuoteOf(k)
      <4>1. CASE c = m /\ b # "backslash"
        BY <2>7, <3>4, <3>5, <3>7, <4>1 DEF QuoteOf, Quotes
      <4>2. CASE ~ (c = m /\ b # "backslash")
        BY <2>7, <3>4, <3>5, <3>7, <4>2 DEF QuoteOf, Quotes
      <4> QED
        BY <4>1, <4>2
    <3> QED
      BY <2>1, <3>8
  <2> QED
    BY <2>3, <2>5, <2>6, <2>7 DEF Modes, Openers
<1>4. \A i \in 0 .. n : i \in P
  <2>1. n \in Nat /\ 0 \in Nat
    OBVIOUS
  <2> HIDE DEF P
  <2> QED
    BY <1>2, <1>3, <2>1, GoesOn
<1> QED
  BY <1>4

\* Between two quotes, and neither of them.
Inside(r, i) == ModeAt(r, i - 1) \in Quotes /\ ModeAt(r, i) \in Quotes

\* The text in which comments are blank and strings are masked.
Masked(r, data, text, n) ==
  \A i \in 1 .. n :
    IF Inside(r, i) THEN text[i] \in {"dash", "underscore"}
    ELSE text[i] = IF InComment(r, i) THEN "space" ELSE data[i]

\* ReplaceString masks what is between quotes when the comments are blank.
LEMMA MaskedByReplaceString ==
  ASSUME NEW r, NEW data, NEW text \in Seq(Symbols), NEW n \in 0 .. Len(text), Trace(r, data, n),
         Blanked(r, data, text, n, n)
  PROVE  /\ Masked(r, data, ReplaceString(text, n), n)
         /\ ReplaceString(text, n) \in Seq(Symbols) /\ Len(ReplaceString(text, n)) = Len(text)
<1> PICK o : o = OpenQuote(text, n)
  OBVIOUS
<1>1. \A i \in 0 .. n : o[i] = QuoteOf(ModeAt(r, i))
  BY OpenAsRead
<1> DEFINE In(i) == i <= n /\ o[i - 1] # "none" /\ o[i] # "none"
<1> PICK t : t = ReplaceString(text, n)
  OBVIOUS
<1>2. t = [i \in DOMAIN text |-> IF ~ In(i) THEN text[i]
                                 ELSE IF text[i] = o[i - 1] THEN "dash" ELSE "underscore"]
  BY DEF ReplaceString, OpenQuote
<1>3. \A i \in 1 .. n : In(i) <=> Inside(r, i)
  <2> TAKE i \in 1 .. n
  <2>1. i \in 0 .. n /\ i - 1 \in 0 .. n /\ i <= n
    OBVIOUS
  <2> QED
    BY <1>1, <2>1 DEF Inside, QuoteOf, Quotes
<1>4. DOMAIN text = 1 .. Len(text) /\ Len(text) \in Nat /\ \A i \in 1 .. Len(text) : text[i] \in Symbols
  OBVIOUS
<1> HIDE DEF In
<1>5. t \in Seq(Symbols) /\ Len(t) = Len(text)
  <2>1. "dash" \in Symbols /\ "underscore" \in Symbols
    BY DEF Symbols
  <2>2. \A i \in 1 .. Len(text) : t[i] \in Symbols
    BY <1>2, <1>4, <2>1
  <2> QED
    BY <1>2, <1>4, <2>2
<1>6. ASSUME NEW i \in 1 .. n
      PROVE  IF Inside(r, i) THEN t[i] \in {"dash", "underscore"}
             ELSE t[i] = IF InComment(r, i) THEN "space" ELSE data[i]
  <2>1. i \in DOMAIN text /\ i <= n
    BY <1>4
  <2>2. text[i] = IF InComment(r, i) THEN "space" ELSE data[i]
    BY <2>1 DEF Blanked
  <2> QED
    BY <1>2, <1>3, <2>1, <2>2
<1> QED
  BY <1>5, <1>6 DEF Masked

-----------------------------------------------------------------------------
(***************************************************************************)
(* The passes over the strings and the characters (rapc.c:260-289) in a    *)
(* masked text: a quote of the other kind is hidden, and so the next match *)
(* is the next string a reader meets.                                      *)
(***************************************************************************)
\* What opens and is not open at a later place is a span that ends before that place.
LEMMA SpanEnds ==
  ASSUME NEW r, NEW data, NEW n \in Nat, Trace(r, data, n), NEW q \in Openers,
         NEW k \in 1 .. n, ModeAt(r, k - 1) = "code", ModeAt(r, k) = q,
         NEW b \in k .. n, ModeAt(r, b) # q
  PROVE  \E e \in k + 1 .. b : Span(r, q, k, e)
<1>0. q # "code"
  BY DEF Openers, Quotes
<1> DEFINE T == {j \in k .. b : ModeAt(r, j) # q}
<1>1. T \subseteq Nat /\ T # {}
  OBVIOUS
<1>2. PICK e \in T : \A j \in T : e <= j
  <2> HIDE DEF T
  <2> QED
    BY <1>1, LeastElement
<1>3. e \in k + 1 .. b /\ ModeAt(r, e) # q
  BY <1>2
<1>4. \A j \in k .. e - 1 : ModeAt(r, j) = q
  <2> TAKE j \in k .. e - 1
  <2>1. j \in k .. b /\ ~ (e <= j)
    BY <1>3
  <2> QED
    BY <1>2, <2>1
<1>5. StaysIn(r, data, e) /\ ModeAt(r, e - 1) = q
  <2>1. e \in 1 .. n /\ e - 1 \in k .. e - 1
    BY <1>3
  <2> QED
    BY <1>4, <2>1 DEF Trace
<1>6. ModeAt(r, e) = "code"
  BY <1>0, <1>3, <1>5 DEF StaysIn
<1>7. Span(r, q, k, e)
  BY <1>3, <1>4, <1>6 DEF Span
<1> QED
  BY <1>3, <1>7

\* The masked text around the ends of a string.
LEMMA MaskedSpan ==
  ASSUME NEW r, NEW data, NEW n \in Nat, Trace(r, data, n), NEW q \in Quotes,
         NEW text, Masked(r, data, text, n), NEW k \in 1 .. n, NEW e \in k + 1 .. n, Span(r, q, k, e)
  PROVE  data[k] = q /\ text[k] = q /\ text[e] = q /\ OneLine(text, k, e)
<1>0. q \in Openers /\ q # "code" /\ q # "/*" /\ q # "newline"
  BY DEF Openers, Quotes
<1>1. /\ ModeAt(r, k - 1) = "code" /\ ModeAt(r, k) = q /\ ModeAt(r, e - 1) = q /\ ModeAt(r, e) = "code"
      /\ \A j \in k + 1 .. e - 1 : ModeAt(r, j) = q /\ ModeAt(r, j - 1) = q
  <2>1. k \in k .. e - 1 /\ e - 1 \in k .. e - 1
    OBVIOUS
  <2>2. \A j \in k + 1 .. e - 1 : j \in k .. e - 1 /\ j - 1 \in k .. e - 1
    OBVIOUS
  <2> QED
    BY <2>1, <2>2 DEF Span
<1>2. Opens(r, data, k) /\ StaysIn(r, data, e) /\ e \in 1 .. n
  BY DEF Trace
<1>3. data[k] = q
  BY <1>0, <1>1, <1>2 DEF Opens
<1>4. data[e] = q
  BY <1>0, <1>1, <1>2 DEF StaysIn, Ends
<1>5. \A i \in 1 .. n : IF Inside(r, i) THEN text[i] \in {"dash", "underscore"}
                        ELSE text[i] = IF InComment(r, i) THEN "space" ELSE data[i]
  BY DEF Masked
<1>6. text[k] = q
  <2>1. ~ Inside(r, k) /\ ~ InComment(r, k)
    BY <1>0, <1>1 DEF Inside, InComment, Quotes
  <2> QED
    BY <1>3, <1>5, <2>1
<1>7. text[e] = q
  <2>1. ~ Inside(r, e) /\ ~ InComment(r, e)
    BY <1>0, <1>1 DEF Inside, InComment, Quotes
  <2> QED
    BY <1>2, <1>4, <1>5, <2>1
<1>8. \A j \in k .. e : text[j] # "newline"
  <2> TAKE j \in k .. e
  <2>1. CASE j = k \/ j = e
    BY <1>0, <1>6, <1>7, <2>1
  <2>2. CASE j \in k + 1 .. e - 1
    <3>1. Inside(r, j) /\ j \in 1 .. n
      BY <1>1, <2>2 DEF Inside
    <3>2. text[j] \in {"dash", "underscore"}
      BY <1>5, <3>1
    <3> QED
      BY <3>2
  <2> QED
    BY <2>1, <2>2
<1>9. OneLine(text, k, e)
  BY <1>8 DEF OneLine
<1> QED
  BY <1>3, <1>6, <1>7, <1>9

\* A span behind the place is one that the pattern matches.
LEMMA SpanMatches ==
  ASSUME NEW r, NEW data, NEW n \in Nat, Trace(r, data, n), NEW q \in Quotes,
         NEW text \in Seq(Symbols), Len(text) = n, Masked(r, data, text, n),
         NEW k \in 1 .. n, NEW e \in k + 1 .. n, Span(r, q, k, e)
  PROVE  QuotedEnd(text, k, q) # 0
<1>1. text[k] = q /\ text[e] = q /\ OneLine(text, k, e)
  BY MaskedSpan
<1>2. k \in 1 .. Len(text)
  OBVIOUS
<1>3. \/ QuotedEnd(text, k, q) # 0
      \/ QuotedEnd(text, k, q) = 0 /\ \A j \in k + 1 .. Len(text) : ~ (text[j] = q /\ OneLine(text, k, j))
  BY <1>1, <1>2, QuotedEndFacts
<1> QED
  BY <1>1, <1>3

\* The first match of a masked text is the next string or character that is read.
LEMMA NextQuoted ==
  ASSUME NEW r, NEW data, NEW n \in Nat, Trace(r, data, n), NEW q \in Quotes,
         NEW text \in Seq(Symbols), Len(text) = n, Masked(r, data, text, n),
         NEW at \in 0 .. n, ModeAt(r, at) = "code",
         NEW k \in at + 1 .. n, NEW e, e = QuotedEnd(text, k, q), e # 0,
         \A i \in at + 1 .. k - 1 : QuotedEnd(text, i, q) = 0
  PROVE  /\ e \in k + 1 .. n /\ ModeAt(r, e) = "code"
         /\ FoundAt(r, q, e) = Append(FoundAt(r, q, at), RangeOf(k - 1, e))
<1>0. /\ q \in Openers /\ q \in Modes /\ q # "code" /\ q # "/*" /\ q \notin {"dash", "underscore", "space"}
      /\ k - 1 \in at .. n /\ k \in 1 .. n /\ k - 1 \in 0 .. n
  BY DEF Openers, Quotes, Modes
<1>1. /\ e \in k + 1 .. n /\ text[k] = q /\ text[e] = q
      /\ \A j \in k + 1 .. e - 1 : ~ (text[j] = q /\ OneLine(text, k, j))
  <2>1. k \in 1 .. Len(text)
    BY <1>0
  <2> QED
    BY <2>1, QuotedEndFacts
<1>2. \A i \in 1 .. n : /\ IF Inside(r, i) THEN text[i] \in {"dash", "underscore"}
                           ELSE text[i] = IF InComment(r, i) THEN "space" ELSE data[i]
                        /\ Opens(r, data, i) /\ StaysIn(r, data, i)
                        /\ ModeAt(r, i) \in Modes /\ ModeAt(r, i - 1) \in Modes
  <2>1. \A i \in 1 .. n : i \in 0 .. n /\ i - 1 \in 0 .. n
    OBVIOUS
  <2> QED
    BY <2>1 DEF Masked, Trace
<1>3. ~ Inside(r, k) /\ ~ InComment(r, k) /\ data[k] = q
  BY <1>0, <1>1, <1>2
<1>4. NoOpener(r, q, at, k - 1)
  <2> SUFFICES ASSUME NEW o \in at + 1 .. k - 1, ModeAt(r, o - 1) = "code", ModeAt(r, o) = q
               PROVE  FALSE
    BY DEF NoOpener
  <2>1. \E b \in o .. k : ModeAt(r, b) # q
    <3>1. CASE ModeAt(r, k) # q
      BY <3>1
    <3>2. CASE ModeAt(r, k) = q
      <4>1. ModeAt(r, k - 1) # q
        BY <1>3, <3>2 DEF Inside
      <4>2. k - 1 \in o .. k
        OBVIOUS
      <4> QED
        BY <4>1, <4>2
    <3> QED
      BY <3>1, <3>2
  <2>2. PICK b \in o .. k : ModeAt(r, b) # q
    BY <2>1
  <2>3. o \in 1 .. n /\ b \in o .. n
    OBVIOUS
  <2>4. PICK c \in o + 1 .. b : Span(r, q, o, c)
    BY <1>0, <2>2, <2>3, SpanEnds
  <2>5. c \in o + 1 .. n
    OBVIOUS
  <2>6. QuotedEnd(text, o, q) # 0
    BY <2>3, <2>4, <2>5, SpanMatches
  <2> QED
    BY <2>6
<1>5. ModeAt(r, k - 1) = "code"
  <2>1. ModeAt(r, k - 1) # q
    <3>1. \A i \in at .. k - 1 : ModeAt(r, i) # q
      BY <1>0, <1>4, NothingEnds
    <3> QED
      BY <3>1
  <2>2. ModeAt(r, k - 1) \in {"code"} \cup Quotes
    BY <1>0, <1>2, <1>3 DEF InComment, Modes, Openers
  <2>3. ModeAt(r, k - 1) \notin Quotes
    <3> SUFFICES ASSUME ModeAt(r, k - 1) \in Quotes PROVE FALSE
      OBVIOUS
    <3>1. ModeAt(r, k) \notin Quotes
      BY <1>3 DEF Inside
    <3>2. Ends(r, data, k)
      BY <1>0, <1>2, <3>1 DEF StaysIn, Quotes
    <3> QED
      BY <1>3, <2>1, <3>2 DEF Ends, Quotes
  <2> QED
    BY <2>2, <2>3
<1>6. ModeAt(r, k) = q
  BY <1>0, <1>2, <1>3, <1>5 DEF Opens
<1>7. \A j \in k .. e - 1 : ModeAt(r, j) = q
  <2>1. k \in 0 .. n /\ e - 1 \in k .. n
    BY <1>0, <1>1
  <2>2. ASSUME NEW j \in k + 1 .. e - 1, \A i \in k .. j - 1 : ModeAt(r, i) = q, Ends(r, data, j)
        PROVE  FALSE
    <3>1. j \in 1 .. n /\ j \in k + 1 .. n /\ j - 1 \in k .. j - 1
      BY <1>1
    <3>2. ModeAt(r, j) = "code"
      BY <1>0, <1>2, <2>2, <3>1 DEF StaysIn
    <3>3. Span(r, q, k, j)
      BY <1>5, <2>2, <3>1, <3>2 DEF Span
    <3>4. text[j] = q /\ OneLine(text, k, j)
      BY <1>0, <3>1, <3>3, MaskedSpan
    <3> QED
      BY <1>1, <3>4
  <2>3. \A j \in k .. e - 1 : ModeAt(r, j) = q /\ FromAt(r, j) = FromAt(r, k)
    BY <1>0, <1>6, <2>1, <2>2, Continues
  <2> QED
    BY <2>3
<1>8. ModeAt(r, e) = "code"
  <2>1. e \in 1 .. n /\ e - 1 \in k .. e - 1
    BY <1>0, <1>1
  <2>2. ModeAt(r, e - 1) = q /\ StaysIn(r, data, e)
    BY <1>2, <1>7, <2>1
  <2>3. ~ Inside(r, e)
    BY <1>0, <1>1, <1>2, <2>1
  <2>4. ModeAt(r, e) # q
    BY <2>2, <2>3 DEF Inside
  <2> QED
    BY <1>0, <2>2, <2>4 DEF StaysIn
<1>9. Span(r, q, k, e)
  BY <1>1, <1>5, <1>7, <1>8 DEF Span
<1>10. FoundAt(r, q, e) = Append(FoundAt(r, q, at), RangeOf(k - 1, e))
  BY <1>0, <1>1, <1>3, <1>4, <1>9, NextFound
<1> QED
  BY <1>1, <1>8, <1>10

\* When nothing matches, nothing more is found.
LEMMA NoQuotedLeft ==
  ASSUME NEW r, NEW data, NEW n \in Nat, Trace(r, data, n), NEW q \in Quotes,
         NEW text \in Seq(Symbols), Len(text) = n, Masked(r, data, text, n),
         NEW at \in 0 .. n, ModeAt(r, at) = "code",
         \A i \in at + 1 .. n : QuotedEnd(text, i, q) = 0
  PROVE  FoundAt(r, q, n) = FoundAt(r, q, at)
<1>0. q \in Openers /\ q # "code"
  BY DEF Openers, Quotes
<1>1. ASSUME NEW i \in at + 1 .. n, Ends(r, data, i), ModeAt(r, i - 1) = q PROVE FALSE
  <2>1. i - 1 \in at .. n /\ i \in 1 .. n
    OBVIOUS
  <2>2. PICK k \in at + 1 .. i - 1 : Opener(r, data, q, at, i - 1, k)
    BY <1>0, <1>1, <2>1, Opened
  <2>3. ModeAt(r, k - 1) = "code" /\ \A j \in k .. i - 1 : ModeAt(r, j) = q
    BY <2>2 DEF Opener
  <2>4. ModeAt(r, i) = "code"
    <3>1. StaysIn(r, data, i)
      BY <2>1 DEF Trace
    <3> QED
      BY <1>0, <1>1, <3>1 DEF StaysIn
  <2>5. k \in 1 .. n /\ i \in k + 1 .. n
    OBVIOUS
  <2>6. Span(r, q, k, i)
    BY <2>3, <2>4, <2>5 DEF Span
  <2>7. QuotedEnd(text, k, q) # 0
    BY <2>5, <2>6, SpanMatches
  <2> QED
    BY <2>7
<1>2. n \in at .. n
  OBVIOUS
<1> QED
  BY <1>0, <1>1, <1>2, NoneFound

-----------------------------------------------------------------------------
(***************************************************************************)
(* The inductive invariant TextInv: what each pass has found up to start,  *)
(* and what the text it searches has become, in terms of a reading of the  *)
(* original text.                                                          *)
(***************************************************************************)
\* The type of the source, and the source before its file is loaded.
TextType ==
  /\ src = [filename |-> src.filename, data |-> src.data, content |-> src.content,
            filesize |-> src.filesize, package |-> src.package]
  /\ src.filename \in Files /\ start \in Nat
  /\ src.data \in Seq(Symbols) /\ src.content \in Seq(Symbols)
  /\ Len(src.content) = Len(src.data) /\ src.filesize \in 0 .. Len(src.data)
  /\ Len(src.data) < Wide => src.filesize = Len(src.data)

NotLoaded ==
  /\ src.data = << >> /\ src.filesize = 0 /\ src.package = Nothing /\ printed = << >> /\ start = 0
  /\ pushed = [comments |-> << >>, strings |-> << >>, imports |-> << >>,
               declares |-> << >>, definitions |-> << >>, words |-> << >>]

\* The words and braces that the last passes look for are in the code.
Words == {"package", "import", "class", "lbrace"}
CodeOnly(r, text, n) == \A i \in 1 .. n : text[i] \in Words => ModeAt(r, i - 1) = "code"

\* The passes over strings, and those before the text is masked.
OfStrings == {"strings", "chars"}
UpToStrings == {"load", "comments"} \cup OfStrings

\* In the comments: blank up to start, found up to start, and start is in code.
AtComments(r) ==
  pc = "comments" =>
    /\ start \in 0 .. src.filesize /\ ModeAt(r, start) = "code"
    /\ Blanked(r, src.data, src.content, start, src.filesize)
    /\ pushed.comments = FoundAt(r, "/*", start) /\ pushed.strings = << >>

\* In the strings and the characters: the text is masked, and the array holds the strings found up
\* to start, or all strings and the characters found up to start.
AtStrings(r) ==
  pc \in OfStrings =>
    /\ start \in 0 .. src.filesize /\ ModeAt(r, start) = "code"
    /\ Masked(r, src.data, src.content, src.filesize)
    /\ pushed.comments = FoundAt(r, "/*", src.filesize)
    /\ pushed.strings =
         IF pc = "strings" THEN FoundAt(r, "dquote", start)
         ELSE FoundAt(r, "dquote", src.filesize) \o FoundAt(r, "squote", start)

\* Behind them: all comments, strings and characters are found, and what the last passes look for
\* is in code.
AfterStrings(r) ==
  pc \notin UpToStrings =>
    /\ CodeOnly(r, src.content, src.filesize)
    /\ pushed.comments = FoundAt(r, "/*", src.filesize)
    /\ pushed.strings = FoundAt(r, "dquote", src.filesize) \o FoundAt(r, "squote", src.filesize)

\* What the last passes took out begins in code.
PlacesInCode(r) == \A x \in Taken : ModeAt(r, x.start) = "code"

\* What the passes have done, in terms of a reading.
ReadInv(r) == AtComments(r) /\ AtStrings(r) /\ AfterStrings(r) /\ PlacesInCode(r)

\* The texts of ranges.
Mapped(s) == [i \in DOMAIN s |-> TextAt(s[i])]

\* What is printed at the end.
PrintedInv ==
  pc = "ended" /\ ~ Strays => printed = Mapped(pushed.comments \o pushed.strings)

\* The inductive invariant.
TextInv ==
  /\ TextType /\ (pc = "load" => NotLoaded) /\ PrintedInv
  /\ Clean => \A r : r = Reading => ReadInv(r)

\* A clean text has a reading that is a trace.
LEMMA ReadingFacts ==
  ASSUME TextType
  PROVE  /\ Reading[0] = Unread
         /\ Clean => Trace(Reading, src.data, src.filesize)
<1>1. Reading = ReadingOf(src.data, Len(src.data))
  BY DEF Reading, ReadingOf
<1> PICK r, d, n : r = Reading /\ d = src.data /\ n = Len(src.data)
  OBVIOUS
<1>2. d \in Seq(Symbols) /\ n \in 0 .. Len(d) /\ r = ReadingOf(d, n)
  BY <1>1 DEF TextType
<1>3. r[0] = Unread /\ (r[n].clean /\ r[n].mode # "/*" => Trace(r, d, n))
  BY <1>2, ReadingIsTrace
<1>4. Clean => r[n].clean /\ r[n].mode # "/*" /\ n = src.filesize
  BY DEF Clean, ReadsClean, OnePass, TextType
<1> QED
  BY <1>3, <1>4

\* A reading stays the same while the data does.
LEMMA SameReading ==
  ASSUME src'.data = src.data
  PROVE  Reading' = Reading /\ (Clean' <=> Clean)
<1>1. Reading = ReadingOf(src.data, Len(src.data))
  BY DEF Reading, ReadingOf
<1>2. Reading' = ReadingOf(src'.data, Len(src'.data))
  BY DEF Reading, ReadingOf
<1>3. Reading' = Reading
  BY <1>1, <1>2
<1>4. OnePass' = OnePass
  BY <1>3 DEF OnePass
<1> QED
  BY <1>3, <1>4 DEF Clean, ReadsClean

\* The first reading of all is in the code, with nothing found.
LEMMA UnreadFacts ==
  ASSUME NEW r, r[0] = Unread
  PROVE  ModeAt(r, 0) = "code" /\ \A mode \in Openers : FoundAt(r, mode, 0) = << >>
BY DEF Unread, ModeAt, FoundAt

\* Taking out a range leaves every symbol, or makes it a space.
LEMMA SetRangeFacts ==
  ASSUME NEW text \in Seq(Symbols), NEW range
  PROVE  /\ SetRange(text, range) \in Seq(Symbols) /\ Len(SetRange(text, range)) = Len(text)
         /\ \A i \in 1 .. Len(text) : SetRange(text, range)[i] \in {"space", text[i]}
<1> PICK t : t = SetRange(text, range)
  OBVIOUS
<1>1. t = [i \in 1 .. Len(text) |-> IF i \in range.start + 1 .. range.end THEN "space" ELSE text[i]]
  BY DEF SetRange
<1>2. "space" \in Symbols
  BY DEF Symbols
<1>3. \A i \in 1 .. Len(text) : t[i] \in {"space", text[i]} /\ t[i] \in Symbols
  BY <1>1, <1>2
<1>4. t \in Seq(Symbols) /\ Len(t) = Len(text)
  BY <1>1, <1>3
<1> QED
  BY <1>3, <1>4

\* What is taken out of the text leaves no word that was not there.
LEMMA CodeOnlyStays ==
  ASSUME NEW r, NEW n \in Nat, NEW text \in Seq(Symbols), n <= Len(text), CodeOnly(r, text, n), NEW range
  PROVE  CodeOnly(r, SetRange(text, range), n)
<1>1. \A i \in 1 .. n : SetRange(text, range)[i] \in {"space", text[i]}
  BY SetRangeFacts
<1>2. "space" \notin Words
  BY DEF Words
<1> QED
  BY <1>1, <1>2 DEF CodeOnly

\* A masked text holds these words in the code only.
LEMMA MaskedCodeOnly ==
  ASSUME NEW r, NEW data, NEW n \in Nat, Trace(r, data, n), NEW text, Masked(r, data, text, n)
  PROVE  CodeOnly(r, text, n)
<1> SUFFICES ASSUME NEW i \in 1 .. n, text[i] \in Words PROVE ModeAt(r, i - 1) = "code"
  BY DEF CodeOnly
<1>1. /\ IF Inside(r, i) THEN text[i] \in {"dash", "underscore"}
         ELSE text[i] = IF InComment(r, i) THEN "space" ELSE data[i]
      /\ StaysIn(r, data, i) /\ ModeAt(r, i - 1) \in Modes
  <2>1. i - 1 \in 0 .. n
    OBVIOUS
  <2> QED
    BY <2>1 DEF Masked, Trace
<1>2. ~ Inside(r, i) /\ ~ InComment(r, i) /\ data[i] \in Words
  BY <1>1 DEF Words
<1>3. ModeAt(r, i - 1) \in Quotes => FALSE
  <2> SUFFICES ASSUME ModeAt(r, i - 1) \in Quotes PROVE FALSE
    OBVIOUS
  <2>1. Ends(r, data, i)
    BY <1>1, <1>2 DEF Inside, StaysIn, Quotes
  <2> QED
    BY <1>2, <2>1 DEF Ends, Words, Quotes
<1> QED
  BY <1>1, <1>2, <1>3 DEF InComment, Modes, Openers

(***************************************************************************)
(* What the search of each pass returns.                                   *)
(***************************************************************************)
LEMMA RangeIsMatch ==
  ASSUME NEW k \in Nat \ {0}, NEW e
  PROVE  /\ RangeOf(k - 1, e) # NoMatch
         /\ RangeOf(k - 1, e).start = k - 1 /\ RangeOf(k - 1, e).end = e
<1>1. k - 1 # -1
  OBVIOUS
<1>2. RangeOf(k - 1, e).start = k - 1 /\ NoMatch.start = -1
  BY DEF RangeOf, NoMatch
<1> QED
  BY <1>1, <1>2 DEF RangeOf

\* The text that the passes search, from its type.
LEMMA TextFacts ==
  ASSUME TextType
  PROVE  /\ src.content \in Seq(Symbols) /\ src.filesize \in 0 .. Len(src.content) /\ src.filesize \in Nat
         /\ Searched \in Seq(Symbols) /\ Len(Searched) = src.filesize
         /\ \A i \in 1 .. src.filesize : Searched[i] = src.content[i]
<1>1. src.content \in Seq(Symbols) /\ src.filesize \in 0 .. Len(src.content)
  BY DEF TextType
<1> QED
  BY <1>1, SearchedFacts

\* k is the first place behind from where ends tells of a match, which is match.
MatchAt(ends, from, n, match, k, e) ==
  /\ k \in from + 1 .. n /\ e \in 1 .. n /\ match = RangeOf(k - 1, e) /\ e = ends[k]
  /\ \A i \in from + 1 .. k - 1 : ends[i] = 0

\* A comment the pattern finds, a string or a character, and none.
LEMMA CommentMatch ==
  ASSUME TextType, NEW from \in Nat, NEW match \in PcreExec(CommentEnd, from)
  PROVE  \/ match = NoMatch /\ NothingFound(CommentEnds, from, src.filesize)
         \/ \E k, e : MatchAt(CommentEnds, from, src.filesize, match, k, e)
<1> PICK n : n = src.filesize
  OBVIOUS
<1>1. n \in Nat /\ match \in First(CommentEnds, from, n)
  BY TextFacts, PcreAsFirst
<1>2. CASE match = NoMatch /\ NothingFound(CommentEnds, from, n)
  BY <1>2
<1>3. ASSUME NEW k \in from + 1 .. n, FoundAtPlace(CommentEnds, from, n, k),
             match = RangeOf(k - 1, CommentEnds[k])
      PROVE  \E i, e : MatchAt(CommentEnds, from, n, match, i, e)
  <2> PICK e : e = CommentEnds[k]
    OBVIOUS
  <2>1. k \in 1 .. Len(Searched) /\ e = CommentEnd(Searched, k) /\ Len(Searched) = n
    BY <1>1, TextFacts DEF CommentEnds
  <2>2. e # 0 /\ \A i \in from + 1 .. k - 1 : CommentEnds[i] = 0
    BY <1>3 DEF FoundAtPlace
  <2>3. e \in 1 .. n
    <3>1. e \in k + 1 .. Len(Searched)
      BY <2>1, <2>2, TextFacts, CommentEndFacts
    <3> QED
      BY <2>1, <3>1
  <2> QED
    BY <1>3, <2>2, <2>3 DEF MatchAt
<1> QED
  BY <1>1, <1>2, <1>3, FirstFacts

LEMMA QuotedMatch ==
  ASSUME TextType, NEW from \in Nat, NEW q,
         NEW match \in First(QuotedEnds(q), from, src.filesize)
  PROVE  \/ match = NoMatch /\ NothingFound(QuotedEnds(q), from, src.filesize)
         \/ \E k, e : MatchAt(QuotedEnds(q), from, src.filesize, match, k, e)
<1> PICK n : n = src.filesize
  OBVIOUS
<1>1. n \in Nat /\ match \in First(QuotedEnds(q), from, n)
  BY TextFacts
<1>2. CASE match = NoMatch /\ NothingFound(QuotedEnds(q), from, n)
  BY <1>2
<1>3. ASSUME NEW k \in from + 1 .. n, FoundAtPlace(QuotedEnds(q), from, n, k),
             match = RangeOf(k - 1, QuotedEnds(q)[k])
      PROVE  \E i, e : MatchAt(QuotedEnds(q), from, n, match, i, e)
  <2> PICK e : e = QuotedEnds(q)[k]
    OBVIOUS
  <2>1. k \in 1 .. Len(Searched) /\ e = QuotedEnd(Searched, k, q) /\ Len(Searched) = n
    BY <1>1, TextFacts DEF QuotedEnds
  <2>2. e # 0 /\ \A i \in from + 1 .. k - 1 : QuotedEnds(q)[i] = 0
    BY <1>3 DEF FoundAtPlace
  <2>3. e \in 1 .. n
    <3>1. e \in k + 1 .. Len(Searched)
      BY <2>1, <2>2, TextFacts, QuotedEndFacts
    <3> QED
      BY <2>1, <3>1
  <2> QED
    BY <1>3, <2>2, <2>3 DEF MatchAt
<1> QED
  BY <1>1, <1>2, <1>3, FirstFacts

\* A match begins with the word that is looked for.
WordAt(match, words) ==
  match = NoMatch
    \/ \E k, e \in 1 .. src.filesize : match = RangeOf(k - 1, e) /\ src.content[k] \in words

\* A package, an import or a class is found at its word, and a body at its brace.
LEMMA StatementMatch ==
  ASSUME TextType, NEW from \in Nat, NEW word,
         NEW match \in First(StatementEnds(word), from, src.filesize)
  PROVE  WordAt(match, {word})
<1> PICK n : n = src.filesize
  OBVIOUS
<1>1. n \in Nat /\ match \in First(StatementEnds(word), from, n)
  BY TextFacts
<1>2. ASSUME NEW k \in from + 1 .. n, FoundAtPlace(StatementEnds(word), from, n, k),
             match = RangeOf(k - 1, StatementEnds(word)[k])
      PROVE  WordAt(match, {word})
  <2> PICK e : e = StatementEnds(word)[k]
    OBVIOUS
  <2>1. k \in 1 .. Len(Searched) /\ e = StatementEnd(Searched, k, word) /\ Len(Searched) = n /\ e # 0
    BY <1>1, <1>2, TextFacts DEF StatementEnds, FoundAtPlace
  <2>2. Searched[k] = word /\ e \in 1 .. n
    BY <2>1, TextFacts, StatementEndFacts
  <2>3. k \in 1 .. n /\ src.content[k] = word
    BY <2>1, <2>2, TextFacts
  <2> QED
    BY <1>2, <2>2, <2>3 DEF WordAt
<1>3. match = NoMatch => WordAt(match, {word})
  BY DEF WordAt
<1> QED
  BY <1>1, <1>2, <1>3, FirstFacts

LEMMA ClassMatch ==
  ASSUME TextType, NEW from \in Nat, NEW match \in PcreExec(ClassEnd, from)
  PROVE  WordAt(match, {"class"})
<1> PICK n : n = src.filesize
  OBVIOUS
<1>1. n \in Nat /\ match \in First(ClassEnds, from, n)
  BY TextFacts, PcreAsFirst
<1>2. ASSUME NEW k \in from + 1 .. n, FoundAtPlace(ClassEnds, from, n, k),
             match = RangeOf(k - 1, ClassEnds[k])
      PROVE  WordAt(match, {"class"})
  <2>1. k \in 1 .. n /\ k \in Nat /\ ClassEnds[k] # 0
    BY <1>1, <1>2 DEF FoundAtPlace
  <2>2. ClassEnds[k] = ClassEnd(Searched, k)
    BY <2>1 DEF ClassEnds
  <2>3. ClassEnds[k] = k /\ Searched[k] = "class"
    BY <2>1, <2>2 DEF ClassEnd
  <2>4. match = RangeOf(k - 1, k) /\ src.content[k] = "class"
    BY <1>2, <2>1, <2>3, TextFacts
  <2> QED
    BY <2>1, <2>4 DEF WordAt
<1>3. match = NoMatch => WordAt(match, {"class"})
  BY DEF WordAt
<1> QED
  BY <1>1, <1>2, <1>3, FirstFacts

LEMMA BacketMatch ==
  ASSUME TextType, NEW from \in Nat, NEW match \in PcreExec(BacketEnd, from)
  PROVE  WordAt(match, {"lbrace"})
<1> PICK n : n = src.filesize
  OBVIOUS
<1>1. n \in Nat /\ match \in First(BacketEnds, from, n)
  BY TextFacts, PcreAsFirst
<1>2. ASSUME NEW k \in from + 1 .. n, FoundAtPlace(BacketEnds, from, n, k),
             match = RangeOf(k - 1, BacketEnds[k])
      PROVE  WordAt(match, {"lbrace"})
  <2> PICK e : e = BacketEnds[k]
    OBVIOUS
  <2>1. k \in 1 .. Len(Searched) /\ e = BacketEnd(Searched, k) /\ Len(Searched) = n /\ e # 0
    BY <1>1, <1>2, TextFacts DEF BacketEnds, FoundAtPlace
  <2>2. Searched[k] = "lbrace" /\ e \in 1 .. n
    BY <2>1, TextFacts, BacketEndFacts
  <2>3. k \in 1 .. n /\ src.content[k] = "lbrace"
    BY <2>1, <2>2, TextFacts
  <2> QED
    BY <1>2, <2>2, <2>3 DEF WordAt
<1>3. match = NoMatch => WordAt(match, {"lbrace"})
  BY DEF WordAt
<1> QED
  BY <1>1, <1>2, <1>3, FirstFacts

-----------------------------------------------------------------------------
(***************************************************************************)
(* The steps of the passes.  KeepsReading: a step keeps what TextInv says  *)
(* of a reading.  First the comments.                                      *)
(***************************************************************************)
\* A masked text is a text of the same length.
LEMMA ReplaceStringType ==
  ASSUME NEW text \in Seq(Symbols), NEW n
  PROVE  ReplaceString(text, n) \in Seq(Symbols) /\ Len(ReplaceString(text, n)) = Len(text)
<1> PICK o : o = OpenQuote(text, n)
  OBVIOUS
<1> DEFINE In(i) == i <= n /\ o[i - 1] # "none" /\ o[i] # "none"
<1> PICK t : t = ReplaceString(text, n)
  OBVIOUS
<1>1. t = [i \in DOMAIN text |-> IF ~ In(i) THEN text[i]
                                 ELSE IF text[i] = o[i - 1] THEN "dash" ELSE "underscore"]
  BY DEF ReplaceString, OpenQuote
<1> HIDE DEF In
<1>2. DOMAIN text = 1 .. Len(text) /\ Len(text) \in Nat /\ \A i \in 1 .. Len(text) : text[i] \in Symbols
  OBVIOUS
<1>3. "dash" \in Symbols /\ "underscore" \in Symbols
  BY DEF Symbols
<1>4. \A i \in 1 .. Len(text) : t[i] \in Symbols
  BY <1>1, <1>2, <1>3
<1> QED
  BY <1>1, <1>2, <1>4

\* A step that changes the searched text, or not even that.
LEMMA ContentStep ==
  ASSUME TextType, NEW content, src' = [src EXCEPT !.content = content],
         content \in Seq(Symbols), Len(content) = Len(src.content), start' \in Nat
  PROVE  /\ TextType'
         /\ src'.data = src.data /\ src'.filesize = src.filesize /\ src'.package = src.package
         /\ src'.content = content
<1>1. src' = [filename |-> src.filename, data |-> src.data, content |-> content,
              filesize |-> src.filesize, package |-> src.package]
  BY DEF TextType
<1>2. /\ src'.data = src.data /\ src'.filesize = src.filesize /\ src'.package = src.package
      /\ src'.content = content /\ src'.filename = src.filename
  BY <1>1
<1>3. TextType'
  BY <1>1, <1>2 DEF TextType
<1> QED
  BY <1>2, <1>3

\* A pass pushes what it finds on one list.
LEMMA FindAllPushed ==
  ASSUME PushedType, NEW pass, NEW match, NEW array, NEW kind \in Names, NEW content,
         FindAll(pass, match, array, kind, content)
  PROVE  /\ pushed'[kind] = Append(pushed[kind], match)
         /\ \A other \in Kinds : other # kind => pushed'[other] = pushed[other]
         /\ IsSeq(pushed[kind])
<1>1. pushed' = [pushed EXCEPT ![kind] = Append(@, match)]
  BY DEF FindAll
<1> QED
  BY <1>1 DEF PushedType, Kinds, Names

\* An element more in a sequence is one more in its set.
LEMMA ToSetAppended ==
  ASSUME NEW s, IsSeq(s), NEW e
  PROVE  ToSet(Append(s, e)) = ToSet(s) \cup {e}
<1> PICK t : t = Append(s, e)
  OBVIOUS
<1>1. /\ IsSeq(t) /\ Len(t) = Len(s) + 1 /\ Len(s) \in Nat
      /\ \A i \in 1 .. Len(s) : t[i] = s[i]
      /\ t[Len(s) + 1] = e
  BY Appended
<1>2. DOMAIN t = 1 .. Len(s) + 1 /\ DOMAIN s = 1 .. Len(s)
  <2>1. s \in Seq(ToSet(s)) /\ t \in Seq(ToSet(t))
    BY <1>1 DEF IsSeq
  <2> QED
    BY <1>1, <2>1
<1>3. ToSet(t) = {t[i] : i \in 1 .. Len(s) + 1} /\ ToSet(s) = {s[i] : i \in 1 .. Len(s)}
  BY <1>2 DEF ToSet
<1>4. ASSUME NEW x PROVE x \in ToSet(t) <=> x \in ToSet(s) \cup {e}
  <2>1. CASE x \in ToSet(t)
    <3>1. PICK i \in 1 .. Len(s) + 1 : x = t[i]
      BY <1>3, <2>1
    <3>2. i \in 1 .. Len(s) \/ i = Len(s) + 1
      BY <1>1
    <3> QED
      BY <1>1, <1>3, <2>1, <3>1, <3>2
  <2>2. CASE x \in ToSet(s)
    <3>1. PICK i \in 1 .. Len(s) : x = s[i]
      BY <1>3, <2>2
    <3>2. i \in 1 .. Len(s) + 1 /\ x = t[i]
      BY <1>1, <3>1
    <3> QED
      BY <1>3, <2>2, <3>2
  <2>3. e \in ToSet(t)
    <3>1. Len(s) + 1 \in 1 .. Len(s) + 1
      BY <1>1
    <3> QED
      BY <1>1, <1>3, <3>1
  <2> QED
    BY <2>1, <2>2, <2>3
<1> QED
  BY <1>4

(***************************************************************************)
(* A step that keeps the text it is read from.                             *)
(***************************************************************************)
KeepsReading(r) ==
  /\ TextType' /\ src'.data = src.data /\ src'.filesize = src.filesize
  /\ Trace(r, src.data, src.filesize) /\ ReadInv(r) => ReadInv(r)'

\* A step that takes out no package, import or class leaves their places.
LEMMA SamePlaces ==
  ASSUME pushed'.imports = pushed.imports, pushed'.definitions = pushed.definitions,
         pushed'.words = pushed.words, src'.package = src.package, NEW r
  PROVE  PlacesInCode(r)' <=> PlacesInCode(r)
BY DEF PlacesInCode, Taken

\* The pass over comments finds the next comment a reader meets, and goes on to strings when there
\* is none.
LEMMA CommentsRead ==
  ASSUME TextType, PushedType, Comments, NEW r
  PROVE  KeepsReading(r)
<1> PICK d, t, n, at : d = src.data /\ t = src.content /\ n = src.filesize /\ at = start
  OBVIOUS
<1>1. PICK match \in PcreExec(CommentEnd, start) :
        \/ FindAll("comments", match, "comments", "comments", SetRange(src.content, match))
        \/ GoOn("comments", match, "strings", 0, ReplaceString(src.content, src.filesize))
  BY DEF Comments
<1>2. /\ pc = "comments" /\ at \in Nat /\ n \in Nat /\ t \in Seq(Symbols) /\ n <= Len(t) /\ n \in 0 .. Len(t)
      /\ Searched \in Seq(Symbols) /\ Len(Searched) = n /\ \A i \in 1 .. n : Searched[i] = t[i]
  BY TextFacts DEF Comments, TextType
<1>3. \/ match = NoMatch /\ NothingFound(CommentEnds, at, n)
      \/ \E k, e : MatchAt(CommentEnds, at, n, match, k, e)
  BY <1>2, CommentMatch
<1>4. ReadInv(r) => /\ AtComments(r) /\ PlacesInCode(r)
                    /\ at \in 0 .. n /\ ModeAt(r, at) = "code" /\ Blanked(r, d, t, at, n)
                    /\ pushed.comments = FoundAt(r, "/*", at) /\ pushed.strings = << >>
  BY <1>2 DEF ReadInv, AtComments
<1>5. Blanked(r, d, t, at, n) => Blanked(r, d, Searched, at, n)
  BY <1>2 DEF Blanked
<1>6. CASE FindAll("comments", match, "comments", "comments", SetRange(src.content, match))
  <2>1. /\ match # NoMatch /\ pc' = pc /\ start' = match.end
        /\ src' = [src EXCEPT !.content = SetRange(t, match)]
    BY <1>6 DEF FindAll
  <2>2. PICK k, e : MatchAt(CommentEnds, at, n, match, k, e)
    BY <1>3, <2>1
  <2>3. /\ k \in at + 1 .. n /\ e \in 1 .. n /\ match = RangeOf(k - 1, e) /\ e = CommentEnd(Searched, k)
        /\ match.end = e /\ e # 0
        /\ \A i \in at + 1 .. k - 1 : CommentEnd(Searched, i) = 0
    <3>1. /\ k \in at + 1 .. n /\ e \in 1 .. n /\ match = RangeOf(k - 1, e) /\ e = CommentEnds[k]
          /\ \A i \in at + 1 .. k - 1 : CommentEnds[i] = 0
      BY <2>2 DEF MatchAt
    <3>2. k \in 1 .. n /\ \A i \in at + 1 .. k - 1 : i \in 1 .. n
      BY <1>2, <3>1
    <3> QED
      BY <3>1, <3>2 DEF CommentEnds, RangeOf
  <2>4. /\ TextType' /\ src'.data = src.data /\ src'.filesize = src.filesize
        /\ src'.package = src.package /\ src'.content = SetRange(t, match)
    <3>1. SetRange(t, match) \in Seq(Symbols) /\ Len(SetRange(t, match)) = Len(src.content)
      BY <1>2, SetRangeFacts
    <3>2. start' \in Nat
      BY <2>1, <2>3
    <3> QED
      BY <2>1, <3>1, <3>2, ContentStep
  <2>5. /\ pushed'.comments = Append(pushed.comments, match) /\ pushed'.strings = pushed.strings
        /\ pushed'.imports = pushed.imports /\ pushed'.definitions = pushed.definitions
        /\ pushed'.words = pushed.words
    BY <1>6, FindAllPushed DEF Kinds, Names
  <2>6. ASSUME Trace(r, d, n), ReadInv(r) PROVE ReadInv(r)'
    <3>1. /\ e \in k + 1 .. n /\ Span(r, "/*", k, e) /\ \A i \in at .. k - 1 : ModeAt(r, i) # "/*"
          /\ FoundAt(r, "/*", e) = Append(FoundAt(r, "/*", at), RangeOf(k - 1, e))
      <4>1. Blanked(r, d, Searched, at, n) /\ ModeAt(r, at) = "code" /\ at \in 0 .. n
        BY <1>4, <1>5, <2>6
      <4> QED
        BY <1>2, <2>3, <2>6, <4>1, NextComment
    <3>2. Blanked(r, d, SetRange(t, match), e, n)
      BY <1>2, <1>4, <2>3, <2>6, <3>1, BlankedNext
    <3>3. ModeAt(r, e) = "code" /\ e \in 0 .. n
      BY <1>2, <2>3, <3>1 DEF Span
    <3>4. AtComments(r)'
      BY <1>4, <2>1, <2>3, <2>4, <2>5, <2>6, <3>1, <3>2, <3>3 DEF AtComments
    <3>5. pc' = "comments"
      BY <1>2, <2>1
    <3>6. AtStrings(r)' /\ AfterStrings(r)'
      BY <3>5 DEF AtStrings, AfterStrings, OfStrings, UpToStrings
    <3>7. PlacesInCode(r)'
      BY <1>4, <2>4, <2>5, <2>6, SamePlaces
    <3> QED
      BY <3>4, <3>6, <3>7 DEF ReadInv
  <2> QED
    BY <2>4, <2>6 DEF KeepsReading
<1>7. CASE GoOn("comments", match, "strings", 0, ReplaceString(src.content, src.filesize))
  <2> PICK masked : masked = ReplaceString(t, n)
    OBVIOUS
  <2>1. /\ start >= n \/ match = NoMatch
        /\ pc' = "strings" /\ start' = 0 /\ src' = [src EXCEPT !.content = masked]
        /\ pushed' = pushed
    BY <1>7 DEF GoOn
  <2>2. /\ TextType' /\ src'.data = src.data /\ src'.filesize = src.filesize
        /\ src'.package = src.package /\ src'.content = masked
    <3>1. masked \in Seq(Symbols) /\ Len(masked) = Len(src.content)
      BY <1>2, ReplaceStringType
    <3>2. start' \in Nat
      BY <2>1
    <3> QED
      BY <2>1, <3>1, <3>2, ContentStep
  <2>3. \A i \in at + 1 .. n : CommentEnd(Searched, i) = 0
    <3>1. CASE start >= n
      BY <1>2, <3>1
    <3>2. CASE match = NoMatch
      <4>1. NothingFound(CommentEnds, at, n)
        <5> SUFFICES ASSUME NEW k, NEW e, MatchAt(CommentEnds, at, n, match, k, e) PROVE FALSE
          BY <1>3
        <5>1. k \in at + 1 .. n /\ match = RangeOf(k - 1, e)
          BY DEF MatchAt
        <5> QED
          BY <1>2, <3>2, <5>1, RangeIsMatch
      <4>2. \A i \in at + 1 .. n : i \in 1 .. n
        BY <1>2
      <4> QED
        BY <4>1, <4>2 DEF NothingFound, CommentEnds
    <3> QED
      BY <2>1, <3>1, <3>2
  <2>4. ASSUME Trace(r, d, n), ReadInv(r) PROVE ReadInv(r)'
    <3>0. n \in at .. n /\ at \in 0 .. n
      BY <1>2, <1>4, <2>4
    <3>1. /\ \A i \in at .. n : ModeAt(r, i) # "/*"
          /\ FoundAt(r, "/*", n) = FoundAt(r, "/*", at)
      BY <1>2, <1>4, <1>5, <2>3, <2>4, <3>0, NoCommentBefore
    <3>2. Blanked(r, d, t, n, n)
      <4> SUFFICES ASSUME NEW i \in 1 .. n
                   PROVE  t[i] = IF i <= n /\ InComment(r, i) THEN "space" ELSE d[i]
        BY DEF Blanked
      <4>1. t[i] = IF i <= at /\ InComment(r, i) THEN "space" ELSE d[i]
        BY <1>4, <2>4 DEF Blanked
      <4>2. CASE i <= at
        BY <4>1, <4>2
      <4>3. CASE i > at
        <5>1. i \in at .. n /\ i - 1 \in at .. n
          BY <3>0, <4>3
        <5>2. ~ InComment(r, i)
          BY <3>1, <5>1 DEF InComment
        <5> QED
          BY <4>1, <4>3, <5>2
      <4> QED
        BY <3>0, <4>2, <4>3
    <3>3. Masked(r, d, masked, n)
      BY <1>2, <2>4, <3>2, MaskedByReplaceString
    <3>4. ModeAt(r, 0) = "code" /\ FoundAt(r, "dquote", 0) = << >>
      <4>1. "dquote" \in Openers
        BY DEF Openers, Quotes
      <4> QED
        BY <2>4, <4>1 DEF Trace
    <3>5. AtStrings(r)'
      BY <1>2, <1>4, <2>1, <2>2, <2>4, <3>1, <3>3, <3>4 DEF AtStrings
    <3>6. AtComments(r)' /\ AfterStrings(r)'
      BY <2>1 DEF AtComments, AfterStrings, OfStrings, UpToStrings
    <3>7. PlacesInCode(r)'
      BY <1>4, <2>1, <2>2, <2>4, SamePlaces
    <3> QED
      BY <3>5, <3>6, <3>7 DEF ReadInv
  <2> QED
    BY <2>2, <2>4 DEF KeepsReading
<1> QED
  BY <1>1, <1>6, <1>7

-----------------------------------------------------------------------------
(***************************************************************************)
(* The strings and the characters, which are pushed on one array.          *)
(***************************************************************************)
\* A match of the pattern is the next string or character, and no match says that none is left.
LEMMA QuotedNext ==
  ASSUME NEW r, NEW d, NEW n \in Nat, Trace(r, d, n), NEW q \in Quotes, n = src.filesize,
         Searched \in Seq(Symbols), Len(Searched) = n, Masked(r, d, Searched, n),
         NEW at \in 0 .. n, ModeAt(r, at) = "code",
         NEW match, NEW k, NEW e, MatchAt(QuotedEnds(q), at, n, match, k, e)
  PROVE  /\ match.end \in 0 .. n /\ ModeAt(r, match.end) = "code"
         /\ FoundAt(r, q, match.end) = Append(FoundAt(r, q, at), match)
<1>1. /\ k \in at + 1 .. n /\ e \in 1 .. n /\ match = RangeOf(k - 1, e) /\ e = QuotedEnds(q)[k]
      /\ \A i \in at + 1 .. k - 1 : QuotedEnds(q)[i] = 0
  BY DEF MatchAt
<1>2. k \in 1 .. n /\ \A i \in at + 1 .. k - 1 : i \in 1 .. n
  BY <1>1
<1>3. e = QuotedEnd(Searched, k, q) /\ \A i \in at + 1 .. k - 1 : QuotedEnd(Searched, i, q) = 0
  BY <1>1, <1>2 DEF QuotedEnds
<1>4. e # 0 /\ match.end = e /\ e \in 0 .. n
  BY <1>1 DEF RangeOf
<1>5. ModeAt(r, e) = "code" /\ FoundAt(r, q, e) = Append(FoundAt(r, q, at), RangeOf(k - 1, e))
  BY <1>1, <1>3, <1>4, NextQuoted
<1> QED
  BY <1>1, <1>4, <1>5

LEMMA QuotedLast ==
  ASSUME NEW r, NEW d, NEW n \in Nat, Trace(r, d, n), NEW q \in Quotes, n = src.filesize,
         Searched \in Seq(Symbols), Len(Searched) = n, Masked(r, d, Searched, n),
         NEW at \in 0 .. n, ModeAt(r, at) = "code",
         at >= n \/ NothingFound(QuotedEnds(q), at, n)
  PROVE  FoundAt(r, q, n) = FoundAt(r, q, at)
<1>1. \A i \in at + 1 .. n : QuotedEnd(Searched, i, q) = 0
  <2>1. CASE at >= n
    BY <2>1
  <2>2. CASE NothingFound(QuotedEnds(q), at, n)
    <3>1. \A i \in at + 1 .. n : i \in 1 .. n
      OBVIOUS
    <3> QED
      BY <2>2, <3>1 DEF NothingFound, QuotedEnds
  <2> QED
    BY <2>1, <2>2
<1> QED
  BY <1>1, NoQuotedLeft

\* A pass over the strings of one quote.
LEMMA QuotedPass ==
  ASSUME TextType, PushedType, NEW pass \in OfStrings, NEW next, next \notin {"load", "comments", "ended"},
         NEW q \in Quotes,
         NEW match \in First(QuotedEnds(q), start, src.filesize), pc = pass, NEW r,
         \/ FindAll(pass, match, "strings", "strings", src.content)
         \/ GoOn(pass, match, next, 0, src.content)
  PROVE  /\ TextType' /\ src'.data = src.data /\ src'.filesize = src.filesize
         /\ src'.content = src.content /\ src'.package = src.package
         /\ pushed'.imports = pushed.imports /\ pushed'.definitions = pushed.definitions
         /\ pushed'.words = pushed.words
         /\ pushed'.comments = pushed.comments
         /\ Trace(r, src.data, src.filesize) /\ AtStrings(r) =>
              \/ /\ pc' = pass /\ start' \in 0 .. src.filesize /\ ModeAt(r, start') = "code"
                 /\ pushed'.strings = Append(pushed.strings, match) /\ IsSeq(pushed.strings)
                 /\ FoundAt(r, q, start') = Append(FoundAt(r, q, start), match)
              \/ /\ pc' = next /\ start' = 0 /\ pushed'.strings = pushed.strings
                 /\ FoundAt(r, q, src.filesize) = FoundAt(r, q, start)
<1> PICK d, t, n, at : d = src.data /\ t = src.content /\ n = src.filesize /\ at = start
  OBVIOUS
<1>2. /\ at \in Nat /\ n \in Nat /\ t \in Seq(Symbols)
      /\ Searched \in Seq(Symbols) /\ Len(Searched) = n /\ \A i \in 1 .. n : Searched[i] = t[i]
  BY TextFacts DEF TextType
<1>3. \/ match = NoMatch /\ NothingFound(QuotedEnds(q), at, n)
      \/ \E k, e : MatchAt(QuotedEnds(q), at, n, match, k, e)
  BY <1>2, QuotedMatch
<1>4. AtStrings(r) => at \in 0 .. n /\ ModeAt(r, at) = "code" /\ Masked(r, d, Searched, n)
  <2> SUFFICES ASSUME AtStrings(r)
               PROVE  at \in 0 .. n /\ ModeAt(r, at) = "code" /\ Masked(r, d, Searched, n)
    OBVIOUS
  <2>1. at \in 0 .. n /\ ModeAt(r, at) = "code" /\ Masked(r, d, t, n)
    BY DEF AtStrings
  <2>2. Masked(r, d, Searched, n)
    BY <1>2, <2>1 DEF Masked
  <2> QED
    BY <2>1, <2>2
<1>5. CASE FindAll(pass, match, "strings", "strings", src.content)
  <2>1. match # NoMatch /\ pc' = pass /\ start' = match.end /\ src' = [src EXCEPT !.content = t]
    BY <1>5 DEF FindAll
  <2>2. PICK k, e : MatchAt(QuotedEnds(q), at, n, match, k, e)
    BY <1>3, <2>1
  <2>3. match.end \in Nat
    <3>1. match = RangeOf(k - 1, e) /\ e \in 1 .. n
      BY <2>2 DEF MatchAt
    <3> QED
      BY <3>1 DEF RangeOf
  <2>4. /\ TextType' /\ src'.data = src.data /\ src'.filesize = src.filesize
        /\ src'.content = src.content /\ src'.package = src.package
    BY <1>2, <2>1, <2>3, ContentStep
  <2>5. /\ pushed'.strings = Append(pushed.strings, match) /\ IsSeq(pushed.strings)
        /\ pushed'.imports = pushed.imports /\ pushed'.definitions = pushed.definitions
        /\ pushed'.words = pushed.words
        /\ pushed'.comments = pushed.comments
    BY <1>5, FindAllPushed DEF Kinds, Names
  <2>6. ASSUME Trace(r, d, n), AtStrings(r)
        PROVE  /\ match.end \in 0 .. n /\ ModeAt(r, match.end) = "code"
               /\ FoundAt(r, q, match.end) = Append(FoundAt(r, q, at), match)
    BY <1>2, <1>4, <2>2, <2>6, QuotedNext
  <2> QED
    BY <2>1, <2>4, <2>5, <2>6
<1>6. CASE GoOn(pass, match, next, 0, src.content)
  <2>1. /\ at >= n \/ match = NoMatch
        /\ pc' = next /\ start' = 0 /\ pushed' = pushed /\ src' = [src EXCEPT !.content = t]
    BY <1>6 DEF GoOn
  <2>2. /\ TextType' /\ src'.data = src.data /\ src'.filesize = src.filesize
        /\ src'.content = src.content /\ src'.package = src.package
    <3>1. start' \in Nat
      BY <2>1
    <3> QED
      BY <1>2, <2>1, <3>1, ContentStep
  <2>3. at >= n \/ NothingFound(QuotedEnds(q), at, n)
    <3> SUFFICES ASSUME match = NoMatch, NEW k, NEW e, MatchAt(QuotedEnds(q), at, n, match, k, e)
                 PROVE  FALSE
      BY <1>3, <2>1
    <3>1. k \in at + 1 .. n /\ match = RangeOf(k - 1, e)
      BY DEF MatchAt
    <3> QED
      BY <1>2, <3>1, RangeIsMatch
  <2>4. ASSUME Trace(r, d, n), AtStrings(r) PROVE FoundAt(r, q, n) = FoundAt(r, q, at)
    BY <1>2, <1>4, <2>3, <2>4, QuotedLast
  <2> QED
    BY <2>1, <2>2, <2>4
<1> QED
  BY <1>5, <1>6

\* What a reading finds are sequences.
LEMMA FoundIsSeq ==
  ASSUME NEW r, NEW d, NEW n \in Nat, Trace(r, d, n), NEW i \in 0 .. n
  PROVE  \A q \in Openers : IsSeq(FoundAt(r, q, i))
BY SeqIsSeq DEF Trace

\* The passes over strings and over characters keep the reading.
LEMMA StringsRead ==
  ASSUME TextType, PushedType, Strings, NEW r
  PROVE  KeepsReading(r)
<1> PICK d, t, n, at : d = src.data /\ t = src.content /\ n = src.filesize /\ at = start
  OBVIOUS
<1>1. PICK match \in PcreExec(DoubleQuoted, start) :
        \/ FindAll("strings", match, "strings", "strings", src.content)
        \/ GoOn("strings", match, "chars", 0, src.content)
  BY DEF Strings
<1>2. /\ pc = "strings" /\ at \in Nat /\ n \in Nat /\ n \in 0 .. n
      /\ match \in First(QuotedEnds("dquote"), start, n)
  BY TextFacts, PcreAsFirst DEF Strings, TextType
<1>3. "dquote" \in Quotes /\ "strings" \in OfStrings /\ "chars" \notin {"load", "comments", "ended"}
      /\ "dquote" \in Openers /\ "squote" \in Openers
  BY DEF Quotes, OfStrings, Openers
<1>4. /\ TextType' /\ src'.data = src.data /\ src'.filesize = src.filesize
      /\ src'.content = src.content /\ src'.package = src.package
      /\ pushed'.imports = pushed.imports /\ pushed'.definitions = pushed.definitions
      /\ pushed'.words = pushed.words
      /\ pushed'.comments = pushed.comments
      /\ Trace(r, d, n) /\ AtStrings(r) =>
           \/ /\ pc' = "strings" /\ start' \in 0 .. n /\ ModeAt(r, start') = "code"
              /\ pushed'.strings = Append(pushed.strings, match) /\ IsSeq(pushed.strings)
              /\ FoundAt(r, "dquote", start') = Append(FoundAt(r, "dquote", at), match)
           \/ /\ pc' = "chars" /\ start' = 0 /\ pushed'.strings = pushed.strings
              /\ FoundAt(r, "dquote", n) = FoundAt(r, "dquote", at)
  BY <1>1, <1>2, <1>3, QuotedPass
<1>5. ASSUME Trace(r, d, n), ReadInv(r) PROVE ReadInv(r)'
  <2>1. /\ AtStrings(r) /\ PlacesInCode(r)
        /\ pushed.strings = FoundAt(r, "dquote", at) /\ Masked(r, d, t, n)
        /\ pushed.comments = FoundAt(r, "/*", n)
    BY <1>2, <1>5 DEF ReadInv, AtStrings, OfStrings
  <2>2. AtStrings(r)'
    <3>1. CASE /\ pc' = "strings" /\ start' \in 0 .. n /\ ModeAt(r, start') = "code"
               /\ pushed'.strings = Append(pushed.strings, match)
               /\ FoundAt(r, "dquote", start') = Append(FoundAt(r, "dquote", at), match)
      BY <1>4, <2>1, <3>1 DEF AtStrings, OfStrings
    <3>2. CASE /\ pc' = "chars" /\ start' = 0 /\ pushed'.strings = pushed.strings
               /\ FoundAt(r, "dquote", n) = FoundAt(r, "dquote", at)
      <4>1. FoundAt(r, "squote", 0) = << >> /\ ModeAt(r, 0) = "code" /\ IsSeq(FoundAt(r, "dquote", n))
        BY <1>2, <1>3, <1>5, FoundIsSeq DEF Trace
      <4>2. pushed'.strings = FoundAt(r, "dquote", n) \o FoundAt(r, "squote", 0)
        BY <2>1, <3>2, <4>1, JoinedEmpty
      <4> QED
        BY <1>2, <1>4, <2>1, <3>2, <4>1, <4>2 DEF AtStrings, OfStrings
    <3> QED
      BY <1>4, <1>5, <2>1, <3>1, <3>2
  <2>3. pc' \in OfStrings
    BY <1>4, <1>5, <2>1 DEF OfStrings
  <2>4. AtComments(r)' /\ AfterStrings(r)'
    BY <2>3 DEF AtComments, AfterStrings, OfStrings, UpToStrings
  <2>5. PlacesInCode(r)'
    BY <1>4, <2>1, SamePlaces
  <2> QED
    BY <2>2, <2>4, <2>5 DEF ReadInv
<1> QED
  BY <1>4, <1>5 DEF KeepsReading

LEMMA CharsRead ==
  ASSUME TextType, PushedType, Chars, NEW r
  PROVE  KeepsReading(r)
<1> PICK d, t, n, at : d = src.data /\ t = src.content /\ n = src.filesize /\ at = start
  OBVIOUS
<1>1. PICK match \in PcreExec(SingleQuoted, start) :
        \/ FindAll("chars", match, "strings", "strings", src.content)
        \/ GoOn("chars", match, "package", 0, src.content)
  BY DEF Chars
<1>2. /\ pc = "chars" /\ at \in Nat /\ n \in Nat /\ n \in 0 .. n
      /\ match \in First(QuotedEnds("squote"), start, n)
  BY TextFacts, PcreAsFirst DEF Chars, TextType
<1>3. "squote" \in Quotes /\ "chars" \in OfStrings /\ "package" \notin {"load", "comments", "ended"}
      /\ "dquote" \in Openers /\ "squote" \in Openers
  BY DEF Quotes, OfStrings, Openers
<1>4. /\ TextType' /\ src'.data = src.data /\ src'.filesize = src.filesize
      /\ src'.content = src.content /\ src'.package = src.package
      /\ pushed'.imports = pushed.imports /\ pushed'.definitions = pushed.definitions
      /\ pushed'.words = pushed.words
      /\ pushed'.comments = pushed.comments
      /\ Trace(r, d, n) /\ AtStrings(r) =>
           \/ /\ pc' = "chars" /\ start' \in 0 .. n /\ ModeAt(r, start') = "code"
              /\ pushed'.strings = Append(pushed.strings, match) /\ IsSeq(pushed.strings)
              /\ FoundAt(r, "squote", start') = Append(FoundAt(r, "squote", at), match)
           \/ /\ pc' = "package" /\ start' = 0 /\ pushed'.strings = pushed.strings
              /\ FoundAt(r, "squote", n) = FoundAt(r, "squote", at)
  BY <1>1, <1>2, <1>3, QuotedPass
<1>5. ASSUME Trace(r, d, n), ReadInv(r) PROVE ReadInv(r)'
  <2>1. /\ AtStrings(r) /\ PlacesInCode(r) /\ at \in 0 .. n
        /\ pushed.strings = FoundAt(r, "dquote", n) \o FoundAt(r, "squote", at) /\ Masked(r, d, t, n)
        /\ pushed.comments = FoundAt(r, "/*", n)
    BY <1>2, <1>5 DEF ReadInv, AtStrings, OfStrings
  <2>2. AtStrings(r)' /\ AfterStrings(r)'
    <3>1. CASE /\ pc' = "chars" /\ start' \in 0 .. n /\ ModeAt(r, start') = "code"
               /\ pushed'.strings = Append(pushed.strings, match)
               /\ FoundAt(r, "squote", start') = Append(FoundAt(r, "squote", at), match)
      <4>1. IsSeq(FoundAt(r, "dquote", n)) /\ IsSeq(FoundAt(r, "squote", at))
        BY <1>2, <1>3, <1>5, <2>1, FoundIsSeq
      <4>2. FoundAt(r, "dquote", n) \o Append(FoundAt(r, "squote", at), match)
              = Append(FoundAt(r, "dquote", n) \o FoundAt(r, "squote", at), match)
        BY <4>1, JoinedAppend
      <4>3. pushed'.strings = FoundAt(r, "dquote", n) \o FoundAt(r, "squote", start')
        BY <2>1, <3>1, <4>2
      <4> QED
        BY <1>4, <2>1, <3>1, <4>3 DEF AtStrings, AfterStrings, OfStrings, UpToStrings
    <3>2. CASE /\ pc' = "package" /\ start' = 0 /\ pushed'.strings = pushed.strings
               /\ FoundAt(r, "squote", n) = FoundAt(r, "squote", at)
      <4>1. CodeOnly(r, t, n)
        BY <1>2, <1>5, <2>1, MaskedCodeOnly
      <4> QED
        BY <1>4, <2>1, <3>2, <4>1 DEF AtStrings, AfterStrings, OfStrings, UpToStrings
    <3> QED
      BY <1>4, <1>5, <2>1, <3>1, <3>2
  <2>3. pc' \in {"chars", "package"}
    BY <1>4, <1>5, <2>1
  <2>4. AtComments(r)'
    BY <2>3 DEF AtComments
  <2>5. PlacesInCode(r)'
    BY <1>4, <2>1, SamePlaces
  <2> QED
    BY <2>2, <2>4, <2>5 DEF ReadInv
<1> QED
  BY <1>4, <1>5 DEF KeepsReading

-----------------------------------------------------------------------------
(***************************************************************************)
(* The package, the imports and the classes: what they match is blanked or *)
(* stays, the words in the text become no more, and so each is still in    *)
(* code.                                                                   *)
(***************************************************************************)
\* The passes behind the strings.
Late == {"package", "second", "imports", "classes", "print", "ended"}

\* A place where a word begins in the code.
InCode(r, x) == x = NoMatch \/ ModeAt(r, x.start) = "code"

\* A match at a word of a masked text begins in code.
LEMMA WordInCode ==
  ASSUME TextType, NEW r, CodeOnly(r, src.content, src.filesize), NEW match, NEW words,
         words \subseteq Words, WordAt(match, words)
  PROVE  InCode(r, match)
<1>1. CASE match = NoMatch
  BY <1>1 DEF InCode
<1>2. CASE match # NoMatch
  <2>1. PICK k, e \in 1 .. src.filesize : match = RangeOf(k - 1, e) /\ src.content[k] \in words
    BY <1>2 DEF WordAt
  <2>2. match.start = k - 1 /\ ModeAt(r, k - 1) = "code"
    BY <2>1 DEF RangeOf, CodeOnly
  <2> QED
    BY <2>2 DEF InCode
<1> QED
  BY <1>1, <1>2

\* A match ends at a number.
LEMMA WordEnd ==
  ASSUME NEW match, NEW words, WordAt(match, words), match # NoMatch
  PROVE  match.end \in Nat
BY DEF WordAt, RangeOf

\* A step of the passes behind the strings.
LEMMA LateStep ==
  ASSUME NEW r, ReadInv(r), pc \in Late, pc' \in Late, src'.filesize = src.filesize,
         CodeOnly(r, src.content, src.filesize) => CodeOnly(r, src'.content, src.filesize),
         pushed'.comments = pushed.comments, pushed'.strings = pushed.strings,
         PlacesInCode(r) => PlacesInCode(r)'
  PROVE  ReadInv(r)'
<1>1. AfterStrings(r)'
  BY DEF ReadInv, AfterStrings, Late, UpToStrings, OfStrings
<1>2. AtComments(r)' /\ AtStrings(r)'
  BY DEF AtComments, AtStrings, Late, OfStrings
<1> QED
  BY <1>1, <1>2 DEF ReadInv

\* What holds in the last passes.
LEMMA LateFacts ==
  ASSUME NEW r, ReadInv(r), pc \in Late
  PROVE  CodeOnly(r, src.content, src.filesize) /\ PlacesInCode(r)
BY DEF ReadInv, AfterStrings, Late, UpToStrings, OfStrings

\* Taking out the package leaves the words that are left in code.
LEMMA PackageRead ==
  ASSUME TextType, Package, NEW r
  PROVE  KeepsReading(r)
<1>0. pc = "package" /\ pc \in Late /\ pushed' = pushed
  BY DEF Package, Late
<1>1. PICK match \in PcreExec(PackageEnd, 0) :
       \/ /\ match = NoMatch /\ pc' = "imports"
          /\ UNCHANGED <<src, start>>
       \/ /\ match # NoMatch /\ pc' = "second"
          /\ src' = [src EXCEPT !.package = match, !.content = SetRange(@, match)]
          /\ start' = match.end
  BY DEF Package
<1>2. WordAt(match, {"package"})
  <2>1. match \in First(StatementEnds("package"), 0, src.filesize)
    BY TextFacts, PcreAsFirst
  <2> QED
    BY <2>1, StatementMatch
<1>3. CASE match = NoMatch /\ pc' = "imports" /\ UNCHANGED <<src, start>>
  <2>1. TextType' /\ src' = src /\ pc' \in Late
    BY <1>3 DEF TextType, Late
  <2>2. ASSUME ReadInv(r) PROVE ReadInv(r)'
    BY <1>0, <2>1, <2>2, LateStep, SamePlaces
  <2> QED
    BY <2>1, <2>2 DEF KeepsReading
<1>4. CASE /\ match # NoMatch /\ pc' = "second"
           /\ src' = [src EXCEPT !.package = match, !.content = SetRange(@, match)]
           /\ start' = match.end
  <2> PICK t : t = SetRange(src.content, match)
    OBVIOUS
  <2>1. t \in Seq(Symbols) /\ Len(t) = Len(src.content) /\ start' \in Nat
    BY <1>2, <1>4, SetRangeFacts, WordEnd DEF TextType
  <2>2. src' = [filename |-> src.filename, data |-> src.data, content |-> t,
                filesize |-> src.filesize, package |-> match]
    BY <1>4 DEF TextType
  <2>3. /\ src'.data = src.data /\ src'.filesize = src.filesize /\ src'.package = match
        /\ src'.content = t /\ src'.filename = src.filename /\ pc' \in Late
    BY <1>4, <2>2 DEF Late
  <2>4. TextType'
    BY <2>1, <2>2, <2>3 DEF TextType
  <2>5. ASSUME ReadInv(r) PROVE ReadInv(r)'
    <3>1. CodeOnly(r, src.content, src.filesize) /\ PlacesInCode(r)
      BY <1>0, <2>5, LateFacts
    <3>2. InCode(r, match)
      BY <1>2, <3>1, WordInCode DEF Words
    <3>3. CodeOnly(r, t, src.filesize)
      BY <3>1, TextFacts, CodeOnlyStays
    <3>4. PlacesInCode(r)'
      BY <1>0, <1>4, <2>3, <3>1, <3>2 DEF PlacesInCode, Taken, InCode
    <3> QED
      BY <1>0, <2>3, <2>5, <3>3, <3>4, LateStep
  <2> QED
    BY <2>3, <2>4, <2>5 DEF KeepsReading
<1> QED
  BY <1>1, <1>3, <1>4

\* A step that only moves to another of the last passes.
LEMMA SameTextRead ==
  ASSUME TextType, UNCHANGED <<src, start, pushed>>, pc \in Late, pc' \in Late, NEW r
  PROVE  KeepsReading(r)
<1>1. TextType' /\ src' = src /\ pushed' = pushed
  BY DEF TextType
<1>2. ASSUME ReadInv(r) PROVE ReadInv(r)'
  BY <1>1, <1>2, LateStep, SamePlaces
<1> QED
  BY <1>1, <1>2 DEF KeepsReading

\* So does taking out an import, and a class with its body.
LEMMA ImportsRead ==
  ASSUME TextType, PushedType, Imports, NEW r
  PROVE  KeepsReading(r)
<1>0. pc = "imports" /\ pc \in Late
  BY DEF Imports, Late
<1>1. PICK match \in PcreExec(ImportEnd, start) :
        \/ FindAll("imports", match, "imports", "imports", SetRange(src.content, match))
        \/ GoOn("imports", match, "classes", start, src.content)
  BY DEF Imports
<1>2. WordAt(match, {"import"})
  <2>1. match \in First(StatementEnds("import"), start, src.filesize) /\ start \in Nat
    BY TextFacts, PcreAsFirst DEF TextType
  <2> QED
    BY <2>1, StatementMatch
<1>3. CASE GoOn("imports", match, "classes", start, src.content)
  <2>1. pc' = "classes" /\ start' = start /\ src' = [src EXCEPT !.content = src.content] /\ pushed' = pushed
    BY <1>3 DEF GoOn
  <2>2. src' = src
    BY <2>1 DEF TextType
  <2>3. pc' \in Late
    BY <2>1 DEF Late
  <2> QED
    BY <1>0, <2>1, <2>2, <2>3, SameTextRead
<1>4. CASE FindAll("imports", match, "imports", "imports", SetRange(src.content, match))
  <2> PICK t : t = SetRange(src.content, match)
    OBVIOUS
  <2>1. match # NoMatch /\ pc' = pc /\ start' = match.end /\ src' = [src EXCEPT !.content = t]
    BY <1>4 DEF FindAll
  <2>2. t \in Seq(Symbols) /\ Len(t) = Len(src.content) /\ start' \in Nat
    BY <1>2, <2>1, SetRangeFacts, WordEnd DEF TextType
  <2>3. /\ TextType' /\ src'.data = src.data /\ src'.filesize = src.filesize
        /\ src'.package = src.package /\ src'.content = t
    BY <2>1, <2>2, ContentStep
  <2>4. /\ pushed'.imports = Append(pushed.imports, match) /\ IsSeq(pushed.imports)
        /\ pushed'.definitions = pushed.definitions /\ pushed'.words = pushed.words
        /\ pushed'.comments = pushed.comments /\ pushed'.strings = pushed.strings
    BY <1>4, FindAllPushed DEF Kinds, Names
  <2>5. ASSUME ReadInv(r) PROVE ReadInv(r)'
    <3>1. CodeOnly(r, src.content, src.filesize) /\ PlacesInCode(r)
      BY <1>0, <2>5, LateFacts
    <3>2. InCode(r, match)
      BY <1>2, <3>1, WordInCode DEF Words
    <3>3. CodeOnly(r, t, src.filesize)
      BY <3>1, TextFacts, CodeOnlyStays
    <3>4. ToSet(pushed'.imports) = ToSet(pushed.imports) \cup {match}
      BY <2>4, ToSetAppended
    <3>5. PlacesInCode(r)'
      BY <2>1, <2>3, <2>4, <3>1, <3>2, <3>4 DEF PlacesInCode, Taken, InCode
    <3> QED
      BY <1>0, <2>1, <2>3, <2>4, <2>5, <3>3, <3>5, LateStep
  <2> QED
    BY <2>3, <2>5 DEF KeepsReading
<1> QED
  BY <1>1, <1>3, <1>4

LEMMA ClassesRead ==
  ASSUME TextType, PushedType, Classes, NEW r
  PROVE  KeepsReading(r)
<1>0. pc = "classes" /\ pc \in Late /\ "print" \in Late
  BY DEF Classes, Late
<1>1. \/ pc' = "print" /\ UNCHANGED <<src, start, pushed>>
      \/ \E match \in PcreExec(ClassEnd, start) :
           /\ match # NoMatch /\ UNCHANGED pc
           /\ \E body \in PcreExec(BacketEnd, match.end) : body # NoMatch /\ PushClass(match, body)
  BY DEF Classes, AfterNoBody
<1>2. CASE pc' = "print" /\ UNCHANGED <<src, start, pushed>>
  BY <1>0, <1>2, SameTextRead
<1>3. ASSUME NEW match \in PcreExec(ClassEnd, start), match # NoMatch, UNCHANGED pc,
             NEW body \in PcreExec(BacketEnd, match.end), body # NoMatch, PushClass(match, body)
      PROVE  KeepsReading(r)
  <2>0. WordAt(match, {"class"})
    BY <1>3, ClassMatch DEF TextType
  <2>1. match.end \in Nat
    BY <1>3, <2>0, WordEnd
  <2>2. WordAt(body, {"lbrace"})
    BY <2>1, BacketMatch
  <2> PICK range, t : range = RangeOf(start, body.end) /\ t = SetRange(src.content, range)
    OBVIOUS
  <2>3. PICK declare :
          /\ pushed' = [pushed EXCEPT !.declares = Append(@, declare),
                                      !.definitions = Append(@, body),
                                      !.words = Append(@, match)]
          /\ src' = [src EXCEPT !.content = t] /\ start' = body.end
    BY <1>3 DEF PushClass
  <2>4. t \in Seq(Symbols) /\ Len(t) = Len(src.content) /\ start' \in Nat
    BY <1>3, <2>2, <2>3, SetRangeFacts, WordEnd DEF TextType
  <2>5. /\ TextType' /\ src'.data = src.data /\ src'.filesize = src.filesize
        /\ src'.package = src.package /\ src'.content = t
    BY <2>3, <2>4, ContentStep
  <2>6. /\ pushed'.imports = pushed.imports
        /\ IsSeq(pushed.definitions) /\ IsSeq(pushed.words)
        /\ pushed'.definitions = Append(pushed.definitions, body)
        /\ pushed'.words = Append(pushed.words, match)
        /\ pushed'.comments = pushed.comments /\ pushed'.strings = pushed.strings
    BY <2>3 DEF PushedType, Kinds, Names
  <2>7. ASSUME ReadInv(r) PROVE ReadInv(r)'
    <3>1. CodeOnly(r, src.content, src.filesize) /\ PlacesInCode(r)
      BY <1>0, <2>7, LateFacts
    <3>2. InCode(r, body) /\ InCode(r, match)
      BY <2>0, <2>2, <3>1, WordInCode DEF Words
    <3>3. CodeOnly(r, t, src.filesize)
      BY <3>1, TextFacts, CodeOnlyStays
    <3>4. /\ ToSet(pushed'.definitions) = ToSet(pushed.definitions) \cup {body}
          /\ ToSet(pushed'.words) = ToSet(pushed.words) \cup {match}
      BY <2>6, ToSetAppended
    <3>5. PlacesInCode(r)'
      BY <1>3, <2>5, <2>6, <3>1, <3>2, <3>4 DEF PlacesInCode, Taken, InCode
    <3> QED
      BY <1>0, <1>3, <2>5, <2>6, <2>7, <3>3, <3>5, LateStep
  <2> QED
    BY <2>5, <2>7 DEF KeepsReading
<1> QED
  BY <1>1, <1>2, <1>3

\* The text is loaded: nothing is read of it yet.
LEMMA ModAtMost == \A a \in Nat, b \in Nat \ {0} : a % b \in 0 .. a /\ (a < b => a % b = a)
<1> SUFFICES ASSUME NEW a \in Nat, NEW b \in Nat \ {0}
             PROVE  a % b \in 0 .. a /\ (a < b => a % b = a)
  OBVIOUS
<1>1. a % b \in 0 .. b - 1
  OBVIOUS
<1>2. CASE a < b
  <2>1. a % b = a
    BY <1>2
  <2> QED
    BY <2>1
<1>3. CASE a >= b
  BY <1>1, <1>3
<1> QED
  BY <1>2, <1>3

\* A file that was loaded is read from its beginning.
LEMMA LoadRead ==
  ASSUME TextType, NotLoaded, Load
  PROVE  TextInv'
<1> PICK text, n : text = src.filename /\ n = Len(text) % Wide
  OBVIOUS
<1>1. text \in Seq(Symbols) /\ Len(text) \in Nat
  BY FilesAssumption DEF TextType
<1>2. n \in 0 .. Len(text) /\ (Len(text) < Wide => n = Len(text))
  BY <1>1, ModAtMost, SlotsAssumption
<1>3. src' = [filename |-> text, data |-> text, content |-> text, filesize |-> n, package |-> Nothing]
  <2>1. src' = [src EXCEPT !.data = text, !.content = text, !.filesize = n]
    BY DEF Load
  <2> QED
    BY <2>1 DEF TextType, NotLoaded
<1>4. /\ src'.filename = text /\ src'.data = text /\ src'.content = text /\ src'.filesize = n
      /\ src'.package = Nothing /\ start' = start /\ pc' = "comments" /\ pushed' = pushed
  <2>1. start' = start /\ pc' = "comments" /\ pushed' = pushed
    BY DEF Load
  <2> QED
    BY <1>3, <2>1
<1>5. TextType'
  BY <1>1, <1>2, <1>3, <1>4 DEF TextType
<1>6. pc' # "load" /\ PrintedInv'
  BY <1>4 DEF PrintedInv
<1>7. ASSUME NEW r, r = Reading' PROVE ReadInv(r)'
  <2>1. Reading' = ReadingOf(src'.data, Len(src'.data))
    BY DEF Reading, ReadingOf
  <2>2. r[0] = Unread
    <3>1. r = ReadingOf(text, Len(text)) /\ Len(text) \in 0 .. Len(text)
      BY <1>1, <1>4, <1>7, <2>1
    <3> QED
      BY <1>1, <3>1, ReadingIsTrace
  <2>3. ModeAt(r, 0) = "code" /\ FoundAt(r, "/*", 0) = << >>
    BY <2>2, UnreadFacts DEF Openers
  <2>4. Blanked(r, text, text, 0, n)
    <3>1. \A i \in 1 .. n : ~ (i <= 0)
      BY <1>1, <1>2
    <3> QED
      BY <3>1 DEF Blanked
  <2>5. AtComments(r)'
    BY <1>2, <1>4, <2>3, <2>4 DEF AtComments, NotLoaded
  <2>6. AtStrings(r)' /\ AfterStrings(r)'
    BY <1>4 DEF AtStrings, AfterStrings, OfStrings, UpToStrings
  <2>7. PlacesInCode(r)'
    BY <1>4 DEF PlacesInCode, Taken, NotLoaded, ToSet
  <2> QED
    BY <2>5, <2>6, <2>7 DEF ReadInv
<1> QED
  BY <1>5, <1>6, <1>7 DEF TextInv

-----------------------------------------------------------------------------
(***************************************************************************)
(* What is printed, and the theorems.                                      *)
(***************************************************************************)
\* The invariant holds at first.
LEMMA InitRead ==
  ASSUME Init
  PROVE  TextInv
<1>1. PICK file \in Files :
        src = [filename |-> file, data |-> << >>, content |-> << >>, filesize |-> 0, package |-> Nothing]
  BY DEF Init
<1>2. << >> \in Seq(Symbols) /\ Len(<< >>) = 0
  OBVIOUS
<1>3. TextType
  BY <1>1, <1>2, SlotsAssumption DEF TextType, Init
<1>4. NotLoaded /\ pc = "load"
  BY <1>1 DEF NotLoaded, Init
<1>5. PrintedInv
  BY <1>4 DEF PrintedInv
<1>6. ASSUME NEW r, r = Reading PROVE ReadInv(r)
  <2>1. AtComments(r) /\ AtStrings(r) /\ AfterStrings(r)
    BY <1>4 DEF AtComments, AtStrings, AfterStrings, OfStrings, UpToStrings
  <2>2. Taken = {}
    BY <1>4 DEF NotLoaded, Taken, ToSet
  <2> QED
    BY <2>1, <2>2 DEF ReadInv, PlacesInCode
<1> QED
  BY <1>3, <1>4, <1>5, <1>6 DEF TextInv

\* A step that keeps the reading keeps what is known of it.
LEMMA KeptReading ==
  ASSUME TextInv, \A r : KeepsReading(r), PrintedInv', pc' # "load"
  PROVE  TextInv'
<1>1. TextType' /\ src'.data = src.data /\ src'.filesize = src.filesize
  BY DEF KeepsReading
<1>2. Reading' = Reading /\ (Clean' <=> Clean)
  BY <1>1, SameReading
<1>3. ASSUME Clean, NEW r, r = Reading PROVE ReadInv(r)'
  <2>1. Trace(r, src.data, src.filesize)
    BY <1>3, ReadingFacts DEF TextInv
  <2>2. ReadInv(r)
    BY <1>3 DEF TextInv
  <2>3. KeepsReading(r)
    OBVIOUS
  <2> QED
    BY <2>1, <2>2, <2>3 DEF KeepsReading
<1> QED
  BY <1>1, <1>2, <1>3 DEF TextInv

\* What is printed is in the arrays, and the arrays hold what was pushed.
LEMMA PrintStep ==
  ASSUME ParseInv, TextInv, PrintRanges
  PROVE  TextInv'
<1>1. /\ pc = "print" /\ pc' = "ended" /\ UNCHANGED <<src, start, arrays, mem, last, pushed>>
      /\ printed' = Mapped(Elts("comments") \o Elts("strings"))
  BY DEF PrintRanges, Mapped
<1>2. pc \in Late /\ pc' \in Late
  BY <1>1 DEF Late
<1>3. \A r : KeepsReading(r)
  BY <1>1, <1>2, SameTextRead DEF TextInv
<1>4. Loaded
  BY <1>1 DEF ParseInv, Unloaded
<1>5. ~ Strays => Elts("comments") = pushed.comments /\ Elts("strings") = pushed.strings
  <2> SUFFICES ASSUME ~ Strays
               PROVE  Elts("comments") = pushed.comments /\ Elts("strings") = pushed.strings
    OBVIOUS
  <2>1. Laid(arrays, last) /\ PushedType /\ Filled /\ Kept = 1
    BY <1>4 DEF Loaded, Kept
  <2>2. \A name \in Names : arrays[name].nelts \in Nat
    BY <2>1 DEF Laid
  <2>3. IsSeq(pushed.comments) /\ IsSeq(pushed.strings) /\ "comments" \in Names /\ "strings" \in Names
        /\ 1 \in 1 .. 2
    BY <2>1 DEF PushedType, Kinds, Names
  <2>4. Holds(mem, arrays["strings"], pushed.strings, 1)
        /\ Holds(mem, arrays["comments"], pushed.comments, 1)
    BY <2>1 DEF Filled
  <2> QED
    BY <2>2, <2>3, <2>4, EltsFrom
<1>6. Strays' <=> Strays
  BY <1>1 DEF Strays
<1>7. \A s : Mapped(s)' = Mapped(s)
  BY <1>1 DEF Mapped, TextAt
<1>8. PrintedInv'
  BY <1>1, <1>5, <1>6, <1>7 DEF PrintedInv
<1> QED
  BY <1>1, <1>3, <1>8, KeptReading

\* Steps that change nothing, and no file.
LEMMA SameTextInv ==
  ASSUME TextInv, UNCHANGED vars
  PROVE  TextInv'
<1>1. /\ pc' = pc /\ src' = src /\ start' = start
      /\ pushed' = pushed /\ printed' = printed
  BY DEF vars
<1>2. TextType' /\ (pc' = "load" => NotLoaded')
  BY <1>1 DEF TextInv, TextType, NotLoaded
<1>3. Mapped(pushed.comments \o pushed.strings)' = Mapped(pushed.comments \o pushed.strings)
  BY <1>1 DEF Mapped, TextAt
<1>4. PrintedInv'
  BY <1>1, <1>3 DEF TextInv, PrintedInv, Strays
<1>5. Reading' = Reading /\ (Clean' <=> Clean)
  BY <1>1, SameReading
<1>6. \A r : ReadInv(r) => ReadInv(r)'
  BY <1>1 DEF ReadInv, AtComments, AtStrings, AfterStrings, PlacesInCode, Taken
<1> QED
  BY <1>2, <1>4, <1>5, <1>6 DEF TextInv

LEMMA NoFileRead ==
  ASSUME TextInv, NoFile
  PROVE  TextInv'
<1>1. /\ pc = "load" /\ pc' = "ended" /\ src' = src /\ start' = start
      /\ pushed' = pushed /\ printed' = printed
      /\ TextType /\ NotLoaded
  BY DEF NoFile, TextInv
<1>2. TextType' /\ NotLoaded'
  BY <1>1 DEF TextType, NotLoaded
<1>3. PrintedInv'
  <2>1. pushed'.comments = << >> /\ pushed'.strings = << >> /\ printed' = << >>
    BY <1>2 DEF NotLoaded
  <2>2. << >> \o << >> = << >>
    BY EmptyIsSeq, JoinedEmpty
  <2>3. Mapped(<< >>)' = << >>
    BY DEF Mapped
  <2> QED
    BY <2>1, <2>2, <2>3 DEF PrintedInv
<1>4. Reading' = Reading
  BY <1>1, SameReading
<1>5. ASSUME NEW r, r = Reading PROVE ReadInv(r)'
  <2>1. ModeAt(r, 0) = "code" /\ \A mode \in Openers : FoundAt(r, mode, 0) = << >>
    BY <1>1, <1>5, ReadingFacts, UnreadFacts
  <2>2. /\ pushed'.comments = << >> /\ pushed'.strings = << >> /\ pushed'.imports = << >>
        /\ pushed'.definitions = << >> /\ pushed'.words = << >> /\ src'.filesize = 0 /\ src'.package = Nothing
    BY <1>2 DEF NotLoaded
  <2>3. << >> \o << >> = << >>
    BY EmptyIsSeq, JoinedEmpty
  <2>4. CodeOnly(r, src'.content, 0)
    BY DEF CodeOnly
  <2>5. AfterStrings(r)'
    BY <2>1, <2>2, <2>3, <2>4 DEF AfterStrings, Openers, Quotes
  <2>6. AtComments(r)' /\ AtStrings(r)'
    BY <1>1 DEF AtComments, AtStrings, OfStrings
  <2>7. Taken' = {}
    BY <2>2 DEF Taken, ToSet
  <2> QED
    BY <2>5, <2>6, <2>7 DEF ReadInv, PlacesInCode
<1> QED
  BY <1>1, <1>2, <1>3, <1>4, <1>5 DEF TextInv

\* The invariant holds after every step.
LEMMA TextStep ==
  ASSUME ParseInv, TextInv, [Next]_vars
  PROVE  TextInv'
<1>0. TextType /\ (pc # "load" /\ pc # "ended" => PushedType)
  BY DEF TextInv, ParseInv, Unloaded, Loaded
<1>1. CASE UNCHANGED vars \/ Ended
  BY <1>1, SameTextInv DEF Ended
<1>2. CASE Load
  BY <1>2, LoadRead DEF TextInv, Load
<1>3. CASE NoFile
  BY <1>3, NoFileRead
<1>4. CASE PrintRanges
  BY <1>4, PrintStep
<1>5. ASSUME \A r : KeepsReading(r), pc' # "load", pc' # "ended" PROVE TextInv'
  BY <1>5, KeptReading DEF PrintedInv
<1>6. CASE Comments
  <2>1. pc = "comments" /\ pc' \in {"comments", "strings"}
    BY <1>6 DEF Comments, FindAll, GoOn
  <2> QED
    BY <1>0, <1>5, <1>6, <2>1, CommentsRead
<1>7. CASE Strings
  <2>1. pc = "strings" /\ pc' \in {"strings", "chars"}
    BY <1>7 DEF Strings, FindAll, GoOn
  <2> QED
    BY <1>0, <1>5, <1>7, <2>1, StringsRead
<1>8. CASE Chars
  <2>1. pc = "chars" /\ pc' \in {"chars", "package"}
    BY <1>8 DEF Chars, FindAll, GoOn
  <2> QED
    BY <1>0, <1>5, <1>8, <2>1, CharsRead
<1>9. CASE Package
  <2>1. pc = "package" /\ pc' \in {"imports", "second"}
    BY <1>9 DEF Package
  <2> QED
    BY <1>0, <1>5, <1>9, <2>1, PackageRead
<1>10. CASE SecondPackage
  <2>1. pc = "second" /\ pc' \in {"print", "imports"} /\ UNCHANGED <<src, start, pushed>>
    BY <1>10 DEF SecondPackage
  <2> QED
    BY <1>0, <1>5, <2>1, SameTextRead DEF Late
<1>11. CASE Imports
  <2>1. pc = "imports" /\ pc' \in {"imports", "classes"}
    BY <1>11 DEF Imports, FindAll, GoOn
  <2> QED
    BY <1>0, <1>5, <1>11, <2>1, ImportsRead
<1>12. CASE Classes
  <2>1. pc = "classes" /\ pc' \in {"classes", "print"}
    BY <1>12 DEF Classes, AfterNoBody
  <2> QED
    BY <1>0, <1>5, <1>12, <2>1, ClassesRead
<1> QED
  BY <1>1, <1>2, <1>3, <1>4, <1>6, <1>7, <1>8, <1>9, <1>10, <1>11, <1>12 DEF Next

\* Sequences of one length with the same elements are one.
LEMMA SameSeq ==
  ASSUME NEW S, NEW l \in Seq(S), NEW r \in Seq(S), Len(l) = Len(r),
         \A i \in 1 .. Len(l) : l[i] = r[i]
  PROVE  l = r
OBVIOUS

\* Three sequences joined.
LEMMA JoinedTwice ==
  ASSUME NEW a, IsSeq(a), NEW b, IsSeq(b), NEW c, IsSeq(c)
  PROVE  a \o (b \o c) = (a \o b) \o c
<1> DEFINE S == ToSet(a) \cup ToSet(b) \cup ToSet(c)
<1>1. a \in Seq(S) /\ b \in Seq(S) /\ c \in Seq(S)
  BY DEF IsSeq
<1> HIDE DEF S
<1> PICK x, y, l, r : x = b \o c /\ y = a \o b /\ l = a \o (b \o c) /\ r = (a \o b) \o c
  OBVIOUS
<1>2. /\ x \in Seq(S) /\ y \in Seq(S) /\ l = a \o x /\ r = y \o c
      /\ Len(x) = Len(b) + Len(c) /\ Len(y) = Len(a) + Len(b)
      /\ Len(a) \in Nat /\ Len(b) \in Nat /\ Len(c) \in Nat
  BY <1>1
<1>3. l \in Seq(S) /\ r \in Seq(S) /\ Len(l) = Len(a) + Len(b) + Len(c) /\ Len(r) = Len(l)
  BY <1>1, <1>2
<1>4. ASSUME NEW i \in 1 .. Len(l) PROVE l[i] = r[i]
  <2>1. CASE i <= Len(a)
    <3>1. l[i] = a[i] /\ y[i] = a[i] /\ r[i] = y[i]
      BY <1>1, <1>2, <1>3, <2>1
    <3> QED
      BY <3>1
  <2>2. CASE i > Len(a) /\ i <= Len(a) + Len(b)
    <3>1. l[i] = x[i - Len(a)] /\ r[i] = y[i]
      BY <1>1, <1>2, <1>3, <2>2
    <3>2. x[i - Len(a)] = b[i - Len(a)] /\ y[i] = b[i - Len(a)]
      BY <1>1, <1>2, <1>3, <2>2
    <3> QED
      BY <3>1, <3>2
  <2>3. CASE i > Len(a) + Len(b)
    <3>1. l[i] = x[i - Len(a)] /\ r[i] = c[i - Len(y)]
      BY <1>1, <1>2, <1>3, <2>3
    <3>2. x[i - Len(a)] = c[(i - Len(a)) - Len(b)] /\ (i - Len(a)) - Len(b) = i - Len(y)
      BY <1>1, <1>2, <1>3, <2>3
    <3> QED
      BY <3>1, <3>2
  <2> QED
    BY <1>2, <1>3, <2>1, <2>2, <2>3
<1>5. l = r
  BY <1>3, <1>4, SameSeq
<1> QED
  BY <1>5

\* Texts of ranges, one by one, and of two lists joined.
LEMMA MappedFacts ==
  ASSUME NEW s, IsSeq(s)
  PROVE  /\ IsSeq(Mapped(s)) /\ Len(Mapped(s)) = Len(s) /\ Len(s) \in Nat
         /\ \A i \in 1 .. Len(s) : Mapped(s)[i] = TextAt(s[i])
<1> PICK m : m = Mapped(s)
  OBVIOUS
<1>1. s \in Seq(ToSet(s)) /\ Len(s) \in Nat /\ DOMAIN s = 1 .. Len(s)
  BY DEF IsSeq
<1>2. m = [i \in 1 .. Len(s) |-> TextAt(s[i])]
  BY <1>1 DEF Mapped
<1>3. m \in Seq({m[i] : i \in 1 .. Len(s)}) /\ Len(m) = Len(s)
  BY <1>1, <1>2
<1>4. IsSeq(m)
  BY <1>3, SeqIsSeq
<1> QED
  BY <1>1, <1>2, <1>3, <1>4

LEMMA MappedJoined ==
  ASSUME NEW s, IsSeq(s), NEW t, IsSeq(t)
  PROVE  Mapped(s \o t) = Mapped(s) \o Mapped(t)
<1> PICK a, b, j, l, r : a = Mapped(s) /\ b = Mapped(t) /\ j = s \o t /\ l = Mapped(s \o t)
                         /\ r = Mapped(s) \o Mapped(t)
  OBVIOUS
<1>1. /\ IsSeq(a) /\ Len(a) = Len(s) /\ Len(s) \in Nat /\ \A i \in 1 .. Len(s) : a[i] = TextAt(s[i])
      /\ IsSeq(b) /\ Len(b) = Len(t) /\ Len(t) \in Nat /\ \A i \in 1 .. Len(t) : b[i] = TextAt(t[i])
  BY MappedFacts
<1>2. /\ IsSeq(j) /\ Len(j) = Len(s) + Len(t)
      /\ \A i \in 1 .. Len(s) : j[i] = s[i]
      /\ \A i \in 1 .. Len(t) : j[Len(s) + i] = t[i]
  BY Joined
<1>3. IsSeq(l) /\ Len(l) = Len(j) /\ \A i \in 1 .. Len(j) : l[i] = TextAt(j[i])
  BY <1>2, MappedFacts
<1>4. /\ IsSeq(r) /\ Len(r) = Len(a) + Len(b)
      /\ \A i \in 1 .. Len(a) : r[i] = a[i]
      /\ \A i \in 1 .. Len(b) : r[Len(a) + i] = b[i]
  <2>1. r = a \o b /\ IsSeq(a) /\ IsSeq(b)
    BY <1>1
  <2> QED
    BY <2>1, Joined
<1>5. ASSUME NEW i \in 1 .. Len(l) PROVE l[i] = r[i]
  <2>1. CASE i \in 1 .. Len(s)
    BY <1>1, <1>2, <1>3, <1>4, <2>1
  <2>2. CASE i \notin 1 .. Len(s)
    <3> PICK k : k = i - Len(s)
      OBVIOUS
    <3>1. k \in 1 .. Len(t) /\ i = Len(s) + k
      BY <1>1, <1>2, <1>3, <2>2
    <3> QED
      BY <1>1, <1>2, <1>3, <1>4, <3>1
  <2> QED
    BY <2>1, <2>2
<1>6. l = r
  <2> PICK S : S = ToSet(l) \cup ToSet(r)
    OBVIOUS
  <2>1. l \in Seq(S) /\ r \in Seq(S)
    <3>1. l \in Seq(ToSet(l)) /\ r \in Seq(ToSet(r))
      BY <1>3, <1>4 DEF IsSeq
    <3> QED
      BY <3>1
  <2>2. Len(l) = Len(r)
    BY <1>1, <1>2, <1>3, <1>4
  <2> QED
    BY <1>5, <2>1, <2>2, SameSeq
<1> QED
  BY <1>6

\* The invariant says what is printed, and where the last passes found their words.
LEMMA PrintedAsOnePass ==
  ASSUME TextInv
  PROVE  TextsAsOnePass
<1> SUFFICES ASSUME pc = "ended", Clean, ~ Strays
             PROVE  printed = Texts("/*") \o Texts("dquote") \o Texts("squote")
  BY DEF TextsAsOnePass
<1> PICK r, n : r = Reading /\ n = src.filesize
  OBVIOUS
<1>1. Trace(r, src.data, n) /\ ReadInv(r) /\ n \in Nat /\ n \in 0 .. n
  BY ReadingFacts, TextFacts DEF TextInv
<1>0. n = Len(src.data)
  BY DEF TextInv, TextType, Clean
<1> PICK c, d, s : c = FoundAt(r, "/*", n) /\ d = FoundAt(r, "dquote", n) /\ s = FoundAt(r, "squote", n)
  OBVIOUS
<1>2. IsSeq(c) /\ IsSeq(d) /\ IsSeq(s)
  BY <1>1, FoundIsSeq DEF Openers, Quotes
<1>3. printed = Mapped(c \o (d \o s))
  <2>1. pushed.comments = c /\ pushed.strings = d \o s
    BY <1>1 DEF ReadInv, AfterStrings, UpToStrings, OfStrings
  <2>2. printed = Mapped(pushed.comments \o pushed.strings)
    BY DEF TextInv, PrintedInv
  <2> QED
    BY <2>1, <2>2
<1>4. Texts("/*") = Mapped(c) /\ Texts("dquote") = Mapped(d) /\ Texts("squote") = Mapped(s)
  BY <1>0 DEF Texts, Mapped, OnePass, FoundAt
<1>5. IsSeq(d \o s)
  BY <1>2, Joined
<1>6. Mapped(c \o (d \o s)) = Mapped(c) \o Mapped(d \o s)
  BY <1>2, <1>5, MappedJoined
<1>7. Mapped(d \o s) = Mapped(d) \o Mapped(s)
  BY <1>2, MappedJoined
<1>8. IsSeq(Mapped(c)) /\ IsSeq(Mapped(d)) /\ IsSeq(Mapped(s))
  BY <1>2, MappedFacts
<1>9. Mapped(c) \o (Mapped(d) \o Mapped(s)) = (Mapped(c) \o Mapped(d)) \o Mapped(s)
  BY <1>8, JoinedTwice
<1> QED
  BY <1>3, <1>4, <1>6, <1>7, <1>9

LEMMA KeywordsAreOutside ==
  ASSUME TextInv
  PROVE  KeywordsOutsideTexts
<1> SUFFICES ASSUME Clean PROVE \A x \in Taken : Reading[x.start].mode = "code"
  BY DEF KeywordsOutsideTexts, Taken
<1>1. PlacesInCode(Reading)
  BY DEF TextInv, ReadInv
<1> QED
  BY <1>1 DEF PlacesInCode, ModeAt

(***************************************************************************)
(* The package, the imports, the words of classes and their bodies begin   *)
(* in code, never in a comment, a string or a character (rapc.c:294-358):  *)
(* for any files and whatever the passes before took out, masked or        *)
(* blanked, when the file is clean and shorter than Wide.                  *)
(***************************************************************************)
THEOREM KeywordsStayOutside == Spec => []KeywordsOutsideTexts
<1>1. Init => ParseInv /\ TextInv
  BY InitParse, InitRead
<1>2. ParseInv /\ TextInv /\ [Next]_vars => (ParseInv /\ TextInv)'
  BY ParseStep, TextStep
<1>3. TextInv => KeywordsOutsideTexts
  BY KeywordsAreOutside
<1> QED
  BY <1>1, <1>2, <1>3, PTL DEF Spec

(***************************************************************************)
(* Removing the comments, masking the strings and searching the strings    *)
(* and the characters in turn (rapc.c:178-211, 236-289) finds in any clean *)
(* file shorter than Wide what one reading of the whole text from left to  *)
(* right finds, and source_init prints that from the original text         *)
(* (rapc.c:414-421), unless a class strayed over the first comment.        *)
(***************************************************************************)
THEOREM PassesReadAsOne == Spec => []TextsAsOnePass
<1>1. Init => ParseInv /\ TextInv
  BY InitParse, InitRead
<1>2. ParseInv /\ TextInv /\ [Next]_vars => (ParseInv /\ TextInv)'
  BY ParseStep, TextStep
<1>3. TextInv => TextsAsOnePass
  BY PrintedAsOnePass
<1> QED
  BY <1>1, <1>2, <1>3, PTL DEF Spec
=============================================================================
