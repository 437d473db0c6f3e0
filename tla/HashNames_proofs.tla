-------------------------- MODULE HashNames_proofs --------------------------
(***************************************************************************)
(* For any keys, sizes, calls and depth: a key is refused only for what    *)
(* was offered before it (KeysAreRefusedForAReason), and every table that  *)
(* is built of the names that were taken, nested tables too, has room for  *)
(* them and has no label twice (BucketsHoldAlways).                        *)
(*                                                                         *)
(* KnownBy says what the conflict tables hold: what calls offered.  For    *)
(* the tables: rap_dns_strcmp orders names by the ranks W of their         *)
(* characters, so that sorting, as it is coded, leaves them Ordered; of    *)
(* ordered names those between two with one first label have that label    *)
(* (BetweenFollows), so no label opens two groups (HeadsApart), and what   *)
(* is left of a group behind its label is ordered again (NextOrdered).     *)
(* rap_hash_wildcard_init calls itself with fewer or shorter names         *)
(* (NextDown), so what it returns is well defined (WildcardFacts).  A      *)
(* table of different names holds them (HashInitHolds); Sound says so of a *)
(* table and, through Wild, of the tables nested in it, which ListsHold    *)
(* makes true of all that Build makes.                                     *)
(***************************************************************************)
EXTENDS HashNames, NaturalsInduction, WellFoundedInduction, TLAPS

Codes == 0 .. 255
Texts == Seq(Codes)
Flags == {"wildcard", "readonly"}
Kinds == {"exact", "dot", "head", "tail", "declined"}
CallRecords == [key : Texts, flags : SUBSET Flags, kind : Kinds, rc : {"OK", "BUSY", "DECLINED"}]

\* Everything the conflict tables hold, in the way that calls offer it.
Known(h) ==
  ({"exact"} \X h.keys_hash) \cup ({"below"} \X h.head_hash) \cup ({"after"} \X h.tail_hash)

(***************************************************************************)
(* What h knows was offered by a call of cs, it knows all that was         *)
(* accepted, and calls were refused for a reason.                          *)
(***************************************************************************)
KnownBy(cs, h) ==
  /\ cs \in Seq(CallRecords)
  /\ \A o \in Known(h) : \E i \in DOMAIN cs : o \in Offers(cs[i])
  /\ \A i \in DOMAIN cs : cs[i].rc = "OK" => Offers(cs[i]) \subseteq Known(h)
  /\ \A i, j \in DOMAIN cs :
       cs[i].rc = "OK" /\ cs[j].rc = "OK" /\ Offers(cs[i]) \cap Offers(cs[j]) # {} => i = j
  /\ \A j \in DOMAIN cs :
       cs[j].rc = "BUSY" => \E i \in 1 .. j - 1 : Offers(cs[i]) \cap Offers(cs[j]) # {}

\* A call c that finds h and leaves g.
Answered(c, h, g) ==
  /\ Known(h) \subseteq Known(g) /\ Known(g) \subseteq Known(h) \cup Offers(c)
  /\ c.rc = "OK" => Offers(c) \cap Known(h) = {} /\ Offers(c) \subseteq Known(g)
  /\ c.rc = "BUSY" => Offers(c) \cap Known(h) # {}
-----------------------------------------------------------------------------
\* Sequences of one length with the same elements are one.
LEMMA SameSeq ==
  ASSUME NEW S, NEW l \in Seq(S), NEW r \in Seq(S), Len(l) = Len(r),
         \A i \in 1 .. Len(l) : l[i] = r[i]
  PROVE  l = r
OBVIOUS

\* Lower case has as many characters, each in its place.
LEMMA LowFacts ==
  ASSUME NEW s \in Texts
  PROVE  /\ Strlow(s, Len(s)) \in Texts /\ Len(Strlow(s, Len(s))) = Len(s)
         /\ \A i \in 1 .. Len(s) : Strlow(s, Len(s))[i] = Lower(s[i])
<1>1. \A c \in Codes : Lower(c) \in Codes
  <2> TAKE c \in Codes
  <2>1. CASE c \in 65 .. 90
    BY <2>1 DEF Lower, Codes
  <2>2. CASE c \notin 65 .. 90
    BY <2>2 DEF Lower, Codes
  <2> QED
    BY <2>1, <2>2
<1>2. \A i \in 1 .. Len(s) : s[i] \in Codes
  BY DEF Texts
<1>3. Len(s) \in Nat
  BY DEF Texts
<1> DEFINE t == [i \in 1 .. Len(s) |-> Lower(s[i])]
<1>4. \A i \in 1 .. Len(s) : Lower(s[i]) \in Codes
  BY <1>1, <1>2
<1>5. t \in Texts /\ Len(t) = Len(s)
    BY <1>3, <1>4 DEF Texts
<1> QED
  BY <1>5 DEF Strlow, Texts

\* A text without capitals stays as it is.
LEMMA LowStays ==
  ASSUME NEW s \in Texts, ToSet(s) \cap 65 .. 90 = {}
  PROVE  Strlow(s, Len(s)) = s
<1>1. \A i \in 1 .. Len(s) : s[i] \in ToSet(s)
  BY DEF ToSet, Texts
<1>2. \A i \in 1 .. Len(s) : Lower(s[i]) = s[i]
  BY <1>1 DEF Lower
<1> QED
  BY <1>2, LowFacts, SameSeq DEF Texts

\* A call that is answered as it should be leaves things in order.
LEMMA CallMade ==
  ASSUME NEW h, NEW g, NEW c \in CallRecords, NEW cs, KnownBy(cs, h), Answered(c, h, g)
  PROVE  KnownBy(Append(cs, c), g)
<1> USE DEF KnownBy, Answered
<1> DEFINE ds == Append(cs, c)
<1> DEFINE n == Len(cs)
<1>1. n \in Nat /\ DOMAIN cs = 1 .. n
  OBVIOUS
<1>2. ds \in Seq(CallRecords) /\ DOMAIN ds = 1 .. n + 1 /\ ds[n + 1] = c /\ \A i \in 1 .. n : ds[i] = cs[i]
  OBVIOUS
<1> HIDE DEF n, ds
<1>3. \A o \in Known(g) : \E i \in DOMAIN ds : o \in Offers(ds[i])
  <2> TAKE o \in Known(g)
  <2>1. CASE o \in Offers(c)
    BY <2>1, <1>1, <1>2
  <2>2. CASE o \in Known(h)
    <3>1. PICK i \in 1 .. n : o \in Offers(cs[i])
      BY <2>2, <1>1
    <3> QED
      BY <3>1, <1>1, <1>2
  <2> QED
    BY <2>1, <2>2
<1>4. \A i \in DOMAIN ds : ds[i].rc = "OK" => Offers(ds[i]) \subseteq Known(g)
  <2> TAKE i \in DOMAIN ds
  <2>1. CASE i = n + 1
    BY <2>1, <1>2
  <2>2. CASE i \in 1 .. n
    BY <2>2, <1>1, <1>2
  <2> QED
    BY <2>1, <2>2, <1>1, <1>2
<1>5. ASSUME NEW i \in DOMAIN ds, NEW j \in DOMAIN ds, ds[i].rc = "OK", ds[j].rc = "OK", Offers(ds[i]) \cap Offers(ds[j]) # {}
      PROVE i = j
  <2>1. CASE i \in 1 .. n /\ j \in 1 .. n
    BY <2>1, <1>1, <1>2, <1>5
  <2>2. CASE i \in 1 .. n /\ j = n + 1
    BY <2>2, <1>1, <1>2, <1>5
  <2>3. CASE i = n + 1 /\ j \in 1 .. n
    BY <2>3, <1>1, <1>2, <1>5
  <2> QED
    BY <2>1, <2>2, <2>3, <1>1, <1>2
<1>6. ASSUME NEW j \in DOMAIN ds, ds[j].rc = "BUSY"
      PROVE  \E i \in 1 .. j - 1 : Offers(ds[i]) \cap Offers(ds[j]) # {}
  <2>1. CASE j \in 1 .. n
    <3>1. PICK i \in 1 .. j - 1 : Offers(cs[i]) \cap Offers(cs[j]) # {}
      BY <2>1, <1>1, <1>2, <1>6
    <3>2. i \in 1 .. n
      BY <2>1, <1>1
    <3> QED
      BY <3>1, <3>2, <1>2, <2>1
  <2>2. CASE j = n + 1
    <3>1. PICK o \in Offers(c) : o \in Known(h)
      BY <2>2, <1>2, <1>6
    <3>2. PICK i \in 1 .. n : o \in Offers(cs[i])
      BY <3>1, <1>1
    <3>3. i \in 1 .. j - 1 /\ ds[i] = cs[i] /\ ds[j] = c
      BY <2>2, <1>1, <1>2, <3>2
    <3> QED
      BY <3>1, <3>2, <3>3
  <2> QED
    BY <2>1, <2>2, <1>1, <1>2
<1>7. KnownBy(ds, g)
  BY <1>2, <1>3, <1>4, <1>5, <1>6
<1> HIDE DEF KnownBy
<1> QED
  BY <1>7 DEF ds

KnownInv == KnownBy(calls, ha)

\* What the kind of a key says of its characters.
LEMMA KindFacts ==
  ASSUME NEW key \in Texts, NEW flags
  PROVE  /\ KindOf(key, flags) \in Kinds
         /\ KindOf(key, flags) \in {"dot", "head", "tail"} => "wildcard" \in flags /\ ~ Malformed(key)
         /\ KindOf(key, flags) = "dot" => Len(key) > 1 /\ key[1] = DOT
         /\ KindOf(key, flags) = "head" => Len(key) > 2 /\ key[1] = STAR /\ key[2] = DOT
         /\ KindOf(key, flags) = "tail" => Len(key) > 2
BY DEF KindOf, Kinds

\* What the caller keeps of a call.
CallOf(key, flags, kind, rc) ==
  [key |-> Strlow(key, Len(key)), flags |-> flags, kind |-> kind, rc |-> rc]

\* A call that is answered as it should be keeps KnownInv.
LEMMA CallKeepsKnown ==
  ASSUME KnownInv, NEW key \in Texts, NEW flags \in SUBSET Flags, NEW rc \in {"OK", "BUSY", "DECLINED"},
         NEW kind \in Kinds,
         Returned(key, flags, kind, rc), Answered(CallOf(key, flags, kind, rc), ha, ha')
  PROVE  KnownInv'
<1> DEFINE c == CallOf(key, flags, kind, rc)
<1>1. c \in CallRecords
  BY LowFacts DEF CallOf, CallRecords
<1>2. calls' = Append(calls, c)
  BY DEF Returned, CallOf
<1>3. KnownBy(Append(calls, c), ha')
  <2> HIDE DEF c
  <2> QED
    BY <1>1, CallMade DEF KnownInv, c
<1> HIDE DEF c
<1> QED
  BY <1>2, <1>3 DEF KnownInv

\* What callers give to rap_hash_add_key.
LEMMA KeyFacts ==
  ASSUME NEW k \in Keys
  PROVE  /\ k.key \in Texts /\ k.flags \in SUBSET Flags
         /\ "readonly" \in k.flags => Strlow(k.key, Len(k.key)) = k.key
         /\ "wildcard" \in k.flags => ToSet(k.key) \cap 1 .. 32 = {}
<1>1. /\ k \in [key : Texts, flags : SUBSET Flags]
      /\ "readonly" \in k.flags => ToSet(k.key) \cap 65 .. 90 = {}
      /\ "wildcard" \in k.flags => ToSet(k.key) \cap 1 .. 32 = {}
  BY KeysAssumption DEF Texts, Codes, Flags
<1>2. k.key \in Texts /\ k.flags \in SUBSET Flags
  BY <1>1
<1> QED
  BY <1>1, <1>2, LowStays

\* A key that is declined changes no table.
LEMMA DeclinedKeepsKnown ==
  ASSUME KnownInv, NEW k \in Keys, AddDeclined(k.key, k.flags)
  PROVE  KnownInv'
<1>1. ha' = ha /\ Returned(k.key, k.flags, "declined", "DECLINED")
  BY DEF AddDeclined
<1>2. Answered(CallOf(k.key, k.flags, "declined", "DECLINED"), ha, ha')
  BY <1>1 DEF Answered, CallOf
<1> QED
  BY <1>1, <1>2, KeyFacts, CallKeepsKnown DEF Kinds

\* An exact name is refused for a name that is known, or is known from now on.
LEMMA ExactKeepsKnown ==
  ASSUME KnownInv, NEW k \in Keys, AddExact(k.key, k.flags)
  PROVE  KnownInv'
<1> DEFINE low == Strlow(k.key, Len(k.key))
<1> DEFINE name == IF "readonly" \in k.flags THEN k.key ELSE low
<1>1. name = low
  BY KeyFacts
<1>2. \A rc : Offers(CallOf(k.key, k.flags, "exact", rc)) = {<<"exact", low>>}
  BY DEF Offers, CallOf
<1>3. CASE name \in ha.keys_hash /\ ha' = ha /\ Returned(k.key, k.flags, "exact", "BUSY")
  <2>1. Answered(CallOf(k.key, k.flags, "exact", "BUSY"), ha, ha')
    <3>1. CallOf(k.key, k.flags, "exact", "BUSY").rc = "BUSY"
      BY DEF CallOf
    <3> HIDE DEF low, name
    <3>2. <<"exact", low>> \in Known(ha)
      BY <1>1, <1>3 DEF Known
    <3> QED
      BY <1>2, <1>3, <3>1, <3>2 DEF Answered
  <2> QED
    BY <1>3, <2>1, KeyFacts, CallKeepsKnown DEF Kinds
<1>4. CASE /\ name \notin ha.keys_hash
           /\ ha' = [ha EXCEPT !.keys_hash = @ \cup {name}, !.keys = Append(@, Entry(name))]
           /\ Returned(k.key, k.flags, "exact", "OK")
  <2>1. Answered(CallOf(k.key, k.flags, "exact", "OK"), ha, ha')
    <3>1. CallOf(k.key, k.flags, "exact", "OK").rc = "OK"
      BY DEF CallOf
    <3> HIDE DEF low, name
    <3>2. <<"exact", low>> \notin Known(ha)
      BY <1>1, <1>4 DEF Known
    <3>3. Known(ha') = Known(ha) \cup {<<"exact", low>>}
      BY <1>1, <1>4 DEF Known
    <3> QED
      BY <1>2, <3>1, <3>2, <3>3 DEF Answered
  <2> QED
    BY <1>4, <2>1, KeyFacts, CallKeepsKnown DEF Kinds
<1> QED
  BY <1>3, <1>4 DEF AddExact

\* So is a wildcard for what is below a name, which a leading dot gives the name, too.
LEMMA HeadKeepsKnown ==
  ASSUME KnownInv, NEW k \in Keys, AddHead(k.key, k.flags)
  PROVE  KnownInv'
<1> DEFINE kind == KindOf(k.key, k.flags)
<1> DEFINE low == Strlow(k.key, Len(k.key))
<1> DEFINE name == SubSeq(low, IF kind = "dot" THEN 2 ELSE 3, Len(k.key))
<1> DEFINE exact == IF kind = "dot" THEN {name} ELSE {}
<1>1. kind \in {"dot", "head"} /\ kind \in Kinds
  BY DEF AddHead, Kinds
<1>2. Len(low) = Len(k.key)
  BY KeyFacts, LowFacts
<1>3. \A rc : Offers(CallOf(k.key, k.flags, kind, rc)) = ({"exact"} \X exact) \cup {<<"below", name>>}
  <2> TAKE rc
  <2>1. PICK c : c = CallOf(k.key, k.flags, kind, rc)
    OBVIOUS
  <2>2. c.kind = kind /\ c.key = low
    BY <2>1 DEF CallOf
  <2>3. Suffix(c) = name
    BY <1>2, <2>2 DEF Suffix
  <2> HIDE DEF name, low, kind
  <2>4. CASE kind = "dot"
    BY <2>1, <2>2, <2>3, <2>4 DEF Offers
  <2>5. CASE kind = "head"
    BY <2>1, <2>2, <2>3, <2>5 DEF Offers
  <2> QED
    BY <1>1, <2>4, <2>5
<1>4. CASE ClashesWithExact(kind, name) /\ ha' = ha /\ Returned(k.key, k.flags, kind, "BUSY")
  <2>1. Answered(CallOf(k.key, k.flags, kind, "BUSY"), ha, ha')
    <3>1. CallOf(k.key, k.flags, kind, "BUSY").rc = "BUSY"
      BY DEF CallOf
    <3> HIDE DEF low, name, kind
    <3>2. <<"exact", name>> \in Known(ha) /\ name \in exact
      BY <1>4 DEF Known, ClashesWithExact
    <3> QED
      BY <1>3, <1>4, <3>1, <3>2 DEF Answered
  <2> HIDE DEF kind
  <2> QED
    BY <1>1, <1>4, <2>1, KeyFacts, CallKeepsKnown
<1>5. CASE /\ ~ClashesWithExact(kind, name) /\ name \in ha.head_hash
           /\ ha' = [ha EXCEPT !.keys_hash = @ \cup exact]
           /\ Returned(k.key, k.flags, kind, "BUSY")
  <2>1. Answered(CallOf(k.key, k.flags, kind, "BUSY"), ha, ha')
    <3>1. CallOf(k.key, k.flags, kind, "BUSY").rc = "BUSY"
      BY DEF CallOf
    <3> HIDE DEF low, name, kind, exact
    <3>2. <<"below", name>> \in Known(ha)
      BY <1>5 DEF Known
    <3>3. Known(ha') = Known(ha) \cup ({"exact"} \X exact)
      BY <1>5 DEF Known
    <3> QED
      BY <1>3, <1>5, <3>1, <3>2, <3>3 DEF Answered
  <2> HIDE DEF kind
  <2> QED
    BY <1>1, <1>5, <2>1, KeyFacts, CallKeepsKnown
<1>6. CASE /\ ~ClashesWithExact(kind, name) /\ name \notin ha.head_hash
           /\ ha' = [[ha EXCEPT !.keys_hash = @ \cup exact]
                      EXCEPT !.head_hash = @ \cup {name},
                             !.dns_wc_head = Append(@, Entry(Converted(low)))]
           /\ Returned(k.key, k.flags, kind, "OK")
  <2>1. Answered(CallOf(k.key, k.flags, kind, "OK"), ha, ha')
    <3>1. CallOf(k.key, k.flags, kind, "OK").rc = "OK"
      BY DEF CallOf
    <3>2. \A x \in exact : x \notin ha.keys_hash
      <4> HIDE DEF kind, name
      <4> QED
        BY <1>6 DEF ClashesWithExact
    <3> HIDE DEF low, name, kind, exact
    <3>3. <<"below", name>> \notin Known(ha) /\ \A x \in exact : <<"exact", x>> \notin Known(ha)
      BY <1>6, <3>2 DEF Known
    <3>4. Known(ha') = Known(ha) \cup ({"exact"} \X exact) \cup {<<"below", name>>}
      BY <1>6 DEF Known
    <3> QED
      BY <1>3, <1>6, <3>1, <3>3, <3>4 DEF Answered
  <2> HIDE DEF kind
  <2> QED
    BY <1>1, <1>6, <2>1, KeyFacts, CallKeepsKnown
<1> QED
  BY <1>4, <1>5, <1>6 DEF AddHead

\* So is a wildcard for what begins with a name.
LEMMA TailKeepsKnown ==
  ASSUME KnownInv, NEW k \in Keys, AddTail(k.key, k.flags)
  PROVE  KnownInv'
<1> DEFINE low == Strlow(k.key, Len(k.key))
<1> DEFINE name == SubSeq(low, 1, Len(k.key) - 1)
<1>1. "tail" \in Kinds
  BY DEF Kinds
<1>2. Len(low) = Len(k.key)
  BY KeyFacts, LowFacts
<1>3. \A rc : Offers(CallOf(k.key, k.flags, "tail", rc)) = {<<"after", name>>}
  BY <1>2 DEF Offers, CallOf
<1>4. CASE name \in ha.tail_hash /\ ha' = ha /\ Returned(k.key, k.flags, "tail", "BUSY")
  <2>1. Answered(CallOf(k.key, k.flags, "tail", "BUSY"), ha, ha')
    <3>1. CallOf(k.key, k.flags, "tail", "BUSY").rc = "BUSY"
      BY DEF CallOf
    <3> HIDE DEF low, name
    <3>2. <<"after", name>> \in Known(ha)
      BY <1>4 DEF Known
    <3> QED
      BY <1>3, <1>4, <3>1, <3>2 DEF Answered
  <2> QED
    BY <1>1, <1>4, <2>1, KeyFacts, CallKeepsKnown
<1>5. CASE /\ name \notin ha.tail_hash
           /\ ha' = [ha EXCEPT !.tail_hash = @ \cup {name},
                               !.dns_wc_tail = Append(@, Entry(SubSeq(low, 1, Len(k.key) - 2)))]
           /\ Returned(k.key, k.flags, "tail", "OK")
  <2>1. Answered(CallOf(k.key, k.flags, "tail", "OK"), ha, ha')
    <3>1. CallOf(k.key, k.flags, "tail", "OK").rc = "OK"
      BY DEF CallOf
    <3> HIDE DEF low, name
    <3>2. <<"after", name>> \notin Known(ha)
      BY <1>5 DEF Known
    <3>3. Known(ha') = Known(ha) \cup {<<"after", name>>}
      BY <1>5 DEF Known
    <3> QED
      BY <1>3, <3>1, <3>2, <3>3 DEF Answered
  <2> QED
    BY <1>1, <1>5, <2>1, KeyFacts, CallKeepsKnown
<1> QED
  BY <1>4, <1>5 DEF AddTail

\* At first nothing is known.
LEMMA KnownInit == Init => KnownInv
<1> SUFFICES ASSUME Init PROVE KnownBy(calls, ha)
  BY DEF KnownInv
<1>1. Known(ha) = {} /\ calls = << >> /\ calls \in Seq(CallRecords)
  BY DEF Init, KeysArrayInit, Known
<1> QED
  BY <1>1 DEF KnownBy

\* Every step keeps what is known in step with the calls.
LEMMA KnownNext == KnownInv /\ [Next]_vars => KnownInv'
<1> SUFFICES ASSUME KnownInv, [Next]_vars PROVE KnownInv'
  OBVIOUS
<1>1. CASE AddKey
  <2>1. PICK k \in Keys : \/ AddDeclined(k.key, k.flags) \/ AddExact(k.key, k.flags)
                          \/ AddHead(k.key, k.flags) \/ AddTail(k.key, k.flags)
    BY <1>1 DEF AddKey
  <2> QED
    BY <2>1, DeclinedKeepsKnown, ExactKeepsKnown, HeadKeepsKnown, TailKeepsKnown
<1>2. CASE Build \/ UNCHANGED vars
  <2>1. calls' = calls /\ ha' = ha
    BY <1>2 DEF Build, vars
  <2> QED
    BY <2>1 DEF KnownInv
<1> QED
  BY <1>1, <1>2 DEF Next

(***************************************************************************)
(* rap_hash_add_key, whatever it is given: two keys that were accepted     *)
(* offer nothing in common, and BUSY always answers a key some part of     *)
(* which was offered by a call before.                                     *)
(***************************************************************************)
THEOREM KeysAreRefusedForAReason == Spec => []RefusedForAReason
<1>1. KnownInv => RefusedForAReason
  BY DEF KnownInv, KnownBy, RefusedForAReason, Accepted, Clash
<1> QED
  BY <1>1, KnownInit, KnownNext, PTL DEF Spec
-----------------------------------------------------------------------------
(***************************************************************************)
(* What goes on from each place to the next holds up to the end, and a     *)
(* function that is defined from each place to the next exists.            *)
(***************************************************************************)
\* A set of numbers has a least one.
LEMMA LeastElement == ASSUME NEW T, T \subseteq Nat, T # {} PROVE \E m \in T : \A k \in T : m <= k
<1> DEFINE R == OpToRel(<, Nat)
<1>1. IsWellFoundedOn(R, Nat)
  BY NatLessThanWellFounded
<1> HIDE DEF R
<1>2. PICK m \in T : \A k \in T : ~ (<<k, m>> \in R)
  BY <1>1, WFMin
<1>3. \A k \in T : ~ (k < m)
  BY <1>2 DEF R, OpToRel
<1> QED
  BY <1>3

\* What holds at a and goes on from each place to the next holds up to b.
LEMMA GoesOn ==
  ASSUME NEW P, NEW a \in Nat, NEW b \in Nat, a \in P, \A k \in a + 1 .. b : k - 1 \in P => k \in P
  PROVE  \A k \in a .. b : k \in P
<1> DEFINE T == {k \in a .. b : k \notin P}
<1> SUFFICES ASSUME T # {} PROVE FALSE
  OBVIOUS
<1>1. PICK m \in T : \A k \in T : m <= k
  <2>1. T \subseteq Nat
    OBVIOUS
  <2> HIDE DEF T
  <2> QED
    BY <2>1, LeastElement
<1>2. m \in a + 1 .. b /\ m - 1 \in a .. b /\ m - 1 < m
  BY <1>1
<1>3. m - 1 \notin T
  <2> HIDE DEF T
  <2> QED
    BY <1>1, <1>2
<1> QED
  BY <1>1, <1>2, <1>3

\* next[k] takes every value in S to one in S.
Closed(S, next, n) == \A k \in 1 .. n : \A y \in S : next[k][y] \in S

\* f is x and then what next makes of the value before.
Runs(S, x, next, n, f) ==
  f \in [0 .. n -> S] /\ f[0] = x /\ \A k \in 1 .. n : f[k] = next[k][f[k - 1]]

\* A function whose values are defined one after the other exists.
LEMMA Recursion ==
  ASSUME NEW S, NEW x \in S, NEW next, NEW n \in Nat, Closed(S, next, n)
  PROVE  \E f : Runs(S, x, next, n, f)
<1> USE DEF Closed
<1> DEFINE Ok(m) == \E f \in [0 .. m -> S] : f[0] = x /\ \A k \in 1 .. m : f[k] = next[k][f[k - 1]]
<1> DEFINE P == {m \in 0 .. n : Ok(m)}
<1>1. Ok(0)
  <2>1. PICK f : f = [k \in 0 .. 0 |-> x]
    OBVIOUS
  <2>2. f \in [0 .. 0 -> S] /\ f[0] = x /\ \A k \in 1 .. 0 : f[k] = next[k][f[k - 1]]
    BY <2>1
  <2> QED
    BY <2>2
<1>2. ASSUME NEW m \in 1 .. n, Ok(m - 1) PROVE Ok(m)
  <2>1. PICK f \in [0 .. m - 1 -> S] : f[0] = x /\ \A k \in 1 .. m - 1 : f[k] = next[k][f[k - 1]]
    BY <1>2
  <2> DEFINE g == [k \in 0 .. m |-> IF k = m THEN next[m][f[m - 1]] ELSE f[k]]
  <2>2. f[m - 1] \in S /\ m - 1 \in 0 .. m - 1
    BY <2>1
  <2>3. g \in [0 .. m -> S] /\ g[0] = x
    BY <2>1, <2>2
  <2>4. \A k \in 1 .. m : g[k] = next[k][g[k - 1]]
    BY <2>1, <2>2
  <2> HIDE DEF g
  <2> QED
    BY <2>3, <2>4
<1>3. 0 \in P
  <2> HIDE DEF Ok
  <2> QED
    BY <1>1
<1>4. \A k \in 0 + 1 .. n : k - 1 \in P => k \in P
  <2> HIDE DEF Ok
  <2> QED
    BY <1>2
<1>5. n \in P
  <2> HIDE DEF P
  <2>1. \A k \in 0 .. n : k \in P
    BY <1>3, <1>4, GoesOn
  <2> QED
    BY <2>1
<1> QED
  BY <1>5 DEF Runs

\* Min is the least number of a set, and Max one of its numbers.
LEMMA MinFacts ==
  ASSUME NEW T, T \subseteq Nat, T # {}
  PROVE  Min(T) \in T /\ \A j \in T : Min(T) <= j
<1>1. \E m \in T : \A j \in T : m <= j
  BY LeastElement
<1> QED
  BY <1>1 DEF Min

\* What Picked builds: f, of the elements of s up to each place.
Picks(s, places, f) ==
  f = [n \in 0 .. Len(s) |->
         IF n = 0 THEN << >>
         ELSE IF n \in places THEN Append(f[n - 1], s[n])
         ELSE f[n - 1]]

\* q holds elements of s, from places up to n, one behind the other; at[i] is the place of the i-th.
PickedAt(s, places, n, q, at) ==
  /\ q \in Seq({s[i] : i \in places}) /\ at \in [1 .. Len(q) -> places \cap 1 .. n]
  /\ \A i \in 1 .. Len(q) : q[i] = s[at[i]]
  /\ \A i, j \in 1 .. Len(q) : i < j => at[i] < at[j]

\* What Picked builds exists.
LEMMA PicksExists ==
  ASSUME NEW S, NEW s \in Seq(S), NEW places
  PROVE  \E f : Picks(s, places, f)
<1> DEFINE next == [n \in 1 .. Len(s) |->
                      [y \in Seq(S) |-> IF n \in places THEN Append(y, s[n]) ELSE y]]
<1> DEFINE N == Len(s)
<1>1. Closed(Seq(S), next, N) /\ N \in Nat /\ << >> \in Seq(S)
  BY DEF Closed
<1>2. PICK f : Runs(Seq(S), << >>, next, N, f)
  <2> HIDE DEF next, N
  <2> QED
    BY <1>1, Recursion
<1>3. \A n \in 1 .. Len(s) :
        f[n - 1] \in Seq(S) /\ f[n] = IF n \in places THEN Append(f[n - 1], s[n]) ELSE f[n - 1]
  <2> TAKE n \in 1 .. Len(s)
  <2>1. n \in 1 .. N /\ n - 1 \in 0 .. N
    BY <1>1
  <2>2. f[n - 1] \in Seq(S) /\ f[n] = next[n][f[n - 1]]
    <3> HIDE DEF next, N
    <3> QED
      BY <1>2, <2>1 DEF Runs
  <2>3. \A y \in Seq(S) : next[n][y] = IF n \in places THEN Append(y, s[n]) ELSE y
    BY <2>1
  <2> HIDE DEF next, N
  <2> QED
    BY <2>2, <2>3
<1>4. f = [n \in 0 .. Len(s) |-> f[n]] /\ f[0] = << >>
  BY <1>2 DEF Runs
<1> HIDE DEF next, N
<1>5. \A n \in 0 .. Len(s) : f[n] = IF n = 0 THEN << >>
                                   ELSE IF n \in places THEN Append(f[n - 1], s[n])
                                   ELSE f[n - 1]
  <2> TAKE n \in 0 .. Len(s)
  <2>1. CASE n = 0
    BY <1>4, <2>1
  <2>2. CASE n \in 1 .. Len(s)
    <3>1. n # 0
      BY <2>2
    <3> QED
      BY <1>3, <2>2, <3>1
  <2> QED
    BY <2>1, <2>2
<1>6. f = [n \in 0 .. Len(s) |-> IF n = 0 THEN << >>
                                   ELSE IF n \in places THEN Append(f[n - 1], s[n])
                                   ELSE f[n - 1]]
  BY <1>4, <1>5
<1> QED
  BY <1>6 DEF Picks

\* One more element is picked.
LEMMA PickedStep ==
  ASSUME NEW s, NEW places, NEW n \in Nat, n + 1 \in places, NEW q, NEW at, PickedAt(s, places, n, q, at)
  PROVE  \E to : PickedAt(s, places, n + 1, Append(q, s[n + 1]), to)
<1> DEFINE r == Append(q, s[n + 1])
<1> DEFINE to == [i \in 1 .. Len(q) + 1 |-> IF i = Len(q) + 1 THEN n + 1 ELSE at[i]]
<1> DEFINE E == {s[i] : i \in places}
<1>1. q \in Seq(E) /\ s[n + 1] \in E /\ Len(q) \in Nat
  BY DEF PickedAt
<1>2. r \in Seq(E) /\ Len(r) = Len(q) + 1 /\ r[Len(q) + 1] = s[n + 1] /\ \A i \in 1 .. Len(q) : r[i] = q[i]
  <2> HIDE DEF E
  <2> QED
    BY <1>1
<1> HIDE DEF r
<1>3. \A i \in 1 .. Len(q) : at[i] \in places /\ at[i] \in 1 .. n /\ q[i] = s[at[i]]
  BY DEF PickedAt
<1>4. to \in [1 .. Len(r) -> places \cap 1 .. n + 1]
  BY <1>1, <1>2, <1>3
<1>5. \A i \in 1 .. Len(r) : r[i] = s[to[i]]
  BY <1>1, <1>2, <1>3
<1>6. \A i, j \in 1 .. Len(r) : i < j => to[i] < to[j]
  BY <1>1, <1>2, <1>3 DEF PickedAt
<1> HIDE DEF to
<1>7. PickedAt(s, places, n + 1, r, to)
  BY <1>2, <1>4, <1>5, <1>6 DEF PickedAt
<1> QED
  BY <1>7 DEF r

\* Picked returns the elements at the places, in their order.
LEMMA PickedFacts ==
  ASSUME NEW S, NEW s \in Seq(S), NEW places
  PROVE  \E at : PickedAt(s, places, Len(s), Picked(s, places), at)
<1> DEFINE f == CHOOSE g : Picks(s, places, g)
<1>1. Picks(s, places, f)
  BY PicksExists
<1>2. Picked(s, places) = f[Len(s)]
  BY DEF Picked, Picks
<1> HIDE DEF f
<1>0. Len(s) \in Nat
  OBVIOUS
<1>3. f[0] = << >> /\ \A n \in 1 .. Len(s) : f[n] = IF n \in places THEN Append(f[n - 1], s[n]) ELSE f[n - 1]
  <2>1. \A n \in 0 .. Len(s) : f[n] = IF n = 0 THEN << >>
                                     ELSE IF n \in places THEN Append(f[n - 1], s[n])
                                     ELSE f[n - 1]
    BY <1>1 DEF Picks
  <2>2. 0 \in 0 .. Len(s) /\ \A n \in 1 .. Len(s) : n \in 0 .. Len(s) /\ n # 0
    BY <1>0
  <2> QED
    BY <2>1, <2>2
<1> DEFINE P == {n \in 0 .. Len(s) : \E at : PickedAt(s, places, n, f[n], at)}
<1>4. 0 \in P
  <2>1. PickedAt(s, places, 0, << >>, << >>)
    BY DEF PickedAt
  <2> QED
    BY <2>1, <1>3
<1>5. \A n \in 0 + 1 .. Len(s) : n - 1 \in P => n \in P
  <2> SUFFICES ASSUME NEW n \in 1 .. Len(s), n - 1 \in P PROVE \E at : PickedAt(s, places, n, f[n], at)
    OBVIOUS
  <2>1. PICK at : PickedAt(s, places, n - 1, f[n - 1], at)
    OBVIOUS
  <2>2. CASE n \in places
    <3> HIDE DEF P
    <3>0. n - 1 \in Nat /\ n - 1 + 1 = n
      BY <1>0
    <3>1. f[n] = Append(f[n - 1], s[n])
      BY <2>2, <1>3
    <3>2. PICK m \in Nat : m = n - 1 /\ m + 1 = n
      BY <3>0
    <3>3. PICK q : q = f[n - 1]
      OBVIOUS
    <3>4. \E to : PickedAt(s, places, m + 1, Append(q, s[m + 1]), to)
      BY <2>1, <2>2, <3>2, <3>3, PickedStep
    <3> QED
      BY <3>1, <3>2, <3>3, <3>4
  <2>3. CASE n \notin places
    <3>1. f[n] = f[n - 1]
      BY <2>3, <1>3
    <3>2. PickedAt(s, places, n, f[n], at)
      BY <2>1, <3>1 DEF PickedAt
    <3> QED
      BY <3>2
  <2> QED
    BY <2>2, <2>3
<1>6. Len(s) \in P
  <2> HIDE DEF P
  <2>1. \A n \in 0 .. Len(s) : n \in P
    BY <1>0, <1>4, <1>5, GoesOn
  <2> QED
    BY <1>0, <2>1
<1> QED
  BY <1>2, <1>6
-----------------------------------------------------------------------------
(***************************************************************************)
(* The order of rap_dns_strcmp.  W(s, i) is the rank of the character at   *)
(* place i of a name: the end is lowest, then the dot.                     *)
(***************************************************************************)
Plain == Codes \ (0 .. 32 \cup 65 .. 90)
PlainTexts == Seq(Plain)
Places == Nat \ {0}

W(s, i) == IF i \in 1 .. Len(s) THEN IF s[i] = DOT THEN 32 ELSE s[i] ELSE 0

Agree(s, t, n) == \A j \in 1 .. n : W(s, j) = W(t, j)
Equal(s, t) == \A j \in Places : W(s, j) = W(t, j)
Below(s, t) == \E i \in Places : Agree(s, t, i - 1) /\ W(s, i) < W(t, i)
AtMost(s, t) == Equal(s, t) \/ Below(s, t)

\* The ranks of the characters of a name.
LEMMA WFacts ==
  ASSUME NEW s \in PlainTexts
  PROVE  /\ Len(s) \in Nat
         /\ \A i \in 1 .. Len(s) : W(s, i) >= 32 /\ W(s, i) # 0
         /\ \A i \in 1 .. Len(s) : /\ s[i] \in Plain /\ W(s, i) \in 32 .. 255
                                   /\ W(s, i) = 32 <=> s[i] = DOT
                                   /\ W(s, i) # 32 => W(s, i) = s[i]
         /\ \A i \in Places : W(s, i) \in Nat
         /\ \A i \in Places : i > Len(s) => W(s, i) = 0
<1>1. Len(s) \in Nat /\ \A i \in 1 .. Len(s) : s[i] \in Plain
  BY DEF PlainTexts
<1>2. \A c \in Plain : c \in 33 .. 255
  BY DEF Plain, Codes
<1>3. \A i \in 1 .. Len(s) : /\ W(s, i) \in 32 .. 255
                             /\ W(s, i) = 32 <=> s[i] = DOT
                             /\ W(s, i) # 32 => W(s, i) = s[i]
  <2> TAKE i \in 1 .. Len(s)
  <2>1. PICK c \in 33 .. 255 : c = s[i]
    BY <1>1, <1>2
  <2>2. W(s, i) = IF c = 46 THEN 32 ELSE c
    BY <2>1 DEF W, DOT
  <2>3. CASE c = 46
    BY <2>1, <2>2, <2>3 DEF DOT
  <2>4. CASE c # 46
    <3>1. W(s, i) = c /\ c # 32 /\ c \in 32 .. 255
      BY <2>2, <2>4
    <3> QED
      BY <2>1, <2>4, <3>1 DEF DOT
  <2> QED
    BY <2>3, <2>4
<1>4. \A i \in Places : i > Len(s) => W(s, i) = 0
  BY <1>1 DEF W, Places
<1>5. \A i \in Places : W(s, i) \in Nat
  <2> TAKE i \in Places
  <2>1. i \in 1 .. Len(s) \/ i > Len(s)
    BY <1>1 DEF Places
  <2>2. CASE i \in 1 .. Len(s)
    <3>1. W(s, i) \in 32 .. 255
      BY <1>3, <2>2
    <3> QED
      BY <3>1
  <2>3. CASE i > Len(s)
    BY <1>4, <2>3
  <2> QED
    BY <2>1, <2>2, <2>3
<1>6. \A i \in 1 .. Len(s) : W(s, i) >= 32 /\ W(s, i) # 0
  <2> TAKE i \in 1 .. Len(s)
  <2>1. PICK w \in 32 .. 255 : w = W(s, i)
    BY <1>3
  <2>2. w >= 32 /\ w # 0
    OBVIOUS
  <2> QED
    BY <2>1, <2>2
<1> QED
  BY <1>1, <1>3, <1>4, <1>5, <1>6

\* Of two names one is at most the other.
LEMMA OrderTotal ==
  ASSUME NEW s \in PlainTexts, NEW t \in PlainTexts
  PROVE  AtMost(s, t) \/ AtMost(t, s)
<1> SUFFICES ASSUME ~ Equal(s, t) PROVE Below(s, t) \/ Below(t, s)
  BY DEF AtMost
<1> DEFINE T == {j \in Places : W(s, j) # W(t, j)}
<1>1. PICK i \in T : \A j \in T : i <= j
  <2>1. T \subseteq Nat /\ T # {}
    BY DEF Equal, Places
  <2> HIDE DEF T
  <2> QED
    BY <2>1, LeastElement
<1>2. i \in Places /\ W(s, i) # W(t, i)
  OBVIOUS
<1>3. Agree(s, t, i - 1) /\ Agree(t, s, i - 1)
  <2> SUFFICES ASSUME NEW j \in 1 .. i - 1 PROVE W(s, j) = W(t, j)
    BY DEF Agree
  <2>1. j \in Places /\ ~ (i <= j)
    BY <1>2 DEF Places
  <2> QED
    BY <1>1, <2>1
<1>4. W(s, i) \in Nat /\ W(t, i) \in Nat
  BY <1>2, WFacts
<1>5. W(s, i) < W(t, i) \/ W(t, i) < W(s, i)
  BY <1>2, <1>4
<1> HIDE DEF T
<1> QED
  BY <1>2, <1>3, <1>5 DEF Below

\* Where names that are in order agree, the next characters are in order.
LEMMA OrderedThere ==
  ASSUME NEW s \in PlainTexts, NEW t \in PlainTexts, AtMost(s, t), NEW n \in Nat, Agree(s, t, n)
  PROVE  W(s, n + 1) <= W(t, n + 1)
<1>1. n + 1 \in Places
  BY DEF Places
<1>2. W(s, n + 1) \in Nat /\ W(t, n + 1) \in Nat
  BY <1>1, WFacts
<1>3. CASE Equal(s, t)
  BY <1>1, <1>2, <1>3 DEF Equal
<1>4. CASE Below(s, t)
  <2>1. PICK i \in Places : Agree(s, t, i - 1) /\ W(s, i) < W(t, i)
    BY <1>4 DEF Below
  <2>2. W(s, i) \in Nat /\ W(t, i) \in Nat /\ i \in Nat
    BY WFacts DEF Places
  <2>3. CASE i <= n
    <3>1. i \in 1 .. n
      BY <2>2, <2>3 DEF Places
    <3> QED
      BY <2>1, <2>2, <3>1 DEF Agree
  <2>4. CASE i = n + 1
    BY <1>2, <2>1, <2>4
  <2>5. CASE i > n + 1
    <3>1. n + 1 \in 1 .. i - 1
      BY <2>2, <2>5
    <3> QED
      BY <1>2, <2>1, <3>1 DEF Agree
  <2> QED
    BY <2>2, <2>3, <2>4, <2>5
<1> QED
  BY <1>3, <1>4 DEF AtMost

\* What lies between two names that agree agrees with them.
LEMMA Between ==
  ASSUME NEW s \in PlainTexts, NEW t \in PlainTexts, NEW u \in PlainTexts, AtMost(s, t), AtMost(t, u),
         NEW n \in Nat, Agree(s, u, n)
  PROVE  Agree(s, t, n)
<1> SUFFICES ASSUME ~ Agree(s, t, n) PROVE FALSE
  OBVIOUS
<1> DEFINE T == {j \in 1 .. n : W(s, j) # W(t, j)}
<1>1. PICK i \in T : \A j \in T : i <= j
  <2>1. T \subseteq Nat /\ T # {}
    BY DEF Agree
  <2> HIDE DEF T
  <2> QED
    BY <2>1, LeastElement
<1>2. i \in 1 .. n /\ W(s, i) # W(t, i)
  OBVIOUS
<1>3. \A j \in 1 .. i - 1 : W(s, j) = W(t, j)
  <2> TAKE j \in 1 .. i - 1
  <2>1. j \in 1 .. n /\ ~ (i <= j)
    BY <1>2
  <2> QED
    BY <1>1, <2>1
<1> HIDE DEF T
<1>4. PICK k \in Nat : i = k + 1
  <2>1. i - 1 \in Nat /\ i = (i - 1) + 1
    BY <1>2
  <2> QED
    BY <2>1
<1>5. Agree(s, t, k) /\ Agree(t, u, k)
  <2>1. \A j \in 1 .. k : j \in 1 .. i - 1 /\ j \in 1 .. n
    BY <1>2, <1>4
  <2> QED
    BY <1>3, <2>1 DEF Agree
<1>6. W(s, i) <= W(t, i) /\ W(t, i) <= W(u, i)
  BY <1>4, <1>5, OrderedThere
<1>7. W(s, i) = W(u, i) /\ W(s, i) \in Nat /\ W(t, i) \in Nat /\ i \in Places
  <2>1. i \in Places
    BY <1>2 DEF Places
  <2> QED
    BY <1>2, <2>1, WFacts DEF Agree
<1> QED
  BY <1>2, <1>6, <1>7

\* Being in order is transitive.
LEMMA OrderTransitive ==
  ASSUME NEW s \in PlainTexts, NEW t \in PlainTexts, NEW u \in PlainTexts, AtMost(s, t), AtMost(t, u)
  PROVE  AtMost(s, u)
<1>1. CASE Equal(s, t)
  <2>1. CASE Equal(t, u)
    BY <1>1, <2>1 DEF AtMost, Equal
  <2>2. CASE Below(t, u)
    <3>1. PICK i \in Places : Agree(t, u, i - 1) /\ W(t, i) < W(u, i)
      BY <2>2 DEF Below
    <3>2. \A j \in 1 .. i - 1 : j \in Places
      BY DEF Places
    <3>3. Agree(s, u, i - 1) /\ W(s, i) < W(u, i)
      BY <1>1, <3>1, <3>2 DEF Agree, Equal
    <3> QED
      BY <3>3 DEF AtMost, Below
  <2> QED
    BY <2>1, <2>2 DEF AtMost
<1>2. CASE Below(s, t)
  <2>1. PICK i \in Places : Agree(s, t, i - 1) /\ W(s, i) < W(t, i)
    BY <1>2 DEF Below
  <2>2. CASE Agree(t, u, i - 1)
    <3>1. PICK k \in Nat : i = k + 1 /\ i - 1 = k
      <4>1. i - 1 \in Nat /\ i = (i - 1) + 1
        BY DEF Places
      <4> QED
        BY <4>1
    <3>2. W(t, i) <= W(u, i)
      BY <2>2, <3>1, OrderedThere
    <3>3. W(s, i) \in Nat /\ W(t, i) \in Nat /\ W(u, i) \in Nat
      BY WFacts
    <3>4. Agree(s, u, i - 1)
      BY <2>1, <2>2 DEF Agree
    <3>5. W(s, i) < W(u, i)
      BY <2>1, <3>2, <3>3
    <3> QED
      BY <3>4, <3>5 DEF AtMost, Below
  <2>3. CASE ~ Agree(t, u, i - 1)
    <3>1. ~ Equal(t, u)
      <4>1. \A j \in 1 .. i - 1 : j \in Places
        BY DEF Places
      <4> QED
        BY <2>3, <4>1 DEF Agree, Equal
    <3>2. PICK k \in Places : Agree(t, u, k - 1) /\ W(t, k) < W(u, k)
      BY <3>1 DEF AtMost, Below
    <3>3. k < i
      <4> SUFFICES ASSUME i <= k PROVE FALSE
        BY DEF Places
      <4>1. \A j \in 1 .. i - 1 : j \in 1 .. k - 1
        BY DEF Places
      <4> QED
        BY <2>3, <3>2, <4>1 DEF Agree
    <3>4. k \in 1 .. i - 1 /\ \A j \in 1 .. k - 1 : j \in 1 .. i - 1
      BY <3>3 DEF Places
    <3>5. Agree(s, u, k - 1) /\ W(s, k) < W(u, k)
      BY <2>1, <3>2, <3>4 DEF Agree
    <3> QED
      BY <3>5 DEF AtMost, Below
  <2> QED
    BY <2>2, <2>3
<1> QED
  BY <1>1, <1>2 DEF AtMost

\* How characters and their ranks agree.
LEMMA CharFacts ==
  ASSUME NEW r \in PlainTexts, NEW i \in Places
  PROVE  /\ Lower(CharAt(r, i)) = CharAt(r, i) /\ CharAt(r, i) \in Nat
         /\ W(r, i) = IF CharAt(r, i) = 46 THEN 32 ELSE CharAt(r, i)
         /\ CharAt(r, i) # 32
         /\ CharAt(r, i) = 0 <=> i > Len(r)
<1>1. Len(r) \in Nat /\ DOMAIN r = 1 .. Len(r)
  BY DEF PlainTexts
<1>2. CASE i \in 1 .. Len(r)
  <2>1. CharAt(r, i) = r[i] /\ r[i] \in Plain
    BY <1>1, <1>2, WFacts DEF CharAt
  <2>2. \A c \in Plain : c \in Nat /\ Lower(c) = c /\ c # 32 /\ c # 0
    BY DEF Plain, Codes, Lower
  <2> QED
    BY <1>1, <1>2, <2>1, <2>2 DEF W, DOT
<1>3. CASE i > Len(r)
  <2>1. CharAt(r, i) = 0 /\ W(r, i) = 0
    BY <1>1, <1>3 DEF CharAt, W, Places
  <2>2. Lower(0) = 0
    BY DEF Lower
  <2> QED
    BY <1>1, <1>3, <2>1, <2>2
<1> QED
  BY <1>1, <1>2, <1>3 DEF Places

\* The greater of two numbers, and the smaller.
LEMMA OfTwo ==
  ASSUME NEW m \in Nat, NEW n \in Nat
  PROVE  /\ Max({m, n}) = IF m >= n THEN m ELSE n
         /\ Min({m, n}) = IF m <= n THEN m ELSE n
<1>1. \E x \in {m, n} : \A y \in {m, n} : x >= y
  <2>1. CASE m >= n
    BY <2>1
  <2>2. CASE n >= m
    BY <2>2
  <2> QED
    BY <2>1, <2>2
<1>2. \E x \in {m, n} : \A y \in {m, n} : x <= y
  <2>1. CASE m >= n
    BY <2>1
  <2>2. CASE n >= m
    BY <2>2
  <2> QED
    BY <2>1, <2>2
<1>3. Max({m, n}) \in {m, n} /\ \A y \in {m, n} : Max({m, n}) >= y
  BY <1>1 DEF Max
<1>4. Min({m, n}) \in {m, n} /\ \A y \in {m, n} : Min({m, n}) <= y
  BY <1>2 DEF Min
<1> QED
  BY <1>3, <1>4

\* rap_dns_strcmp finds names in the order of their ranks.
LEMMA DnsOrder ==
  ASSUME NEW s \in PlainTexts, NEW t \in PlainTexts
  PROVE  DnsStrcmp(s, t) <= 0 <=> AtMost(s, t)
<1> DEFINE N == Min({Whole(s, t), Max({Len(s), Len(t)}) + 1})
<1> DEFINE ends == {i \in 1 .. N : Lower(CharAt(s, i)) # Lower(CharAt(t, i)) \/ Lower(CharAt(s, i)) = 0}
<1> DEFINE Low(c) == IF c = 46 THEN 32 ELSE c
<1>1. N \in Nat /\ N > Len(s) /\ N > Len(t)
  <2>1. Len(s) \in Nat /\ Len(t) \in Nat
    BY WFacts
  <2>2. PICK m \in Nat : m = Max({Len(s), Len(t)}) /\ m >= Len(s) /\ m >= Len(t) /\ (m = Len(s) \/ m = Len(t))
    BY <2>1, OfTwo
  <2>3. Whole(s, t) \in Nat /\ m + 1 \in Nat /\ m + 1 <= Whole(s, t)
    BY <2>1, <2>2 DEF Whole
  <2>4. Min({Whole(s, t), m + 1}) = m + 1
    BY <2>3, OfTwo
  <2> QED
    BY <2>1, <2>2, <2>4
<1>2. \A r \in PlainTexts : \A i \in Places :
        /\ Lower(CharAt(r, i)) = CharAt(r, i) /\ CharAt(r, i) \in Nat
        /\ W(r, i) = Low(CharAt(r, i)) /\ CharAt(r, i) # 32
        /\ CharAt(r, i) = 0 <=> i > Len(r)
  BY CharFacts
<1>3. ends \subseteq Nat /\ ends # {}
  <2>1. N \in 1 .. N /\ N \in Places
    BY <1>1, WFacts DEF Places
  <2>2. Lower(CharAt(s, N)) = 0
    <3> HIDE DEF N
    <3> QED
      BY <1>1, <1>2, <2>1
  <2>3. N \in ends
    BY <2>1, <2>2
  <2>4. 1 .. N \subseteq Nat
    BY <1>1
  <2>5. ends \subseteq 1 .. N
    OBVIOUS
  <2> HIDE DEF ends, N
  <2> QED
    BY <2>3, <2>4, <2>5
<1>4. PICK first \in ends : first = Min(ends) /\ \A j \in ends : first <= j
  <2> HIDE DEF ends
  <2> QED
    BY <1>3, MinFacts
<1>5. DnsStrcmp(s, t) = IF Lower(CharAt(s, first)) = Lower(CharAt(t, first)) THEN 0
                        ELSE Low(Lower(CharAt(s, first))) - Low(Lower(CharAt(t, first)))
  <2>1. DnsStrcmp(s, t) = IF ends = {} THEN 0
                          ELSE IF Lower(CharAt(s, Min(ends))) = Lower(CharAt(t, Min(ends))) THEN 0
                          ELSE Low(Lower(CharAt(s, Min(ends)))) - Low(Lower(CharAt(t, Min(ends))))
    BY DEF DnsStrcmp, Compared, DnsMinus
  <2> HIDE DEF ends, Low
  <2> QED
    BY <2>1, <1>3, <1>4
<1>6. /\ first \in 1 .. N /\ first \in Places
      /\ Lower(CharAt(s, first)) # Lower(CharAt(t, first)) \/ Lower(CharAt(s, first)) = 0
      /\ \A j \in 1 .. first - 1 : j \in Places /\ Lower(CharAt(s, j)) = Lower(CharAt(t, j))
  <2>1. first \in 1 .. N
    OBVIOUS
  <2>2. ASSUME NEW j \in 1 .. first - 1 PROVE j \in Places /\ Lower(CharAt(s, j)) = Lower(CharAt(t, j))
    <3>1. j \in 1 .. N /\ ~ (first <= j)
      BY <1>1, <2>1
    <3>2. j \notin ends
      BY <1>4, <3>1
    <3> QED
      BY <3>1, <3>2 DEF Places
  <2> QED
    BY <1>1, <2>1, <2>2 DEF Places
<1> HIDE DEF ends, N
<1>7. Agree(s, t, first - 1)
  BY <1>2, <1>6 DEF Agree
<1>8. CASE CharAt(s, first) = CharAt(t, first)
  <2>1. first > Len(s) /\ first > Len(t)
    BY <1>2, <1>6, <1>8
  <2>2. Equal(s, t)
    <3> SUFFICES ASSUME NEW j \in Places PROVE W(s, j) = W(t, j)
      BY DEF Equal
    <3>1. CASE j \in 1 .. first - 1
      BY <1>7, <3>1 DEF Agree
    <3>2. CASE j >= first
      <4>1. j > Len(s) /\ j > Len(t)
        BY <1>6, <2>1, <3>2, WFacts DEF Places
      <4> QED
        BY <4>1, WFacts
    <3> QED
      BY <1>6, <3>1, <3>2 DEF Places
  <2>3. DnsStrcmp(s, t) = 0
    BY <1>2, <1>5, <1>6, <1>8
  <2> QED
    BY <2>2, <2>3 DEF AtMost
<1>9. CASE CharAt(s, first) # CharAt(t, first)
  <2>1. W(s, first) \in Nat /\ W(t, first) \in Nat /\ W(s, first) # W(t, first)
    BY <1>2, <1>6, <1>9, WFacts
  <2>2. DnsStrcmp(s, t) = W(s, first) - W(t, first)
    BY <1>2, <1>5, <1>6, <1>9
  <2>3. PICK k \in Nat : first = k + 1 /\ first - 1 = k
    <3>1. first - 1 \in Nat /\ first = (first - 1) + 1
      BY <1>6 DEF Places
    <3> QED
      BY <3>1
  <2>4. AtMost(s, t) => W(s, first) <= W(t, first)
    BY <1>7, <2>3, OrderedThere
  <2>5. W(s, first) < W(t, first) => AtMost(s, t)
    BY <1>6, <1>7 DEF AtMost, Below
  <2> QED
    BY <2>1, <2>2, <2>4, <2>5
<1> QED
  BY <1>8, <1>9
-----------------------------------------------------------------------------
(***************************************************************************)
(* Sorting puts names with wildcards in the order of rap_dns_strcmp.       *)
(***************************************************************************)
Entries == [key : PlainTexts, value : Nat]

InOrder(q) == \A i, j \in 1 .. Len(q) : i < j => AtMost(q[i].key, q[j].key)

Ordered == {q \in Seq(Entries) : InOrder(q)}

InsertedIn(q, e) == InsertAt(q, SortPlace([i \in DOMAIN q |-> DnsStrcmp(q[i].key, e.key)]), e)

\* Max is the greatest number of a set that has one.
LEMMA MaxFacts ==
  ASSUME NEW n \in Nat, NEW T, T \subseteq 0 .. n, T # {}
  PROVE  Max(T) \in T /\ \A j \in T : j <= Max(T)
<1> DEFINE U == {n - j : j \in T}
<1>1. U \subseteq Nat /\ U # {}
  <2>1. \A j \in T : j \in 0 .. n /\ n - j \in Nat
    OBVIOUS
  <2> QED
    BY <2>1
<1>2. PICK m \in U : \A j \in U : m <= j
  <2> HIDE DEF U
  <2> QED
    BY <1>1, LeastElement
<1>3. PICK x \in T : m = n - x
  BY <1>2
<1>4. \A j \in T : x >= j
  <2> TAKE j \in T
  <2>1. n - j \in U /\ j \in 0 .. n /\ x \in 0 .. n
    OBVIOUS
  <2>2. n - x <= n - j
    BY <1>2, <1>3, <2>1
  <2> HIDE DEF U
  <2> QED
    BY <2>1, <2>2
<1>5. Max(T) \in T /\ \A j \in T : Max(T) >= j
  BY <1>4 DEF Max
<1>6. \A j \in T : j \in Nat
  OBVIOUS
<1> QED
  BY <1>5, <1>6

\* What InsertAt returns.
LEMMA InsertAtFacts ==
  ASSUME NEW S, NEW q \in Seq(S), NEW e \in S, NEW p \in 1 .. Len(q) + 1
  PROVE  /\ InsertAt(q, p, e) \in Seq(S) /\ Len(InsertAt(q, p, e)) = Len(q) + 1
         /\ \A i \in 1 .. Len(q) + 1 :
              InsertAt(q, p, e)[i] = IF i < p THEN q[i] ELSE IF i = p THEN e ELSE q[i - 1]
<1>1. Len(q) \in Nat
  OBVIOUS
<1> DEFINE l == SubSeq(q, 1, p - 1)
<1> DEFINE r == SubSeq(q, p, Len(q))
<1>2. l \in Seq(S) /\ Len(l) = p - 1 /\ \A i \in 1 .. p - 1 : l[i] = q[i]
  BY <1>1
<1>3. r \in Seq(S) /\ Len(r) = Len(q) - p + 1 /\ \A i \in 1 .. Len(q) - p + 1 : r[i] = q[p + i - 1]
  BY <1>1
<1>4. <<e>> \in Seq(S) /\ Len(<<e>>) = 1 /\ <<e>>[1] = e
  OBVIOUS
<1>5. InsertAt(q, p, e) = l \o <<e>> \o r
  BY DEF InsertAt
<1> HIDE DEF l, r
<1>6. PICK m : m = l \o <<e>>
  OBVIOUS
<1>7. m \in Seq(S) /\ Len(m) = p /\ (\A i \in 1 .. p - 1 : m[i] = q[i]) /\ m[p] = e
  BY <1>1, <1>2, <1>4, <1>6
<1>8. PICK t : t = m \o r
  OBVIOUS
<1>9. /\ t \in Seq(S) /\ Len(t) = Len(q) + 1
      /\ \A i \in 1 .. p : t[i] = m[i]
      /\ \A i \in p + 1 .. Len(q) + 1 : t[i] = r[i - p]
  <2>1. /\ t \in Seq(S) /\ Len(t) = Len(m) + Len(r)
        /\ \A i \in 1 .. Len(m) : t[i] = m[i]
        /\ \A i \in Len(m) + 1 .. Len(m) + Len(r) : t[i] = r[i - Len(m)]
    BY <1>3, <1>7, <1>8
  <2>2. Len(m) = p /\ Len(m) + Len(r) = Len(q) + 1
    BY <1>1, <1>3, <1>7
  <2> QED
    BY <2>1, <2>2
<1>10. \A i \in 1 .. Len(q) + 1 : t[i] = IF i < p THEN q[i] ELSE IF i = p THEN e ELSE q[i - 1]
  <2> TAKE i \in 1 .. Len(q) + 1
  <2>1. CASE i < p
    BY <1>1, <1>7, <1>9, <2>1
  <2>2. CASE i = p
    BY <1>1, <1>7, <1>9, <2>2
  <2>3. CASE i > p
    <3>1. i \in p + 1 .. Len(q) + 1 /\ i - p \in 1 .. Len(q) - p + 1 /\ p + (i - p) - 1 = i - 1
      BY <1>1, <2>3
    <3> QED
      BY <1>3, <1>9, <2>3, <3>1
  <2> QED
    BY <1>1, <2>1, <2>2, <2>3
<1> QED
  BY <1>5, <1>6, <1>8, <1>9, <1>10

\* Behind those not greater a name keeps the others in order.
LEMMA Inserted ==
  ASSUME NEW q \in Ordered, NEW e \in Entries
  PROVE  InsertedIn(q, e) \in Ordered
<1>1. q \in Seq(Entries) /\ Len(q) \in Nat /\ DOMAIN q = 1 .. Len(q) /\ InOrder(q)
  BY DEF Ordered
<1>2. e.key \in PlainTexts /\ \A i \in 1 .. Len(q) : q[i].key \in PlainTexts
  <2>1. \A i \in 1 .. Len(q) : q[i] \in Entries
    BY <1>1
  <2>2. \A x \in Entries : x.key \in PlainTexts
    BY DEF Entries
  <2> QED
    BY <2>1, <2>2
<1> DEFINE order == [i \in DOMAIN q |-> DnsStrcmp(q[i].key, e.key)]
<1> DEFINE upTo == {i \in DOMAIN order : order[i] <= 0}
<1> DEFINE p == SortPlace(order)
<1>3. \A i \in 1 .. Len(q) : i \in upTo <=> AtMost(q[i].key, e.key)
  BY <1>1, <1>2, DnsOrder
<1>4. upTo \subseteq 0 .. Len(q) /\ 0 \notin upTo
  BY <1>1
<1>5. p = IF upTo = {} THEN 1 ELSE Max(upTo) + 1
  BY DEF SortPlace
<1> HIDE DEF order, upTo, p
<1>6. /\ p \in 1 .. Len(q) + 1
      /\ \A i \in 1 .. p - 1 : AtMost(q[i].key, e.key)
      /\ \A i \in p .. Len(q) : AtMost(e.key, q[i].key)
  <2>1. CASE upTo = {}
    <3>1. p = 1 /\ \A i \in 1 .. Len(q) : ~ AtMost(q[i].key, e.key)
      BY <1>3, <1>5, <2>1
    <3> QED
      BY <1>1, <1>2, <3>1, OrderTotal
  <2>2. CASE upTo # {}
    <3>1. PICK m \in upTo : p = m + 1 /\ \A j \in upTo : j <= m
      BY <1>1, <1>4, <1>5, <2>2, MaxFacts
    <3>2. m \in 1 .. Len(q) /\ AtMost(q[m].key, e.key)
      BY <1>1, <1>3, <1>4, <3>1
    <3>3. ASSUME NEW i \in 1 .. p - 1 PROVE AtMost(q[i].key, e.key)
      <4>1. i = m \/ i < m
        BY <3>1, <3>2
      <4>2. CASE i < m
        <5>1. i \in 1 .. Len(q) /\ AtMost(q[i].key, q[m].key)
          BY <1>1, <3>2, <4>2 DEF InOrder
        <5> QED
          BY <1>2, <3>2, <5>1, OrderTransitive
      <4> QED
        BY <3>2, <4>1, <4>2
    <3>4. ASSUME NEW i \in p .. Len(q) PROVE AtMost(e.key, q[i].key)
      <4>1. i \in 1 .. Len(q) /\ ~ (i <= m)
        BY <3>1, <3>2
      <4>2. ~ AtMost(q[i].key, e.key)
        BY <1>3, <3>1, <4>1
      <4> QED
        BY <1>2, <4>1, <4>2, OrderTotal
    <3>5. p \in 1 .. Len(q) + 1
      BY <1>1, <3>1, <3>2
    <3> QED
      BY <3>3, <3>4, <3>5
  <2> QED
    BY <2>1, <2>2
<1> DEFINE r == InsertAt(q, p, e)
<1>7. /\ r \in Seq(Entries) /\ Len(r) = Len(q) + 1
      /\ \A i \in 1 .. Len(q) + 1 : r[i] = IF i < p THEN q[i] ELSE IF i = p THEN e ELSE q[i - 1]
  BY <1>1, <1>6, InsertAtFacts
<1>8. InsertedIn(q, e) = r
  BY DEF InsertedIn, order, p
<1> HIDE DEF r
<1>9. ASSUME NEW i \in 1 .. Len(r), NEW j \in 1 .. Len(r), i < j PROVE AtMost(r[i].key, r[j].key)
  <2>0. i \in 1 .. Len(q) + 1 /\ j \in 1 .. Len(q) + 1
    BY <1>7
  <2>1. CASE j < p
    <3>1. r[i] = q[i] /\ r[j] = q[j] /\ i \in 1 .. Len(q) /\ j \in 1 .. Len(q)
      BY <1>1, <1>6, <1>7, <1>9, <2>0, <2>1
    <3> QED
      BY <1>1, <1>9, <3>1 DEF InOrder
  <2>2. CASE j = p
    <3>1. r[i] = q[i] /\ r[j] = e /\ i \in 1 .. p - 1
      BY <1>1, <1>6, <1>7, <1>9, <2>0, <2>2
    <3> QED
      BY <1>6, <3>1
  <2>3. CASE j > p /\ i < p
    <3>1. r[i] = q[i] /\ r[j] = q[j - 1]
      BY <1>1, <1>6, <1>7, <1>9, <2>0, <2>3
    <3>2. i \in 1 .. p - 1 /\ j - 1 \in p .. Len(q) /\ i \in 1 .. Len(q) /\ j - 1 \in 1 .. Len(q)
      BY <1>1, <1>6, <2>0, <2>3
    <3>3. AtMost(q[i].key, e.key) /\ AtMost(e.key, q[j - 1].key)
      BY <1>6, <3>2
    <3> QED
      BY <1>2, <3>1, <3>2, <3>3, OrderTransitive
  <2>4. CASE i = p
    <3>1. r[i] = e /\ r[j] = q[j - 1] /\ j - 1 \in p .. Len(q)
      BY <1>1, <1>6, <1>7, <1>9, <2>0, <2>4
    <3> QED
      BY <1>6, <3>1
  <2>5. CASE i > p
    <3>1. r[i] = q[i - 1] /\ r[j] = q[j - 1]
      BY <1>1, <1>6, <1>7, <1>9, <2>0, <2>5
    <3>2. i - 1 \in 1 .. Len(q) /\ j - 1 \in 1 .. Len(q) /\ i - 1 < j - 1
      BY <1>1, <1>6, <1>9, <2>0, <2>5
    <3> QED
      BY <1>1, <3>1, <3>2 DEF InOrder
  <2> QED
    BY <1>6, <1>9, <2>0, <2>1, <2>2, <2>3, <2>4, <2>5
<1>10. r \in Ordered
  BY <1>7, <1>9 DEF Ordered, InOrder
<1> QED
  BY <1>8, <1>10

\* What Sorted builds.
Sorts(names, f) ==
  f = [n \in 0 .. Len(names) |-> IF n = 0 THEN << >> ELSE InsertedIn(f[n - 1], names[n])]

\* What Sorted builds exists.
LEMMA SortsExists ==
  ASSUME NEW names \in Seq(Entries)
  PROVE  \E f : Sorts(names, f)
<1> DEFINE N == Len(names)
<1> DEFINE next == [n \in 1 .. N |-> [y \in Ordered |-> InsertedIn(y, names[n])]]
<1>1. N \in Nat /\ \A n \in 1 .. N : names[n] \in Entries
  OBVIOUS
<1>2. Closed(Ordered, next, N)
  <2> HIDE DEF N
  <2> QED
    BY <1>1, Inserted DEF Closed
<1>3. << >> \in Ordered
  BY DEF Ordered, InOrder
<1>4. PICK f : Runs(Ordered, << >>, next, N, f)
  <2> HIDE DEF next, N
  <2> QED
    BY <1>1, <1>2, <1>3, Recursion
<1>5. \A n \in 1 .. N : f[n - 1] \in Ordered /\ f[n] = InsertedIn(f[n - 1], names[n])
  <2> TAKE n \in 1 .. N
  <2>1. n - 1 \in 0 .. N
    BY <1>1
  <2>2. f[n - 1] \in Ordered /\ f[n] = next[n][f[n - 1]]
    <3> HIDE DEF next, N
    <3> QED
      BY <1>4, <2>1 DEF Runs
  <2>3. \A y \in Ordered : next[n][y] = InsertedIn(y, names[n])
    OBVIOUS
  <2> HIDE DEF next, N
  <2> QED
    BY <2>2, <2>3
<1>6. f = [n \in 0 .. N |-> f[n]] /\ f[0] = << >>
  BY <1>4 DEF Runs
<1> HIDE DEF next
<1>7. \A n \in 0 .. N : f[n] = IF n = 0 THEN << >> ELSE InsertedIn(f[n - 1], names[n])
  <2> TAKE n \in 0 .. N
  <2>1. n = 0 \/ (n # 0 /\ n \in 1 .. N)
    BY <1>1
  <2> HIDE DEF N
  <2> QED
    BY <1>5, <1>6, <2>1
<1> QED
  BY <1>6, <1>7 DEF Sorts

\* rap_sort with rap_dns_strcmp puts names in order.
LEMMA SortedOrdered ==
  ASSUME NEW names \in Seq(Entries)
  PROVE  Sorted(names) \in Ordered
<1> DEFINE f == CHOOSE g : Sorts(names, g)
<1>1. Sorts(names, f)
  BY SortsExists
<1>2. Sorted(names) = f[Len(names)]
  BY DEF Sorted, Sort, Sorts, InsertedIn
<1> HIDE DEF f
<1> DEFINE N == Len(names)
<1>3. N \in Nat /\ \A n \in 1 .. N : names[n] \in Entries
  OBVIOUS
<1>4. f[0] = << >> /\ \A n \in 1 .. N : f[n] = InsertedIn(f[n - 1], names[n])
  <2>1. \A n \in 0 .. N : f[n] = IF n = 0 THEN << >> ELSE InsertedIn(f[n - 1], names[n])
    BY <1>1 DEF Sorts
  <2>2. 0 \in 0 .. N /\ \A n \in 1 .. N : n \in 0 .. N /\ n # 0
    BY <1>3
  <2> HIDE DEF N
  <2> QED
    BY <2>1, <2>2
<1> HIDE DEF N
<1> DEFINE P == {n \in 0 .. N : f[n] \in Ordered}
<1>5. 0 \in P
  <2>1. << >> \in Ordered
    BY DEF Ordered, InOrder
  <2> QED
    BY <1>3, <1>4, <2>1
<1>6. \A n \in 0 + 1 .. N : n - 1 \in P => n \in P
  <2> SUFFICES ASSUME NEW n \in 1 .. N, n - 1 \in P PROVE f[n] \in Ordered
    BY <1>3
  <2> QED
    BY <1>3, <1>4, Inserted
<1>7. N \in P
  <2> HIDE DEF P
  <2>1. \A n \in 0 .. N : n \in P
    BY <1>3, <1>5, <1>6, GoesOn
  <2> QED
    BY <1>3, <2>1
<1> QED
  BY <1>2, <1>7 DEF N
-----------------------------------------------------------------------------
(***************************************************************************)
(* The first label of a name, and what is left of the name behind it.      *)
(***************************************************************************)
\* How many characters Follows compares.
Compares(s) == IF DotAt(s) = 0 THEN Len(s) ELSE DotAt(s)

Rest(s, m) == SubSeq(s, m + 2, Len(s))

\* DotAt is the place of the first dot.
LEMMA DotFacts ==
  ASSUME NEW S, NEW s \in Seq(S)
  PROVE  /\ Len(s) \in Nat /\ DotAt(s) \in 0 .. Len(s)
         /\ DotAt(s) # 0 => s[DotAt(s)] = DOT
         /\ \A i \in 1 .. Len(s) : i < DotAt(s) \/ DotAt(s) = 0 => s[i] # DOT
<1>1. Len(s) \in Nat
  OBVIOUS
<1> DEFINE I == {i \in 1 .. Len(s) : s[i] = DOT}
<1>2. DotAt(s) = IF I # {} THEN Min(I) ELSE 0
  BY DEF DotAt, SelectInSeq
<1>3. I \subseteq 1 .. Len(s) /\ I \subseteq Nat
  BY <1>1
<1>4. CASE I = {}
  BY <1>1, <1>2, <1>4
<1>5. CASE I # {}
  <2>1. PICK d \in I : d = DotAt(s) /\ \A j \in I : d <= j
    <3> HIDE DEF I
    <3> QED
      BY <1>2, <1>3, <1>5, MinFacts
  <2>2. d \in 1 .. Len(s) /\ s[d] = DOT
    OBVIOUS
  <2>3. \A i \in 1 .. Len(s) : i < d => s[i] # DOT
    <3> TAKE i \in 1 .. Len(s)
    <3>1. i < d => i \notin I
      BY <1>1, <2>1, <2>2
    <3> QED
      BY <3>1
  <2> QED
    BY <1>1, <2>1, <2>2, <2>3
<1> QED
  BY <1>4, <1>5

\* A label ends before the first dot.
LEMMA LabelFacts ==
  ASSUME NEW S, NEW s \in Seq(S)
  PROVE  /\ Label(s) \in Seq(S) /\ Len(Label(s)) \in 0 .. Len(s)
         /\ Len(Label(s)) = IF DotAt(s) = 0 THEN Len(s) ELSE DotAt(s) - 1
         /\ \A i \in 1 .. Len(Label(s)) : Label(s)[i] = s[i] /\ s[i] # DOT
<1>1. Len(s) \in Nat /\ DotAt(s) \in 0 .. Len(s)
  BY DotFacts
<1>2. CASE DotAt(s) = 0
  BY <1>1, <1>2, DotFacts DEF Label
<1>3. CASE DotAt(s) # 0
  <2>1. PICK d \in 1 .. Len(s) : d = DotAt(s)
    BY <1>1, <1>3
  <2>2. Label(s) = SubSeq(s, 1, d - 1)
    BY <1>3, <2>1 DEF Label
  <2>3. PICK l : l = SubSeq(s, 1, d - 1)
    OBVIOUS
  <2>4. l \in Seq(S) /\ Len(l) = d - 1 /\ \A i \in 1 .. d - 1 : l[i] = s[i]
    BY <1>1, <2>1, <2>3
  <2>5. \A i \in 1 .. d - 1 : i \in 1 .. Len(s) /\ i < DotAt(s)
    BY <1>1, <2>1
  <2> QED
    BY <1>1, <1>3, <2>1, <2>2, <2>3, <2>4, <2>5, DotFacts
<1> QED
  BY <1>2, <1>3

\* What is left of a name behind m characters and the dot.
LEMMA RestFacts ==
  ASSUME NEW S, NEW s \in Seq(S), NEW m \in 0 .. Len(s)
  PROVE  /\ Rest(s, m) \in Seq(S)
         /\ Len(Rest(s, m)) = IF m < Len(s) THEN Len(s) - m - 1 ELSE 0
         /\ \A i \in 1 .. Len(Rest(s, m)) : m + 1 + i \in 1 .. Len(s) /\ Rest(s, m)[i] = s[m + 1 + i]
<1>1. Len(s) \in Nat
  OBVIOUS
<1>2. CASE m < Len(s)
  <2>1. m + 2 \in 1 .. Len(s) + 1
    BY <1>1, <1>2
  <2>2. PICK r : r = SubSeq(s, m + 2, Len(s))
    OBVIOUS
  <2>3. r \in Seq(S) /\ Len(r) = Len(s) - m - 1
    BY <1>1, <1>2, <2>1, <2>2
  <2>4. \A i \in 1 .. Len(s) - m - 1 : m + 1 + i \in 1 .. Len(s) /\ r[i] = s[m + 1 + i]
    BY <1>1, <1>2, <2>1, <2>2
  <2> QED
    BY <1>2, <2>2, <2>3, <2>4 DEF Rest
<1>3. CASE m = Len(s)
  <2>1. Rest(s, m) = << >>
    BY <1>1, <1>3 DEF Rest
  <2> QED
    BY <1>1, <1>3, <2>1
<1> QED
  BY <1>1, <1>2, <1>3

\* What the ranks say of the label: it ends with the name or with a dot.
LEMMA LabelRanks ==
  ASSUME NEW s \in PlainTexts
  PROVE  /\ Len(Label(s)) \in 0 .. Len(s)
         /\ \A i \in 1 .. Len(Label(s)) : W(s, i) = Label(s)[i] /\ W(s, i) \notin {0, 32}
         /\ W(s, Len(Label(s)) + 1) = IF DotAt(s) = 0 THEN 0 ELSE 32
         /\ Compares(s) = IF DotAt(s) = 0 THEN Len(Label(s)) ELSE Len(Label(s)) + 1
<1>1. s \in Seq(Plain) /\ Len(s) \in Nat /\ DotAt(s) \in 0 .. Len(s)
  BY DotFacts DEF PlainTexts
<1>2. PICK m \in 0 .. Len(s) : m = Len(Label(s)) /\ m = IF DotAt(s) = 0 THEN Len(s) ELSE DotAt(s) - 1
  BY <1>1, LabelFacts
<1>3. \A i \in 1 .. m : Label(s)[i] = s[i] /\ s[i] # DOT
  BY <1>1, <1>2, LabelFacts
<1>4. \A i \in 1 .. m : W(s, i) = Label(s)[i] /\ W(s, i) \notin {0, 32}
  <2> TAKE i \in 1 .. m
  <2>1. i \in 1 .. Len(s)
    BY <1>1
  <2>2. W(s, i) # 32 /\ W(s, i) = s[i] /\ W(s, i) # 0
    BY <1>3, <2>1, WFacts
  <2> QED
    BY <1>3, <2>2
<1>5. CASE DotAt(s) = 0
  <2>1. m + 1 > Len(s) /\ m + 1 \in Places
    BY <1>1, <1>2, <1>5 DEF Places
  <2> QED
    BY <1>2, <1>4, <1>5, <2>1, WFacts DEF Compares
<1>6. CASE DotAt(s) # 0
  <2>1. m + 1 = DotAt(s) /\ m + 1 \in 1 .. Len(s) /\ s[m + 1] = DOT
    BY <1>1, <1>2, <1>6, DotFacts
  <2> QED
    BY <1>2, <1>4, <1>6, <2>1, WFacts DEF Compares
<1> QED
  BY <1>5, <1>6

\* rap_strncmp finds no difference where the ranks agree.
LEMMA StrncmpFacts ==
  ASSUME NEW s \in PlainTexts, NEW t \in PlainTexts, NEW n \in 0 .. Len(s)
  PROVE  Strncmp(s, t, n) = 0 <=> Agree(s, t, n)
<1> DEFINE N == Min({n, Max({Len(s), Len(t)}) + 1})
<1> DEFINE ends == {i \in 1 .. N : CharAt(s, i) # CharAt(t, i) \/ CharAt(s, i) = 0}
<1>1. Len(s) \in Nat /\ Len(t) \in Nat /\ n \in Nat /\ n <= Len(s)
  BY WFacts
<1>2. N = n
  <2>1. PICK m \in Nat : m = Max({Len(s), Len(t)}) /\ m >= Len(s)
    BY <1>1, OfTwo
  <2>2. Min({n, m + 1}) = n
    <3>1. m + 1 \in Nat /\ n <= m + 1
      BY <1>1, <2>1
    <3> QED
      BY <1>1, <3>1, OfTwo
  <2> QED
    BY <2>1, <2>2
<1>3. Strncmp(s, t, n) = IF ends = {} THEN 0
                         ELSE IF CharAt(s, Min(ends)) = CharAt(t, Min(ends)) THEN 0
                         ELSE CharAt(s, Min(ends)) - CharAt(t, Min(ends))
  BY DEF Strncmp, Compared, Same, Minus
<1>4. \A i \in 1 .. n : i \in Places /\ CharAt(s, i) # 0 /\ CharAt(s, i) \in Nat /\ CharAt(t, i) \in Nat
                        /\ (CharAt(s, i) = CharAt(t, i) <=> W(s, i) = W(t, i))
  <2> TAKE i \in 1 .. n
  <2>1. i \in Places /\ ~ (i > Len(s))
    BY <1>1 DEF Places
  <2> QED
    BY <2>1, CharFacts
<1>5. ends = {i \in 1 .. n : W(s, i) # W(t, i)}
  BY <1>2, <1>4
<1> HIDE DEF N, ends
<1>6. CASE ends = {}
  BY <1>3, <1>5, <1>6 DEF Agree
<1>7. CASE ends # {}
  <2>1. ends \subseteq Nat /\ Min(ends) \in ends
    <3>1. ends \subseteq Nat
      BY <1>1, <1>5
    <3> QED
      BY <1>7, <3>1, MinFacts
  <2>2. PICK f \in 1 .. n : f = Min(ends) /\ W(s, f) # W(t, f)
    BY <1>5, <2>1
  <2>3. CharAt(s, f) # CharAt(t, f) /\ CharAt(s, f) \in Nat /\ CharAt(t, f) \in Nat
    BY <1>4, <2>2
  <2>4. Strncmp(s, t, n) = CharAt(s, f) - CharAt(t, f)
    BY <1>3, <1>7, <2>2, <2>3
  <2>5. Strncmp(s, t, n) # 0
    BY <2>3, <2>4
  <2> QED
    BY <2>2, <2>5 DEF Agree
<1> QED
  BY <1>6, <1>7

\* A name follows another when it begins with its label.
LEMMA FollowsFacts ==
  ASSUME NEW s \in PlainTexts, NEW t \in PlainTexts
  PROVE  Follows(s, t) <=> /\ Agree(s, t, Compares(s))
                           /\ W(t, Len(Label(s)) + 1) \in {0, 32}
<1>1. s \in Seq(Plain) /\ t \in Seq(Plain) /\ Len(s) \in Nat /\ Len(t) \in Nat /\ DotAt(s) \in 0 .. Len(s)
  BY DotFacts DEF PlainTexts
<1>2. PICK n \in 0 .. Len(s) : n = Compares(s)
  BY <1>1 DEF Compares
<1>3. Follows(s, t) <=> /\ Strncmp(s, t, n) = 0
                        /\ ~(DotAt(s) = 0 /\ Len(t) > n /\ t[n + 1] # DOT)
  BY <1>2 DEF Follows, Compares
<1>4. Strncmp(s, t, n) = 0 <=> Agree(s, t, n)
  BY <1>2, StrncmpFacts
<1>5. CASE DotAt(s) = 0
  <2>1. n = Len(Label(s))
    BY <1>2, <1>5, LabelRanks
  <2>2. W(t, n + 1) \in {0, 32} <=> ~(Len(t) > n /\ t[n + 1] # DOT)
    <3>1. CASE n + 1 \in 1 .. Len(t)
      <4>1. W(t, n + 1) # 0 /\ (W(t, n + 1) = 32 <=> t[n + 1] = DOT)
        BY <3>1, WFacts
      <4>2. Len(t) > n
        BY <1>1, <3>1
      <4> QED
        BY <4>1, <4>2
    <3>2. CASE n + 1 > Len(t)
      <4>1. W(t, n + 1) = 0
        BY <1>1, <3>2, WFacts DEF Places
      <4>2. ~ (Len(t) > n)
        BY <1>1, <3>2
      <4> QED
        BY <4>1, <4>2
    <3> QED
      BY <1>1, <3>1, <3>2
  <2> QED
    BY <1>2, <1>3, <1>4, <1>5, <2>1, <2>2
<1>6. CASE DotAt(s) # 0
  <2>1. PICK m \in Nat : m = Len(Label(s)) /\ n = m + 1 /\ W(s, m + 1) = 32
    BY <1>1, <1>2, <1>6, LabelRanks
  <2>2. Agree(s, t, n) => W(t, m + 1) = 32
    BY <2>1 DEF Agree
  <2> QED
    BY <1>2, <1>3, <1>4, <1>6, <2>1, <2>2
<1> QED
  BY <1>5, <1>6

\* A name between two that have the same label follows the first.
LEMMA BetweenFollows ==
  ASSUME NEW s \in PlainTexts, NEW t \in PlainTexts, NEW u \in PlainTexts, AtMost(s, t), AtMost(t, u),
         Label(s) = Label(u)
  PROVE  Follows(s, t)
<1>1. PICK m \in Nat : m = Len(Label(s)) /\ m = Len(Label(u))
  BY LabelRanks, WFacts
<1>2. Agree(s, u, m)
  BY <1>1, LabelRanks DEF Agree
<1>3. Agree(s, t, m) /\ Agree(t, u, m)
  <2>1. Agree(s, t, m)
    BY <1>2, Between
  <2> QED
    BY <1>2, <2>1 DEF Agree
<1>4. W(s, m + 1) <= W(t, m + 1) /\ W(t, m + 1) <= W(u, m + 1)
  BY <1>3, OrderedThere
<1>5. W(s, m + 1) \in {0, 32} /\ W(u, m + 1) \in {0, 32} /\ W(t, m + 1) \in Nat
  <2>1. m + 1 \in Places
    BY DEF Places
  <2> QED
    BY <1>1, <2>1, LabelRanks, WFacts
<1>6. W(t, m + 1) \in {0, 32}
  <2>1. W(t, m + 1) <= 32 /\ (m + 1 \in 1 .. Len(t) => W(t, m + 1) >= 32)
    <3>1. m + 1 \in 1 .. Len(t) => W(t, m + 1) >= 32
      BY WFacts
    <3> QED
      BY <1>4, <1>5, <3>1
  <2>2. m + 1 > Len(t) => W(t, m + 1) = 0
    BY WFacts DEF Places
  <2>3. m + 1 \in 1 .. Len(t) \/ m + 1 > Len(t)
    BY WFacts
  <2> QED
    BY <1>5, <2>1, <2>2, <2>3
<1>7. Agree(s, t, Compares(s))
  <2>1. CASE DotAt(s) = 0
    BY <1>1, <1>3, <2>1, LabelRanks
  <2>2. CASE DotAt(s) # 0
    <3>1. Compares(s) = m + 1 /\ W(s, m + 1) = 32
      BY <1>1, <2>2, LabelRanks
    <3>2. W(t, m + 1) = 32
      BY <1>4, <1>6, <3>1
    <3>3. \A j \in 1 .. m + 1 : j \in 1 .. m \/ j = m + 1
      OBVIOUS
    <3> QED
      BY <1>3, <3>1, <3>2, <3>3 DEF Agree
  <2> QED
    BY <2>1, <2>2
<1> QED
  BY <1>1, <1>6, <1>7, FollowsFacts

\* Behind a common label names keep their order.
LEMMA RestOrdered ==
  ASSUME NEW s \in PlainTexts, NEW t \in PlainTexts, AtMost(s, t), NEW m \in Nat, Agree(s, t, m),
         m <= Len(s), m <= Len(t), W(s, m + 1) \in {0, 32}, W(t, m + 1) \in {0, 32}
  PROVE  /\ Rest(s, m) \in PlainTexts /\ Rest(t, m) \in PlainTexts
         /\ AtMost(Rest(s, m), Rest(t, m))
<1>1. ASSUME NEW r \in PlainTexts, m <= Len(r)
      PROVE  Rest(r, m) \in PlainTexts /\ \A i \in Places : W(Rest(r, m), i) = W(r, m + 1 + i)
  <2>1. /\ r \in Seq(Plain) /\ Len(r) \in Nat /\ m \in 0 .. Len(r)
    BY <1>1 DEF PlainTexts
  <2>2. PICK q : q = Rest(r, m)
    OBVIOUS
  <2>3. /\ q \in Seq(Plain) /\ Len(q) = IF m < Len(r) THEN Len(r) - m - 1 ELSE 0
        /\ \A i \in 1 .. Len(q) : m + 1 + i \in 1 .. Len(r) /\ q[i] = r[m + 1 + i]
    BY <2>1, <2>2, RestFacts
  <2>4. ASSUME NEW i \in Places PROVE W(q, i) = W(r, m + 1 + i)
    <3>1. CASE i \in 1 .. Len(q)
      BY <2>3, <3>1 DEF W
    <3>2. CASE i > Len(q)
      <4>1. i \in Nat /\ i >= 1 /\ Len(q) \in Nat
        BY <2>1, <2>3 DEF Places
      <4>2. m + 1 + i > Len(r)
        BY <2>1, <2>3, <3>2, <4>1
      <4> QED
        BY <2>1, <3>2, <4>1, <4>2 DEF W
    <3> QED
      BY <2>3, <3>1, <3>2 DEF Places
  <2> QED
    BY <2>2, <2>3, <2>4 DEF PlainTexts
<1>2. PICK q \in PlainTexts : q = Rest(s, m) /\ \A i \in Places : W(q, i) = W(s, m + 1 + i)
  BY <1>1
<1>3. PICK r \in PlainTexts : r = Rest(t, m) /\ \A i \in Places : W(r, i) = W(t, m + 1 + i)
  BY <1>1
<1>4. AtMost(q, r)
  <2>1. CASE Equal(s, t)
    <3>1. \A i \in Places : m + 1 + i \in Places
      BY DEF Places
    <3> QED
      BY <1>2, <1>3, <2>1, <3>1 DEF Equal, AtMost
  <2>2. CASE Below(s, t)
    <3>1. PICK k \in Places : Agree(s, t, k - 1) /\ W(s, k) < W(t, k)
      BY <2>2 DEF Below
    <3>2. k \in Nat /\ W(s, k) \in Nat /\ W(t, k) \in Nat
      BY WFacts DEF Places
    <3>3. CASE k <= m
      <4>1. k \in 1 .. m
        BY <3>2, <3>3 DEF Places
      <4> QED
        BY <3>1, <3>2, <4>1 DEF Agree
    <3>4. CASE k = m + 1
      <4>1. W(s, m + 1) = 0
        BY <3>1, <3>4
      <4>2. Len(s) = m
        <5>1. m + 1 \in 1 .. Len(s) => W(s, m + 1) # 0
          BY WFacts
        <5> QED
          BY <4>1, <5>1, WFacts
      <4>3. \A i \in Places : W(q, i) = 0 /\ W(r, i) \in Nat
        <5> TAKE i \in Places
        <5>1. m + 1 + i \in Places /\ m + 1 + i > Len(s)
          BY <4>2 DEF Places
        <5> QED
          BY <1>2, <5>1, WFacts
      <4>4. AtMost(q, r) \/ AtMost(r, q)
        BY OrderTotal
      <4>5. CASE AtMost(r, q)
        <5>1. ~ Below(r, q)
          <6> SUFFICES ASSUME NEW i \in Places, W(r, i) < W(q, i) PROVE FALSE
            BY DEF Below
          <6> QED
            BY <4>3
        <5> QED
          BY <4>5, <5>1 DEF AtMost, Equal
      <4> QED
        BY <4>4, <4>5
    <3>5. CASE k > m + 1
      <4>1. PICK i \in Places : k = m + 1 + i
        <5>1. k - (m + 1) \in Places /\ k = m + 1 + (k - (m + 1))
          BY <3>2, <3>5 DEF Places
        <5> QED
          BY <5>1
      <4>2. Agree(q, r, i - 1)
        <5> SUFFICES ASSUME NEW j \in 1 .. i - 1 PROVE W(q, j) = W(r, j)
          BY DEF Agree
        <5>1. j \in Places /\ m + 1 + j \in 1 .. k - 1
          BY <4>1 DEF Places
        <5> QED
          BY <1>2, <1>3, <3>1, <5>1 DEF Agree
      <4>3. W(q, i) < W(r, i)
        BY <1>2, <1>3, <3>1, <4>1
      <4> QED
        BY <4>2, <4>3 DEF AtMost, Below
    <3> QED
      BY <3>2, <3>3, <3>4, <3>5
  <2> QED
    BY <2>1, <2>2 DEF AtMost
<1> QED
  BY <1>2, <1>3, <1>4
-----------------------------------------------------------------------------
(***************************************************************************)
(* The groups that rap_hash_wildcard_init makes of its names.              *)
(***************************************************************************)
\* What Openers builds.
Opens(names, f) ==
  f = [i \in 0 .. Len(names) |->
         IF i = 0 THEN 0
         ELSE IF f[i - 1] # 0 /\ Follows(names[f[i - 1]].key, names[i].key) THEN f[i - 1] ELSE i]

Opened(names, o) ==
  /\ o[0] = 0
  /\ \A i \in 1 .. Len(names) :
       /\ o[i] \in 1 .. i /\ o[i] \in {o[i - 1], i}
       /\ o[i] # i => Follows(names[o[i]].key, names[i].key)
       /\ o[i] = i /\ i > 1 => ~ Follows(names[o[i - 1]].key, names[i].key)

\* What Openers builds exists.
LEMMA OpensExists ==
  ASSUME NEW names, Len(names) \in Nat
  PROVE  \E f : Opens(names, f)
<1> DEFINE N == Len(names)
<1> DEFINE S == 0 .. N
<1> DEFINE next == [i \in 1 .. N |-> [y \in S |->
                      IF y # 0 /\ Follows(names[y].key, names[i].key) THEN y ELSE i]]
<1>1. N \in Nat /\ 0 \in S
  OBVIOUS
<1>2. Closed(S, next, N)
  BY DEF Closed
<1>3. PICK f : Runs(S, 0, next, N, f)
  <2> HIDE DEF next, N, S
  <2> QED
    BY <1>1, <1>2, Recursion
<1>4. \A i \in 1 .. N : f[i] = IF f[i - 1] # 0 /\ Follows(names[f[i - 1]].key, names[i].key) THEN f[i - 1] ELSE i
  <2> TAKE i \in 1 .. N
  <2>1. i - 1 \in 0 .. N
    BY <1>1
  <2>2. f[i - 1] \in S /\ f[i] = next[i][f[i - 1]]
    <3> HIDE DEF next, N, S
    <3> QED
      BY <1>3, <2>1 DEF Runs
  <2>3. \A y \in S : next[i][y] = IF y # 0 /\ Follows(names[y].key, names[i].key) THEN y ELSE i
    OBVIOUS
  <2> HIDE DEF next, N, S
  <2> QED
    BY <2>2, <2>3
<1>5. f = [i \in 0 .. N |-> f[i]] /\ f[0] = 0
  BY <1>3 DEF Runs
<1> HIDE DEF next, S
<1>6. \A i \in 0 .. N : f[i] = IF i = 0 THEN 0
          ELSE IF f[i - 1] # 0 /\ Follows(names[f[i - 1]].key, names[i].key) THEN f[i - 1] ELSE i
  <2> TAKE i \in 0 .. N
  <2>1. i = 0 \/ (i # 0 /\ i \in 1 .. N)
    BY <1>1
  <2> HIDE DEF N
  <2> QED
    BY <1>4, <1>5, <2>1
<1>7. f = [i \in 0 .. N |-> IF i = 0 THEN 0
          ELSE IF f[i - 1] # 0 /\ Follows(names[f[i - 1]].key, names[i].key) THEN f[i - 1] ELSE i]
  <2> HIDE DEF N
  <2> QED
    BY <1>5, <1>6
<1> QED
  BY <1>7 DEF Opens

\* Each name is in the group of the name before it, or opens one.
LEMMA OpenersFacts ==
  ASSUME NEW names, Len(names) \in Nat
  PROVE  Opened(names, Openers(names))
<1> DEFINE o == CHOOSE f : Opens(names, f)
<1>1. Opens(names, o)
  BY OpensExists
<1>2. Openers(names) = o
  BY DEF Openers, Opens
<1> HIDE DEF o
<1> DEFINE N == Len(names)
<1>3. /\ o[0] = 0
      /\ \A i \in 1 .. N : o[i] = IF o[i - 1] # 0 /\ Follows(names[o[i - 1]].key, names[i].key)
                                  THEN o[i - 1] ELSE i
  <2>1. \A i \in 0 .. N : o[i] = IF i = 0 THEN 0
          ELSE IF o[i - 1] # 0 /\ Follows(names[o[i - 1]].key, names[i].key) THEN o[i - 1] ELSE i
    BY <1>1 DEF Opens
  <2>2. 0 \in 0 .. N /\ \A n \in 1 .. N : n \in 0 .. N /\ n # 0
    OBVIOUS
  <2> HIDE DEF N
  <2> QED
    BY <2>1, <2>2
<1>4. N \in Nat
  OBVIOUS
<1> HIDE DEF N
<1> DEFINE P == {i \in 0 .. N : o[i] \in 0 .. i /\ (i # 0 => o[i] # 0)}
<1>5. 0 \in P
  BY <1>3, <1>4
<1>6. \A i \in 0 + 1 .. N : i - 1 \in P => i \in P
  <2> SUFFICES ASSUME NEW i \in 1 .. N, i - 1 \in P PROVE o[i] \in 0 .. i /\ o[i] # 0
    BY <1>4
  <2>1. o[i - 1] \in 0 .. i - 1
    OBVIOUS
  <2>2. CASE o[i] = i
    BY <2>2, <1>4
  <2>3. CASE o[i] = o[i - 1] /\ o[i - 1] # 0
    BY <2>1, <2>3, <1>4
  <2> QED
    BY <1>3, <2>2, <2>3
<1>7. \A i \in 0 .. N : i \in P
  <2> HIDE DEF P
  <2> QED
    BY <1>4, <1>5, <1>6, GoesOn
<1>8. ASSUME NEW i \in 1 .. N
      PROVE  /\ o[i] \in 1 .. i /\ o[i] \in {o[i - 1], i}
             /\ o[i] # i => Follows(names[o[i]].key, names[i].key)
             /\ o[i] = i /\ i > 1 => ~ Follows(names[o[i - 1]].key, names[i].key)
  <2>1. i \in 0 .. N /\ i - 1 \in 0 .. N /\ i # 0
    BY <1>4
  <2>2. o[i] \in 0 .. i /\ o[i] # 0
    BY <1>7, <2>1
  <2>3. o[i - 1] \in 0 .. i - 1 /\ (i - 1 # 0 => o[i - 1] # 0)
    BY <1>7, <2>1
  <2>4. o[i - 1] # i
    BY <2>1, <2>3
  <2>5. i > 1 => o[i - 1] # 0
    BY <2>1, <2>3
  <2>6. o[i] \in 1 .. i
    BY <2>1, <2>2
  <2> QED
    BY <1>3, <2>4, <2>5, <2>6
<1> QED
  BY <1>2, <1>3, <1>8 DEF Opened, N

\* The names of a group lie between the one that opened it and its end.
LEMMA GroupFacts ==
  ASSUME NEW S, NEW names \in Seq(S), NEW n \in Heads(names)
  PROVE  /\ n \in 1 .. Len(names) /\ GroupEnd(names, n) \in n .. Len(names)
         /\ \A i \in n + 1 .. GroupEnd(names, n) : Follows(names[n].key, names[i].key)
<1>1. Len(names) \in Nat /\ DOMAIN names = 1 .. Len(names)
  OBVIOUS
<1> DEFINE o == Openers(names)
<1>2. Opened(names, o)
  BY <1>1, OpenersFacts
<1> DEFINE T == {i \in DOMAIN names : o[i] = n}
<1>3. n \in 1 .. Len(names) /\ o[n] = n
  BY <1>1 DEF Heads
<1>4. GroupEnd(names, n) = Max(T)
  BY DEF GroupEnd
<1> HIDE DEF o
<1>5. n \in T /\ T \subseteq 0 .. Len(names)
  BY <1>1, <1>3
<1>6. PICK e \in T : e = GroupEnd(names, n) /\ \A j \in T : j <= e
  <2> HIDE DEF T
  <2> QED
    BY <1>1, <1>4, <1>5, MaxFacts
<1>7. e \in n .. Len(names) /\ o[e] = n
  <2>1. e \in 1 .. Len(names) /\ o[e] = n /\ n <= e
    BY <1>1, <1>5, <1>6
  <2> QED
    BY <1>1, <1>3, <2>1
<1> HIDE DEF T
<1> DEFINE P == {k \in 0 .. e - n : o[e - k] = n}
<1>8. e - n \in Nat /\ 0 \in P /\ e \in Nat
  BY <1>1, <1>3, <1>7
<1>9. \A k \in 0 + 1 .. e - n : k - 1 \in P => k \in P
  <2> SUFFICES ASSUME NEW k \in 1 .. e - n, k - 1 \in P PROVE o[e - k] = n
    BY <1>8
  <2>1. PICK i \in 1 .. Len(names) : i = e - (k - 1) /\ i - 1 = e - k /\ i # n
    <3>1. /\ e - (k - 1) \in 1 .. Len(names) /\ (e - (k - 1)) - 1 = e - k
          /\ e - (k - 1) # n
      BY <1>1, <1>3, <1>7, <1>8
    <3> QED
      BY <3>1
  <2>2. o[i] = n
    BY <2>1
  <2>3. o[i] \in {o[i - 1], i}
    BY <1>2 DEF Opened
  <2> QED
    BY <2>1, <2>2, <2>3
<1>10. \A k \in 0 .. e - n : k \in P
  <2> HIDE DEF P
  <2> QED
    BY <1>8, <1>9, GoesOn
<1>11. ASSUME NEW i \in n + 1 .. e PROVE Follows(names[n].key, names[i].key)
  <2>1. e - i \in 0 .. e - n /\ e - (e - i) = i /\ i # n /\ i \in 1 .. Len(names)
    BY <1>1, <1>3, <1>7, <1>8
  <2>2. o[i] = n
    BY <1>10, <2>1
  <2> QED
    BY <1>2, <2>1, <2>2 DEF Opened
<1> QED
  BY <1>3, <1>6, <1>7, <1>11

\* What names in order are made of.
LEMMA OrderedFacts ==
  ASSUME NEW names \in Ordered
  PROVE  /\ names \in Seq(Entries) /\ Len(names) \in Nat /\ DOMAIN names = 1 .. Len(names)
         /\ \A i \in 1 .. Len(names) : names[i] \in Entries /\ names[i].key \in PlainTexts
         /\ \A i, j \in 1 .. Len(names) : i <= j => AtMost(names[i].key, names[j].key)
<1>1. names \in Seq(Entries) /\ InOrder(names)
  BY DEF Ordered
<1>2. Len(names) \in Nat /\ DOMAIN names = 1 .. Len(names) /\ \A i \in 1 .. Len(names) : names[i] \in Entries
  BY <1>1
<1>3. \A x \in Entries : x.key \in PlainTexts
  BY DEF Entries
<1>4. \A s : AtMost(s, s)
  BY DEF AtMost, Equal
<1>5. ASSUME NEW i \in 1 .. Len(names), NEW j \in 1 .. Len(names), i <= j
      PROVE  AtMost(names[i].key, names[j].key)
  <2>1. i = j \/ i < j
    BY <1>2, <1>5
  <2> QED
    BY <1>1, <1>4, <2>1 DEF InOrder
<1> QED
  BY <1>1, <1>2, <1>3, <1>5

\* No label opens two groups: this is what sorting is for.
LEMMA HeadsApart ==
  ASSUME NEW names \in Ordered, NEW m \in Heads(names), NEW n \in Heads(names), m < n
  PROVE  Label(names[m].key) # Label(names[n].key)
<1> SUFFICES ASSUME Label(names[m].key) = Label(names[n].key) PROVE FALSE
  OBVIOUS
<1>1. Len(names) \in Nat /\ DOMAIN names = 1 .. Len(names)
  BY OrderedFacts
<1> DEFINE o == Openers(names)
<1>2. Opened(names, o)
  BY <1>1, OpenersFacts
<1>3. m \in 1 .. Len(names) /\ o[m] = m /\ n \in 1 .. Len(names) /\ o[n] = n
  BY <1>1 DEF Heads
<1> HIDE DEF o
<1> DEFINE P == {i \in m .. n : o[i] = m}
<1>4. m \in P
  BY <1>1, <1>3
<1>5. \A i \in m + 1 .. n : i - 1 \in P => i \in P
  <2> SUFFICES ASSUME NEW i \in m + 1 .. n, i - 1 \in P PROVE o[i] = m
    BY <1>1, <1>3
  <2>1. i \in 1 .. Len(names) /\ i > 1 /\ m <= i /\ i <= n /\ o[i - 1] = m
    BY <1>1, <1>3
  <2>2. AtMost(names[m].key, names[i].key) /\ AtMost(names[i].key, names[n].key)
    BY <1>3, <2>1, OrderedFacts
  <2>3. Follows(names[m].key, names[i].key)
    BY <1>3, <2>1, <2>2, OrderedFacts, BetweenFollows
  <2> QED
    BY <1>2, <2>1, <2>3 DEF Opened
<1>6. n \in P
  <2>1. \A i \in m .. n : i \in P
    <3> HIDE DEF P
    <3>1. m \in Nat /\ n \in Nat
      BY <1>1, <1>3
    <3> QED
      BY <1>4, <1>5, <3>1, GoesOn
  <2>2. n \in m .. n
    BY <1>1, <1>3
  <2> QED
    BY <2>1, <2>2
<1> QED
  BY <1>3, <1>6

\* Where the names behind a label come from.
LEMMA NextFacts ==
  ASSUME NEW S, NEW names \in Seq(S), NEW n \in Heads(names)
  PROVE  \E from \in {n, n + 1} :
           /\ from = n <=> ~ IsLabel(names[n].key)
           /\ Len(NextNames(names, n)) = GroupEnd(names, n) - from + 1
           /\ Len(NextNames(names, n)) \in 0 .. Len(names)
           /\ DOMAIN NextNames(names, n) = 1 .. Len(NextNames(names, n))
           /\ NextNames(names, n) = [k \in 1 .. Len(NextNames(names, n)) |-> NextNames(names, n)[k]]
           /\ \A k \in 1 .. Len(NextNames(names, n)) :
                /\ from + k - 1 \in n .. GroupEnd(names, n)
                /\ from + k - 1 \in 1 .. Len(names)
                /\ NextNames(names, n)[k] = After(names[from + k - 1], Len(Label(names[n].key)))
<1>1. PICK e \in n .. Len(names) : e = GroupEnd(names, n)
  BY GroupFacts
<1>2. n \in 1 .. Len(names) /\ Len(names) \in Nat
  BY GroupFacts
<1>3. PICK from \in {n, n + 1} : from = IF IsLabel(names[n].key) THEN n + 1 ELSE n
  OBVIOUS
<1>4. PICK group : group = SubSeq(names, from, e)
  OBVIOUS
<1>5. from \in 1 .. Len(names) + 1 /\ from <= e + 1 /\ e - from + 1 \in 0 .. Len(names)
  BY <1>1, <1>2, <1>3
<1>6. /\ group \in Seq(S) /\ Len(group) = e - from + 1
      /\ \A k \in 1 .. e - from + 1 : group[k] = names[from + k - 1]
  BY <1>1, <1>2, <1>4, <1>5
<1>7. DOMAIN group = 1 .. e - from + 1
  BY <1>6
<1>8. PICK m : m = Len(Label(names[n].key))
  OBVIOUS
<1>9. PICK q : q = [k \in 1 .. e - from + 1 |-> After(group[k], m)]
  OBVIOUS
<1>10. NextNames(names, n) = q
  BY <1>1, <1>3, <1>4, <1>7, <1>8, <1>9 DEF NextNames
<1>11. Len(q) = e - from + 1 /\ DOMAIN q = 1 .. e - from + 1
  BY <1>5, <1>9
<1>12. \A k \in 1 .. Len(q) : /\ from + k - 1 \in n .. e /\ from + k - 1 \in 1 .. Len(names)
                              /\ q[k] = After(names[from + k - 1], m)
  <2> TAKE k \in 1 .. Len(q)
  <2>1. k \in 1 .. e - from + 1
    BY <1>11
  <2>2. from + k - 1 \in n .. e /\ from + k - 1 \in 1 .. Len(names)
    BY <1>1, <1>2, <1>3, <2>1
  <2> QED
    BY <1>6, <1>9, <2>1, <2>2
<1>13. q = [k \in 1 .. Len(q) |-> q[k]]
  BY <1>9, <1>11
<1>14. from = n <=> ~ IsLabel(names[n].key)
  BY <1>2, <1>3
<1> QED
  BY <1>1, <1>5, <1>8, <1>10, <1>11, <1>12, <1>13, <1>14

\* The names behind a label are in order again.
LEMMA NextOrdered ==
  ASSUME NEW names \in Ordered, NEW n \in Heads(names)
  PROVE  NextNames(names, n) \in Ordered
<1>1. /\ names \in Seq(Entries) /\ Len(names) \in Nat
      /\ \A i \in 1 .. Len(names) : names[i] \in Entries /\ names[i].key \in PlainTexts
      /\ \A i, j \in 1 .. Len(names) : i <= j => AtMost(names[i].key, names[j].key)
  BY OrderedFacts
<1>2. PICK e \in n .. Len(names) : e = GroupEnd(names, n)
  BY <1>1, GroupFacts
<1>3. n \in 1 .. Len(names) /\ \A i \in n + 1 .. e : Follows(names[n].key, names[i].key)
  BY <1>1, <1>2, GroupFacts
<1>4. PICK s \in PlainTexts : s = names[n].key
  BY <1>1, <1>3
<1>5. PICK m \in Nat : m = Len(Label(s)) /\ m <= Len(s)
  BY LabelRanks, WFacts
<1>6. ASSUME NEW i \in n .. e
      PROVE  /\ Agree(s, names[i].key, m) /\ W(names[i].key, m + 1) \in {0, 32}
             /\ m <= Len(names[i].key)
  <2>0. i \in 1 .. Len(names) /\ names[i].key \in PlainTexts
    BY <1>1, <1>2, <1>3
  <2>1. Agree(s, names[i].key, m) /\ W(names[i].key, m + 1) \in {0, 32}
    <3>1. CASE i = n
      BY <1>4, <1>5, <3>1, LabelRanks DEF Agree
    <3>2. CASE i # n
      <4>1. i \in n + 1 .. e
        BY <1>1, <1>3, <3>2
      <4>2. Agree(s, names[i].key, Compares(s)) /\ W(names[i].key, m + 1) \in {0, 32}
        BY <1>3, <1>4, <1>5, <2>0, <4>1, FollowsFacts
      <4>3. Compares(s) \in {m, m + 1}
        BY <1>5, LabelRanks
      <4>4. \A j \in 1 .. m : j \in 1 .. Compares(s)
        BY <4>3
      <4> QED
        BY <4>2, <4>4 DEF Agree
    <3> QED
      BY <3>1, <3>2
  <2>2. m <= Len(names[i].key)
    <3> SUFFICES ASSUME m > Len(names[i].key) PROVE FALSE
      BY <2>0, WFacts
    <3>1. m \in Places /\ m \in 1 .. m /\ W(names[i].key, m) = 0
      BY <2>0, WFacts DEF Places
    <3>2. W(s, m) # 0
      BY <1>5, <3>1, LabelRanks
    <3> QED
      BY <2>1, <3>1, <3>2 DEF Agree
  <2> QED
    BY <2>1, <2>2
<1>7. PICK q : q = NextNames(names, n)
  OBVIOUS
<1>8. PICK from \in Nat :
        /\ Len(q) \in Nat /\ q = [k \in 1 .. Len(q) |-> q[k]]
        /\ \A k \in 1 .. Len(q) : /\ from + k - 1 \in n .. e /\ from + k - 1 \in 1 .. Len(names)
                                  /\ q[k] = After(names[from + k - 1], m)
  <2>1. PICK from \in {n, n + 1} :
           /\ Len(q) \in 0 .. Len(names)
           /\ q = [k \in 1 .. Len(q) |-> q[k]]
           /\ \A k \in 1 .. Len(q) :
                /\ from + k - 1 \in n .. e
                /\ from + k - 1 \in 1 .. Len(names)
                /\ q[k] = After(names[from + k - 1], m)
    BY <1>1, <1>2, <1>4, <1>5, <1>7, NextFacts
  <2>2. from \in Nat /\ Len(q) \in Nat
    BY <1>1, <1>3, <2>1
  <2> QED
    BY <2>1, <2>2
<1>9. \A i \in n .. e : i \in 1 .. Len(names) /\ names[i].key \in PlainTexts /\ names[i].value \in Nat
  <2>1. \A x \in Entries : x.value \in Nat
    BY DEF Entries
  <2> QED
    BY <1>1, <1>2, <1>3, <2>1
<1>10. \A i \in n .. e : After(names[i], m) = [key |-> Rest(names[i].key, m), value |-> names[i].value]
  BY DEF After, Rest
<1>11. ASSUME NEW i \in n .. e, NEW j \in n .. e, i <= j
       PROVE  /\ Rest(names[i].key, m) \in PlainTexts
              /\ AtMost(Rest(names[i].key, m), Rest(names[j].key, m))
  <2>1. AtMost(names[i].key, names[j].key)
    BY <1>1, <1>9, <1>11
  <2>2. Agree(names[i].key, names[j].key, m)
    BY <1>6 DEF Agree
  <2> QED
    BY <1>6, <1>9, <2>1, <2>2, RestOrdered
<1>12. \A i \in n .. e : After(names[i], m) \in Entries
  <2> TAKE i \in n .. e
  <2>1. i <= i
    BY <1>1, <1>3
  <2>2. Rest(names[i].key, m) \in PlainTexts
    BY <1>11, <2>1
  <2>3. PICK k \in PlainTexts : k = Rest(names[i].key, m)
    BY <2>2
  <2>4. PICK v \in Nat : v = names[i].value
    BY <1>9
  <2>5. [key |-> k, value |-> v] \in Entries
    BY DEF Entries
  <2> QED
    BY <1>10, <2>3, <2>4, <2>5
<1>13. q \in Seq(Entries)
  BY <1>8, <1>12
<1>14. ASSUME NEW k \in 1 .. Len(q), NEW l \in 1 .. Len(q), k < l PROVE AtMost(q[k].key, q[l].key)
  <2>1. PICK i \in n .. e, j \in n .. e : i = from + k - 1 /\ j = from + l - 1 /\ i <= j
    BY <1>8, <1>14
  <2>2. q[k] = After(names[i], m) /\ q[l] = After(names[j], m)
    BY <1>8, <2>1
  <2>3. After(names[i], m).key = Rest(names[i].key, m)
    BY DEF After, Rest
  <2>4. After(names[j], m).key = Rest(names[j].key, m)
    BY DEF After, Rest
  <2>5. q[k].key = Rest(names[i].key, m) /\ q[l].key = Rest(names[j].key, m)
    BY <2>2, <2>3, <2>4
  <2> QED
    BY <1>11, <2>1, <2>5
<1> QED
  BY <1>7, <1>13, <1>14 DEF Ordered, InOrder
-----------------------------------------------------------------------------
(***************************************************************************)
(* rap_hash_wildcard_init calls itself with shorter names: what it returns *)
(* is well defined.  Level(k) are the names on which it goes no deeper     *)
(* than k.                                                                 *)
(***************************************************************************)
Level(k) == {part \in Names : \A i \in 1 .. Len(part) : Len(part) + Len(part[i].key) <= k}

Numbered == [key : Seq(Nat), value : Nat]

\* What rap_hash_wildcard_init makes of the names and the nested tables.
Made(hinit, part, nested) ==
  IF \E n \in DOMAIN nested : nested[n] = NoTable THEN NoTable
  ELSE HashInit(hinit, CurrNames(part, nested))

Inner(part, f) == [n \in Parents(part) |-> f[NextNames(part, n)]]

Step(hinit, part, f) == Made(hinit, part, Inner(part, f))

\* What Names are made of.
LEMMA NamesFacts ==
  ASSUME NEW part \in Names
  PROVE  /\ part \in Seq(Numbered) /\ Len(part) \in Nat /\ DOMAIN part = 1 .. Len(part)
         /\ \A i \in 1 .. Len(part) : /\ part[i] \in Numbered /\ part[i].key \in Seq(Nat)
                                      /\ Len(part[i].key) \in Nat /\ part[i].value \in Nat
<1>1. part \in Seq(Numbered)
  BY DEF Names, Numbered
<1>2. Len(part) \in Nat /\ DOMAIN part = 1 .. Len(part) /\ \A i \in 1 .. Len(part) : part[i] \in Numbered
  BY <1>1
<1>3. \A x \in Numbered : x.key \in Seq(Nat) /\ x.value \in Nat
  BY DEF Numbered
<1>4. \A s \in Seq(Nat) : Len(s) \in Nat
  OBVIOUS
<1> QED
  BY <1>1, <1>2, <1>3, <1>4

\* Going one table deeper, names get shorter or fewer.
LEMMA NextDown ==
  ASSUME NEW k \in Nat, NEW part \in Level(k), NEW n \in Parents(part)
  PROVE  k - 1 \in Nat /\ NextNames(part, n) \in Level(k - 1)
<1>1. /\ part \in Names /\ part \in Seq(Numbered) /\ Len(part) \in Nat
      /\ \A i \in 1 .. Len(part) : Len(part) + Len(part[i].key) <= k
  BY NamesFacts DEF Level
<1>2. n \in Heads(part)
  BY DEF Parents
<1>3. n \in 1 .. Len(part) /\ GroupEnd(part, n) \in n .. Len(part)
  BY <1>1, <1>2, GroupFacts
<1>4. PICK s \in Seq(Nat) : s = part[n].key
  BY <1>1, <1>3, NamesFacts
<1>5. /\ Len(s) \in Nat /\ DotAt(s) \in 0 .. Len(s) /\ Len(Label(s)) \in 0 .. Len(s)
      /\ Len(part) + Len(s) <= k
  BY <1>1, <1>3, <1>4, DotFacts, LabelFacts
<1>6. PICK m \in Nat : m = Len(Label(s))
  BY <1>5
<1>7. PICK q : q = NextNames(part, n)
  OBVIOUS
<1>8. PICK from \in {n, n + 1} :
        /\ from = n <=> ~ IsLabel(s)
        /\ Len(q) = GroupEnd(part, n) - from + 1
        /\ Len(q) \in 0 .. Len(part)
        /\ q = [i \in 1 .. Len(q) |-> q[i]]
        /\ \A i \in 1 .. Len(q) : from + i - 1 \in 1 .. Len(part) /\ q[i] = After(part[from + i - 1], m)
  BY <1>1, <1>2, <1>4, <1>6, <1>7, NextFacts
<1>9. CASE k = 0
  BY <1>1, <1>3, <1>5, <1>9
<1>10. CASE k # 0
  <2>1. PICK d \in Nat : d = k - 1 /\ d + 1 = k
    <3>1. k - 1 \in Nat /\ (k - 1) + 1 = k
      BY <1>10
    <3> QED
      BY <3>1
  <2>2. ASSUME NEW i \in 1 .. Len(q) PROVE q[i] \in Numbered /\ Len(q) + Len(q[i].key) <= d
    <3>1. PICK j \in 1 .. Len(part) : q[i] = After(part[j], m)
      BY <1>8
    <3>2. PICK t \in Seq(Nat) : t = part[j].key
      BY <1>1, NamesFacts
    <3>3. PICK v \in Nat : v = part[j].value
      BY <1>1, NamesFacts
    <3>4. Len(t) \in Nat /\ Len(part) + Len(t) <= k
      BY <1>1, <3>2
    <3>5. PICK r : r = SubSeq(t, m + 2, Len(t))
      OBVIOUS
    <3>6. r \in Seq(Nat) /\ (Len(r) = 0 \/ (Len(r) \in Nat /\ Len(r) + 1 <= Len(t)))
      <4>1. CASE m <= Len(t)
        <5>1. m \in 0 .. Len(t)
          BY <1>6, <3>4, <4>1
        <5>2. r = Rest(t, m)
          BY <3>5 DEF Rest
        <5>3. r \in Seq(Nat) /\ Len(r) = IF m < Len(t) THEN Len(t) - m - 1 ELSE 0
          BY <5>1, <5>2, RestFacts
        <5> QED
          BY <1>6, <3>4, <5>3
      <4>2. CASE m > Len(t)
        <5>1. r = << >>
          BY <1>6, <3>4, <3>5, <4>2
        <5> QED
          BY <5>1
      <4> QED
        BY <1>6, <3>4, <4>1, <4>2
    <3>7. q[i] = [key |-> r, value |-> v]
      BY <3>1, <3>2, <3>3, <3>5 DEF After
    <3>8. q[i] \in Numbered /\ q[i].key = r
      BY <3>6, <3>7 DEF Numbered
    <3>9. Len(q) \in Nat /\ Len(q) <= Len(part) /\ (Len(q) + 1 <= Len(part) \/ Len(part) + 1 <= k)
      <4>1. CASE from = n
        <5>1. DotAt(s) # 0
          BY <1>8, <4>1 DEF IsLabel
        <5>2. Len(s) >= 1
          BY <1>5, <5>1
        <5> QED
          BY <1>1, <1>5, <1>8, <5>2
      <4>2. CASE from = n + 1
        <5>1. PICK e \in n .. Len(part) : e = GroupEnd(part, n)
          BY <1>3
        <5>2. Len(q) = e - n
          BY <1>3, <1>8, <4>2, <5>1
        <5> QED
          BY <1>1, <1>3, <5>1, <5>2
      <4> QED
        BY <4>1, <4>2
    <3>10. Len(q) + Len(r) <= d
      <4>1. Len(q) + Len(r) + 1 <= k
        <5>1. CASE Len(r) = 0
          BY <1>1, <3>4, <3>9, <5>1
        <5>2. CASE Len(r) \in Nat /\ Len(r) + 1 <= Len(t)
          BY <1>1, <3>4, <3>9, <5>2
        <5> QED
          BY <3>6, <5>1, <5>2
      <4>2. Len(r) \in Nat
        BY <3>6
      <4> QED
        BY <2>1, <3>9, <4>1, <4>2
    <3> QED
      BY <3>8, <3>10
  <2>3. Len(q) \in Nat
    BY <1>1, <1>8
  <2>4. q \in Seq(Numbered)
    <3>1. \A i \in 1 .. Len(q) : q[i] \in Numbered
      BY <2>2
    <3> QED
      BY <1>8, <2>3, <3>1
  <2>5. q \in Level(d)
    BY <2>2, <2>4 DEF Level, Names, Numbered
  <2> QED
    BY <1>7, <2>1, <2>5
<1> QED
  BY <1>9, <1>10

\* A level has the names of those below it.
LEMMA LevelUp ==
  ASSUME NEW k \in Nat, NEW l \in Nat, k <= l, NEW part \in Level(k)
  PROVE  part \in Level(l)
<1>1. part \in Names /\ \A i \in 1 .. Len(part) : Len(part) + Len(part[i].key) <= k
  BY DEF Level
<1>2. Len(part) \in Nat /\ \A i \in 1 .. Len(part) : Len(part[i].key) \in Nat
  BY <1>1, NamesFacts
<1>3. \A i \in 1 .. Len(part) : Len(part) + Len(part[i].key) <= l
  BY <1>1, <1>2
<1> QED
  BY <1>1, <1>3 DEF Level

\* All names are in some level.
LEMMA LevelExists ==
  ASSUME NEW part \in Names
  PROVE  \E k \in Nat : part \in Level(k)
<1>1. PICK N \in Nat : N = Len(part)
  BY NamesFacts
<1>2. PICK size \in [1 .. N -> Nat] : \A i \in 1 .. N : size[i] = Len(part[i].key)
  <2>1. \A i \in 1 .. N : Len(part[i].key) \in Nat
    BY <1>1, NamesFacts
  <2>2. PICK f : f = [i \in 1 .. N |-> Len(part[i].key)]
    OBVIOUS
  <2>3. f \in [1 .. N -> Nat] /\ \A i \in 1 .. N : f[i] = Len(part[i].key)
    BY <2>1, <2>2
  <2> QED
    BY <2>3
<1> DEFINE Ok(i) == \E k \in Nat : \A j \in 1 .. i : N + size[j] <= k
<1> DEFINE P == {i \in 0 .. N : Ok(i)}
<1>3. 0 \in P
  OBVIOUS
<1>4. \A i \in 0 + 1 .. N : i - 1 \in P => i \in P
  <2> SUFFICES ASSUME NEW i \in 1 .. N, Ok(i - 1) PROVE Ok(i)
    <3> HIDE DEF Ok
    <3> QED
      OBVIOUS
  <2>1. PICK k \in Nat : \A j \in 1 .. i - 1 : N + size[j] <= k
    OBVIOUS
  <2>2. PICK l \in Nat : l = k + N + size[i]
    OBVIOUS
  <2>3. ASSUME NEW j \in 1 .. i PROVE N + size[j] <= l
    <3>1. j = i \/ (j \in 1 .. i - 1 /\ N + size[j] <= k)
      BY <2>1
    <3>2. j \in 1 .. N /\ size[j] \in Nat /\ size[i] \in Nat
      OBVIOUS
    <3> QED
      BY <2>2, <3>1, <3>2
  <2> QED
    BY <2>3
<1>5. N \in P
  <2> HIDE DEF P
  <2>1. \A i \in 0 .. N : i \in P
    BY <1>3, <1>4, GoesOn
  <2> QED
    BY <2>1
<1>6. PICK k \in Nat : \A j \in 1 .. N : N + size[j] <= k
  BY <1>5
<1> QED
  BY <1>1, <1>2, <1>6 DEF Level

\* f says what is made of the names in Level(k).
Solves(hinit, k, f) == f = [part \in Level(k) |-> Step(hinit, part, f)]

\* Only what f says of the nested names matters.
LEMMA StepAgrees ==
  ASSUME NEW hinit, NEW part, NEW f, NEW g,
         \A n \in Parents(part) : f[NextNames(part, n)] = g[NextNames(part, n)]
  PROVE  Step(hinit, part, f) = Step(hinit, part, g)
<1>1. Inner(part, f) = Inner(part, g)
  BY DEF Inner
<1> QED
  BY <1>1 DEF Step

\* What f says of names is made of what it says of the nested ones.
LEMMA SolvesThere ==
  ASSUME NEW hinit, NEW k, NEW f, Solves(hinit, k, f), NEW part \in Level(k)
  PROVE  f[part] = Step(hinit, part, f)
<1>1. f = [p \in Level(k) |-> Step(hinit, p, f)]
  BY DEF Solves
<1> DEFINE S(p) == Step(hinit, p, f)
<1>2. f = [p \in Level(k) |-> S(p)]
  BY <1>1
<1> HIDE DEF S
<1>3. f[part] = S(part)
  BY <1>2
<1> QED
  BY <1>3 DEF S

\* There is something to say of every level.
LEMMA SolvesExists ==
  ASSUME NEW hinit, NEW k \in Nat
  PROVE  \E f : Solves(hinit, k, f)
<1> DEFINE P == {l \in 0 .. k : \E f : Solves(hinit, l, f)}
<1>1. 0 \in P
  <2>1. PICK e : e = [part \in Level(0) |-> 0]
    OBVIOUS
  <2>2. PICK f : f = [part \in Level(0) |-> Step(hinit, part, e)]
    OBVIOUS
  <2>3. ASSUME NEW part \in Level(0) PROVE Step(hinit, part, e) = Step(hinit, part, f)
    <3>1. ASSUME NEW n \in Parents(part) PROVE FALSE
      <4>1. 0 - 1 \in Nat
        BY NextDown
      <4> QED
        BY <4>1
    <3> QED
      BY <3>1, StepAgrees
  <2>4. f = [part \in Level(0) |-> Step(hinit, part, f)]
    BY <2>2, <2>3
  <2> QED
    BY <2>4 DEF Solves
<1>2. \A l \in 0 + 1 .. k : l - 1 \in P => l \in P
  <2> SUFFICES ASSUME NEW l \in 1 .. k, l - 1 \in P PROVE \E f : Solves(hinit, l, f)
    OBVIOUS
  <2>1. PICK m \in Nat : m = l - 1 /\ m <= l
    <3>1. l - 1 \in Nat /\ l - 1 <= l
      OBVIOUS
    <3> QED
      BY <3>1
  <2>2. PICK f : Solves(hinit, m, f)
    BY <2>1
  <2>3. PICK g : g = [part \in Level(l) |-> Step(hinit, part, f)]
    OBVIOUS
  <2>4. ASSUME NEW part \in Level(m) PROVE g[part] = f[part]
    <3>1. part \in Level(l)
      BY <2>1, LevelUp
    <3> QED
      BY <2>2, <2>3, <3>1, SolvesThere
  <2>5. ASSUME NEW part \in Level(l) PROVE Step(hinit, part, f) = Step(hinit, part, g)
    <3>1. \A n \in Parents(part) : NextNames(part, n) \in Level(m)
      <4>1. l \in Nat
        OBVIOUS
      <4> QED
        BY <2>1, <4>1, NextDown
    <3>2. \A n \in Parents(part) : f[NextNames(part, n)] = g[NextNames(part, n)]
      BY <2>4, <3>1
    <3> QED
      BY <3>2, StepAgrees
  <2>6. g = [part \in Level(l) |-> Step(hinit, part, g)]
    BY <2>3, <2>5
  <2> QED
    BY <2>6 DEF Solves
<1>3. k \in P
  <2> HIDE DEF P
  <2>1. \A l \in 0 .. k : l \in P
    BY <1>1, <1>2, GoesOn
  <2> QED
    BY <2>1
<1> QED
  BY <1>3

\* There is only one thing to say.
LEMMA SolvesOnce ==
  ASSUME NEW hinit, NEW k \in Nat, NEW f, Solves(hinit, k, f), NEW l \in Nat, NEW g, Solves(hinit, l, g),
         NEW part, part \in Level(k), part \in Level(l)
  PROVE  f[part] = g[part]
<1> DEFINE Both(i) == Level(i) \cap Level(k) \cap Level(l)
<1> DEFINE P == {i \in 0 .. k : \A p \in Both(i) : f[p] = g[p]}
<1>1. ASSUME NEW p \in Level(k) \cap Level(l),
             \A n \in Parents(p) : f[NextNames(p, n)] = g[NextNames(p, n)]
      PROVE  f[p] = g[p]
  <2>1. f[p] = Step(hinit, p, f) /\ g[p] = Step(hinit, p, g)
    BY SolvesThere
  <2>2. Step(hinit, p, f) = Step(hinit, p, g)
    BY <1>1, StepAgrees
  <2> QED
    BY <2>1, <2>2
<1>2. 0 \in P
  <2>1. ASSUME NEW p \in Both(0) PROVE f[p] = g[p]
    <3>1. ASSUME NEW n \in Parents(p) PROVE FALSE
      <4>1. 0 - 1 \in Nat
        BY NextDown
      <4> QED
        BY <4>1
    <3> QED
      BY <1>1, <3>1
  <2> QED
    BY <2>1
<1>3. \A i \in 0 + 1 .. k : i - 1 \in P => i \in P
  <2> SUFFICES ASSUME NEW i \in 1 .. k, i - 1 \in P, NEW p \in Both(i) PROVE f[p] = g[p]
    OBVIOUS
  <2>1. i \in Nat
    OBVIOUS
  <2>2. ASSUME NEW n \in Parents(p) PROVE NextNames(p, n) \in Both(i - 1)
    <3>1. NextNames(p, n) \in Level(i - 1)
      BY <2>1, NextDown
    <3>2. k - 1 \in Nat /\ NextNames(p, n) \in Level(k - 1)
      BY NextDown
    <3>3. l - 1 \in Nat /\ NextNames(p, n) \in Level(l - 1)
      BY NextDown
    <3>4. k - 1 <= k /\ l - 1 <= l
      OBVIOUS
    <3> QED
      BY <3>1, <3>2, <3>3, <3>4, LevelUp
  <2> QED
    BY <1>1, <2>2
<1>4. k \in P
  <2> HIDE DEF P
  <2>1. \A i \in 0 .. k : i \in P
    BY <1>2, <1>3, GoesOn
  <2> QED
    BY <2>1
<1> QED
  BY <1>4

\* What rap_hash_wildcard_init returns, from what it returns for the nested names.
LEMMA WildcardFacts ==
  ASSUME NEW hinit, NEW part \in Names
  PROVE  WildcardInit(hinit, part)
           = Made(hinit, part, [n \in Parents(part) |-> WildcardInit(hinit, NextNames(part, n))])
<1> DEFINE Fixed(F) == F = [p \in Names |-> Step(hinit, p, F)]
<1> DEFINE rank == [p \in Names |-> CHOOSE k \in Nat : p \in Level(k)]
<1> DEFINE sol == [k \in Nat |-> CHOOSE f : Solves(hinit, k, f)]
<1>1. \A p \in Names : rank[p] \in Nat /\ p \in Level(rank[p])
  BY LevelExists
<1>2. \A k \in Nat : Solves(hinit, k, sol[k])
  BY SolvesExists
<1> HIDE DEF rank, sol
<1>3. PICK F : F = [p \in Names |-> sol[rank[p]][p]]
  OBVIOUS
<1>4. ASSUME NEW p \in Names, NEW k \in Nat, p \in Level(k) PROVE F[p] = sol[k][p]
  <2>1. F[p] = sol[rank[p]][p]
    BY <1>3
  <2>2. PICK l \in Nat : l = rank[p] /\ p \in Level(l)
    BY <1>1
  <2>3. Solves(hinit, l, sol[l]) /\ Solves(hinit, k, sol[k])
    BY <1>2
  <2>4. PICK f, g : f = sol[l] /\ g = sol[k]
    OBVIOUS
  <2>5. Solves(hinit, l, f) /\ Solves(hinit, k, g)
    BY <2>3, <2>4
  <2>6. f[p] = g[p]
    BY <1>4, <2>2, <2>5, SolvesOnce
  <2> QED
    BY <2>1, <2>2, <2>4, <2>6
<1>5. ASSUME NEW p \in Names PROVE sol[rank[p]][p] = Step(hinit, p, F)
  <2>1. PICK k \in Nat : k = rank[p] /\ p \in Level(k)
    BY <1>1
  <2>2. sol[k][p] = Step(hinit, p, sol[k])
    BY <1>2, <2>1, SolvesThere
  <2>3. ASSUME NEW n \in Parents(p) PROVE sol[k][NextNames(p, n)] = F[NextNames(p, n)]
    <3>1. k - 1 \in Nat /\ NextNames(p, n) \in Level(k - 1)
      BY <2>1, NextDown
    <3>2. k - 1 <= k
      OBVIOUS
    <3>3. NextNames(p, n) \in Level(k)
      BY <3>1, <3>2, LevelUp
    <3>4. NextNames(p, n) \in Names
      BY <3>3 DEF Level
    <3> QED
      BY <1>4, <3>3, <3>4
  <2>4. Step(hinit, p, sol[k]) = Step(hinit, p, F)
    BY <2>3, StepAgrees
  <2> QED
    BY <2>1, <2>2, <2>4
<1>6. Fixed(F)
  BY <1>3, <1>5
<1>7. \E G : Fixed(G)
  BY <1>6
<1> DEFINE G == CHOOSE H : Fixed(H)
<1>8. Fixed(G)
  BY <1>7
<1>9. \A p : WildcardInit(hinit, p) = G[p]
  BY DEF WildcardInit, Step, Made, Inner
<1> HIDE DEF G
<1>10. G = [p \in Names |-> Step(hinit, p, G)]
  BY <1>8
<1>11. G[part] = Step(hinit, part, G)
  <2> DEFINE S(p) == Step(hinit, p, G)
  <2>1. G = [p \in Names |-> S(p)]
    BY <1>10
  <2> HIDE DEF S
  <2>2. G[part] = S(part)
    BY <2>1
  <2> QED
    BY <2>2 DEF S
<1> HIDE DEF Fixed
<1>12. Inner(part, G) = [n \in Parents(part) |-> WildcardInit(hinit, NextNames(part, n))]
  BY <1>9 DEF Inner
<1> QED
  BY <1>9, <1>11, <1>12 DEF Step
-----------------------------------------------------------------------------
(***************************************************************************)
(* A table of names that are all different holds them.                     *)
(***************************************************************************)
LowCodes == Codes \ 65 .. 90
LowTexts == Seq(LowCodes)

\* Names k[1] to k[n], none of them twice, with what is kept of them.
Apart(names, n, k, v) ==
  /\ n \in Nat /\ k \in [1 .. n -> LowTexts]
  /\ \A i, j \in 1 .. n : k[i] = k[j] => i = j
  /\ names = [i \in 1 .. n |-> Elt(k[i], v[i])]

\* The table t keeps nothing but what v says.
KeepsOnly(t, n, v) ==
  \A b \in DOMAIN t.buckets : \A x \in ToSet(t.buckets[b]) : \E i \in 1 .. n : x.value = v[i]

\* Text without capitals is its own lower case.
LEMMA LowTextStays ==
  ASSUME NEW s \in LowTexts
  PROVE  Strlow(s, Len(s)) = s /\ Len(s) \in Nat
<1>1. Len(s) \in Nat /\ \A i \in 1 .. Len(s) : s[i] \in LowCodes
  BY DEF LowTexts
<1>2. \A c \in LowCodes : Lower(c) = c
  BY DEF LowCodes, Codes, Lower
<1>3. Strlow(s, Len(s)) = [i \in 1 .. Len(s) |-> s[i]]
  BY <1>1, <1>2 DEF Strlow
<1>4. s = [i \in 1 .. Len(s) |-> s[i]]
  BY DEF LowTexts
<1> QED
  BY <1>1, <1>3, <1>4

\* Rounding up takes nothing away.
LEMMA AlignedFacts ==
  ASSUME NEW n \in Nat, NEW to \in Nat, to > 0
  PROVE  Aligned(n, to) \in Nat /\ n <= Aligned(n, to)
<1>1. PICK a \in Nat : a = n + to - 1
  OBVIOUS
<1>2. PICK d \in Nat : d = a \div to
  BY <1>1
<1>3. a < (d + 1) * to
  BY <1>1, <1>2
<1>4. (d + 1) * to = d * to + to
  BY <1>1, <1>2
<1>5. d * to \in Nat
  BY <1>2
<1>6. n <= d * to
  BY <1>1, <1>3, <1>4, <1>5
<1> QED
  BY <1>1, <1>2, <1>5, <1>6 DEF Aligned

\* The room of an element is a number.
LEMMA EltSizeNat ==
  ASSUME NEW s, Len(s) \in Nat
  PROVE  EltSize(s) \in Nat
<1>1. Pointer \in Nat /\ Pointer > 0
  BY TableAssumption
<1>2. Aligned(Len(s) + 2, Pointer) \in Nat
  BY <1>1, AlignedFacts
<1> QED
  BY <1>1, <1>2 DEF EltSize

\* What Bytes builds.
Sums(elts, f) ==
  f = [n \in 0 .. Len(elts) |-> IF n = 0 THEN 0 ELSE f[n - 1] + EltSize(elts[n].key)]

\* So is the room of a bucket.
LEMMA BytesNat ==
  ASSUME NEW elts, Len(elts) \in Nat, \A i \in 1 .. Len(elts) : Len(elts[i].key) \in Nat
  PROVE  Bytes(elts) \in Nat
<1> DEFINE N == Len(elts)
<1> DEFINE next == [n \in 1 .. N |-> [y \in Nat |-> y + EltSize(elts[n].key)]]
<1>1. N \in Nat /\ 0 \in Nat
  OBVIOUS
<1>2. \A n \in 1 .. N : EltSize(elts[n].key) \in Nat
  BY EltSizeNat
<1>3. Closed(Nat, next, N)
  BY <1>2 DEF Closed
<1>4. PICK f : Runs(Nat, 0, next, N, f)
  <2> HIDE DEF next, N
  <2> QED
    BY <1>1, <1>3, Recursion
<1>5. \A n \in 1 .. N : f[n] = f[n - 1] + EltSize(elts[n].key)
  <2> TAKE n \in 1 .. N
  <2>1. n - 1 \in 0 .. N
    BY <1>1
  <2>2. f[n - 1] \in Nat /\ f[n] = next[n][f[n - 1]]
    <3> HIDE DEF next, N
    <3> QED
      BY <1>4, <2>1 DEF Runs
  <2>3. \A y \in Nat : next[n][y] = y + EltSize(elts[n].key)
    OBVIOUS
  <2> HIDE DEF next, N
  <2> QED
    BY <2>2, <2>3
<1>6. f = [n \in 0 .. N |-> f[n]] /\ f[0] = 0
  BY <1>4 DEF Runs
<1> HIDE DEF next
<1>7. \A n \in 0 .. N : f[n] = IF n = 0 THEN 0 ELSE f[n - 1] + EltSize(elts[n].key)
  <2> TAKE n \in 0 .. N
  <2>1. n = 0 \/ (n # 0 /\ n \in 1 .. N)
    BY <1>1
  <2> HIDE DEF N
  <2> QED
    BY <1>5, <1>6, <2>1
<1>8. \E g : Sums(elts, g)
  <2>1. f = [n \in 0 .. N |-> IF n = 0 THEN 0 ELSE f[n - 1] + EltSize(elts[n].key)]
    BY <1>6, <1>7
  <2> QED
    BY <2>1 DEF Sums
<1> DEFINE g == CHOOSE h : Sums(elts, h)
<1>9. Sums(elts, g) /\ Bytes(elts) = g[N]
  BY <1>8 DEF Bytes, Sums
<1> HIDE DEF g
<1>10. g[0] = 0 /\ \A n \in 1 .. N : g[n] = g[n - 1] + EltSize(elts[n].key)
  <2>1. \A n \in 0 .. N : g[n] = IF n = 0 THEN 0 ELSE g[n - 1] + EltSize(elts[n].key)
    BY <1>9 DEF Sums
  <2>2. 0 \in 0 .. N /\ \A n \in 1 .. N : n \in 0 .. N /\ n # 0
    BY <1>1
  <2> HIDE DEF N
  <2> QED
    BY <2>1, <2>2
<1> HIDE DEF N
<1> DEFINE P == {n \in 0 .. N : g[n] \in Nat}
<1>11. 0 \in P
  BY <1>1, <1>10
<1>12. \A n \in 0 + 1 .. N : n - 1 \in P => n \in P
  <2> SUFFICES ASSUME NEW n \in 1 .. N, n - 1 \in P PROVE g[n] \in Nat
    BY <1>1
  <2>1. g[n - 1] \in Nat /\ EltSize(elts[n].key) \in Nat /\ g[n] = g[n - 1] + EltSize(elts[n].key)
    BY <1>2, <1>10
  <2> QED
    BY <2>1
<1>13. N \in P
  <2> HIDE DEF P
  <2>1. \A n \in 0 .. N : n \in P
    BY <1>1, <1>11, <1>12, GoesOn
  <2> QED
    BY <1>1, <2>1
<1> QED
  BY <1>9, <1>13

\* Names in lower case are laid out as they are.
LEMMA LoweredFacts ==
  ASSUME NEW names, NEW n, NEW k, NEW v, Apart(names, n, k, v)
  PROVE  Lowered(names) = names
<1>1. /\ n \in Nat /\ names = [i \in 1 .. n |-> Elt(k[i], v[i])]
      /\ \A i \in 1 .. n : k[i] \in LowTexts
  BY DEF Apart
<1>2. ASSUME NEW i \in 1 .. n
      PROVE  [names[i] EXCEPT !.key = Strlow(@, Len(@))] = Elt(k[i], v[i])
  <2>1. PICK s \in LowTexts : s = k[i]
    BY <1>1
  <2>2. PICK h : h = HashKey(s)
    OBVIOUS
  <2>3. PICK w : w = v[i]
    OBVIOUS
  <2>4. names[i] = [key |-> s, key_hash |-> h, value |-> w]
    BY <1>1, <2>1, <2>2, <2>3 DEF Elt
  <2>5. Strlow(s, Len(s)) = s
    BY LowTextStays
  <2>6. [names[i] EXCEPT !.key = Strlow(@, Len(@))] = [key |-> s, key_hash |-> h, value |-> w]
    BY <2>4, <2>5
  <2> QED
    BY <2>1, <2>2, <2>3, <2>6 DEF Elt
<1>3. DOMAIN names = 1 .. n
  BY <1>1
<1>4. Lowered(names) = [i \in 1 .. n |-> Elt(k[i], v[i])]
  BY <1>2, <1>3 DEF Lowered
<1> QED
  BY <1>1, <1>4

\* What a bucket holds.
LEMMA BucketFacts ==
  ASSUME NEW names, NEW n, NEW k, NEW v, Apart(names, n, k, v), NEW size, NEW b,
         NEW elts, elts = InBucket(names, size, b)
  PROVE  /\ DOMAIN elts = 1 .. Len(elts) /\ Len(elts) \in Nat
         /\ \A i \in 1 .. Len(elts) : Len(elts[i].key) \in Nat
         /\ \A i, j \in 1 .. Len(elts) : elts[i].key = elts[j].key => i = j
         /\ \A i \in 1 .. Len(elts) : \E m \in 1 .. n : elts[i].value = v[m]
<1>1. /\ n \in Nat /\ names = [i \in 1 .. n |-> Elt(k[i], v[i])]
      /\ \A i \in 1 .. n : k[i] \in LowTexts
      /\ \A i, j \in 1 .. n : k[i] = k[j] => i = j
  BY DEF Apart
<1>2. PICK S : S = {names[i] : i \in 1 .. n}
  OBVIOUS
<1>3. names \in Seq(S) /\ Len(names) = n
  <2>1. names \in [1 .. n -> S]
    BY <1>1, <1>2
  <2> QED
    BY <1>1, <2>1
<1>4. PICK places : elts = Picked(names, places)
  BY DEF InBucket
<1>5. PICK at : PickedAt(names, places, n, elts, at)
  BY <1>3, <1>4, PickedFacts
<1>6. /\ elts \in Seq({names[i] : i \in places})
      /\ \A i \in 1 .. Len(elts) : at[i] \in 1 .. n /\ elts[i] = names[at[i]]
      /\ \A i, j \in 1 .. Len(elts) : i < j => at[i] < at[j]
  BY <1>5 DEF PickedAt
<1>7. DOMAIN elts = 1 .. Len(elts) /\ Len(elts) \in Nat
  BY <1>6
<1>8. \A i \in 1 .. n : names[i].key = k[i] /\ names[i].value = v[i] /\ Len(k[i]) \in Nat
  BY <1>1, LowTextStays DEF Elt
<1>9. \A i \in 1 .. Len(elts) : elts[i].key = k[at[i]] /\ elts[i].value = v[at[i]] /\ Len(k[at[i]]) \in Nat
  BY <1>6, <1>8
<1>10. ASSUME NEW i \in 1 .. Len(elts), NEW j \in 1 .. Len(elts), elts[i].key = elts[j].key PROVE i = j
  <2>1. PICK x \in 1 .. n, y \in 1 .. n : x = at[i] /\ y = at[j]
    BY <1>6
  <2>2. k[x] = k[y]
    BY <1>9, <1>10, <2>1
  <2>3. x = y
    BY <1>1, <2>2
  <2>4. (i < j => x < y) /\ (j < i => y < x)
    BY <1>6, <2>1
  <2>5. ~ (x < y) /\ ~ (y < x)
    BY <1>1, <2>3
  <2> QED
    BY <1>7, <2>4, <2>5
<1> QED
  BY <1>6, <1>7, <1>9, <1>10

\* rap_hash_init lays out names that are all different in buckets that hold them.
LEMMA HashInitHolds ==
  ASSUME NEW names, NEW n, NEW k, NEW v, Apart(names, n, k, v), NEW hinit,
         NEW t, t = HashInit(hinit, names), t # NoTable
  PROVE  TableHolds(t) /\ KeepsOnly(t, n, v)
<1>1. Lowered(names) = names
  BY LoweredFacts
<1>2. PICK size : size = Size(hinit, names)
  OBVIOUS
<1>3. PICK buckets : buckets = [b \in 0 .. size - 1 |-> InBucket(names, size, b)]
  OBVIOUS
<1>4. PICK room : room = [b \in DOMAIN buckets |-> Reserved(buckets[b])]
  OBVIOUS
<1>5. t = [size |-> size, buckets |-> buckets, room |-> room]
  BY <1>1, <1>2, <1>3, <1>4 DEF HashInit
<1>6. t.buckets = buckets /\ t.room = room
  BY <1>5
<1>7. ASSUME NEW b \in DOMAIN buckets
      PROVE  /\ buckets[b] # << >> => Bytes(buckets[b]) + Pointer <= room[b]
             /\ \A i, j \in DOMAIN buckets[b] : buckets[b][i].key = buckets[b][j].key => i = j
             /\ \A x \in ToSet(buckets[b]) : \E i \in 1 .. n : x.value = v[i]
  <2>1. PICK elts : elts = buckets[b]
    OBVIOUS
  <2>2. elts = InBucket(names, size, b)
    BY <1>3, <2>1
  <2>3. /\ DOMAIN elts = 1 .. Len(elts) /\ Len(elts) \in Nat
        /\ \A i \in 1 .. Len(elts) : Len(elts[i].key) \in Nat
        /\ \A i, j \in 1 .. Len(elts) : elts[i].key = elts[j].key => i = j
        /\ \A i \in 1 .. Len(elts) : \E m \in 1 .. n : elts[i].value = v[m]
    BY <2>2, BucketFacts
  <2>4. Bytes(elts) \in Nat
    BY <2>3, BytesNat
  <2>5. Pointer \in Nat /\ Cacheline \in Nat /\ Cacheline > 0
    BY TableAssumption
  <2>6. PICK need \in Nat : need = Pointer + Bytes(elts) /\ need = Bytes(elts) + Pointer
    BY <2>4, <2>5
  <2>7. need <= Aligned(need, Cacheline)
    BY <2>5, AlignedFacts
  <2>8. elts # << >> => room[b] = Aligned(need, Cacheline)
    BY <1>4, <2>1, <2>6 DEF Reserved
  <2>9. \A x \in ToSet(elts) : \E i \in 1 .. Len(elts) : x = elts[i]
    BY <2>3 DEF ToSet
  <2> QED
    BY <2>1, <2>3, <2>6, <2>7, <2>8, <2>9
<1>8. TableHolds(t)
  BY <1>6, <1>7 DEF TableHolds
<1>9. KeepsOnly(t, n, v)
  BY <1>6, <1>7 DEF KeepsOnly
<1> QED
  BY <1>8, <1>9
-----------------------------------------------------------------------------
(***************************************************************************)
(* The tables of wildcards, and the tables nested in them.                 *)
(***************************************************************************)
\* A table that rap_hash_wildcard_init returned for names in order.
Wild(hinit, t) == t # NoTable /\ \E part \in Ordered : t = WildcardInit(hinit, part)

\* A table that holds its names, and the tables nested in it.
Sound(hinit, t) ==
  /\ TableHolds(t)
  /\ \A b \in DOMAIN t.buckets : \A x \in ToSet(t.buckets[b]) :
       x.value.tag >= 2 => Wild(hinit, x.value.at.hash)

\* rap_hash_wildcard_init is defined for names in order.
LEMMA OrderedNames == Ordered \subseteq Names
<1>1. \A c \in Plain : c \in Nat
  BY DEF Plain, Codes
<1>2. \A s \in PlainTexts : s \in Seq(Nat)
  BY <1>1 DEF PlainTexts
<1>3. \A x \in Entries : x \in Numbered
  BY <1>2 DEF Entries, Numbered
<1>4. ASSUME NEW q \in Seq(Entries) PROVE q \in Names
  <2>1. q \in Seq(Numbered)
    BY <1>3
  <2> QED
    BY <2>1 DEF Names, Numbered
<1> QED
  BY <1>4 DEF Ordered

\* The names of a table: no label comes twice, and what is nested comes with its own.
LEMMA CurrFacts ==
  ASSUME NEW names \in Ordered, NEW nested
  PROVE  \E n, k, v : /\ Apart(CurrNames(names, nested), n, k, v)
                      /\ \A i \in 1 .. n : v[i].tag >= 2 =>
                           \E p \in DOMAIN nested : v[i].at.hash = nested[p]
<1>1. /\ names \in Seq(Entries) /\ Len(names) \in Nat /\ DOMAIN names = 1 .. Len(names)
      /\ \A i \in 1 .. Len(names) : names[i].key \in PlainTexts
  BY OrderedFacts
<1>2. PICK heads : heads = Heads(names)
  OBVIOUS
<1> DEFINE Value(n) ==
      IF n \in DOMAIN nested
      THEN Data([hash |-> nested[n],
                 value |-> IF IsLabel(names[n].key) THEN names[n].value ELSE NULL],
                NestedTag(DotAt(names[n].key)))
      ELSE Data(names[n].value, IF DotAt(names[n].key) = 0 THEN 0 ELSE 1)
<1>3. PICK values : values = [n \in 1 .. Len(names) |-> Value(n)]
  OBVIOUS
<1>4. PICK curr : curr = [n \in 1 .. Len(names) |-> Elt(Label(names[n].key), values[n])]
  OBVIOUS
<1>5. CurrNames(names, nested) = Picked(curr, heads)
  <2>1. curr = [n \in DOMAIN names |-> Elt(Label(names[n].key), Value(n))]
    BY <1>1, <1>3, <1>4
  <2> QED
    BY <1>2, <2>1 DEF CurrNames
<1>6. ASSUME NEW n \in 1 .. Len(names), values[n].tag >= 2
      PROVE  n \in DOMAIN nested /\ values[n].at.hash = nested[n]
  <2>1. values[n] = Value(n)
    BY <1>3
  <2>2. CASE n \in DOMAIN nested
    <3>1. PICK w : w = [hash |-> nested[n],
                        value |-> IF IsLabel(names[n].key) THEN names[n].value ELSE NULL]
      OBVIOUS
    <3>2. PICK tag : tag = NestedTag(DotAt(names[n].key))
      OBVIOUS
    <3>3. values[n] = [tag |-> tag, at |-> w] /\ w.hash = nested[n]
      BY <2>1, <2>2, <3>1, <3>2 DEF Data
    <3> QED
      BY <2>2, <3>3
  <2>3. CASE n \notin DOMAIN nested
    <3>1. PICK tag \in {0, 1} : tag = IF DotAt(names[n].key) = 0 THEN 0 ELSE 1
      OBVIOUS
    <3>2. values[n] = [tag |-> tag, at |-> names[n].value]
      BY <2>1, <2>3, <3>1 DEF Data
    <3>3. values[n].tag = tag
      BY <3>2
    <3> QED
      BY <1>6, <3>1, <3>3
  <2> QED
    BY <2>2, <2>3
<1> HIDE DEF Value
<1>7. PICK S : S = {curr[i] : i \in 1 .. Len(names)}
  OBVIOUS
<1>8. curr \in Seq(S) /\ Len(curr) = Len(names)
  <2>1. curr \in [1 .. Len(names) -> S]
    BY <1>4, <1>7
  <2> QED
    BY <1>1, <1>4, <2>1
<1>9. PICK q : q = Picked(curr, heads)
  OBVIOUS
<1>10. PICK at : PickedAt(curr, heads, Len(names), q, at)
  BY <1>8, <1>9, PickedFacts
<1>11. /\ q \in Seq({curr[i] : i \in heads})
       /\ \A i \in 1 .. Len(q) : at[i] \in heads /\ at[i] \in 1 .. Len(names) /\ q[i] = curr[at[i]]
       /\ \A i, j \in 1 .. Len(q) : i < j => at[i] < at[j]
  BY <1>10 DEF PickedAt
<1>12. PICK n \in Nat : n = Len(q)
  BY <1>11
<1>13. PICK k : k = [i \in 1 .. n |-> Label(names[at[i]].key)]
  OBVIOUS
<1>14. PICK v : v = [i \in 1 .. n |-> values[at[i]]]
  OBVIOUS
<1>15. ASSUME NEW i \in 1 .. n PROVE k[i] \in LowTexts /\ q[i] = Elt(k[i], v[i])
  <2>1. PICK a \in 1 .. Len(names) : a = at[i] /\ q[i] = curr[a]
    BY <1>11, <1>12
  <2>2. PICK s \in Seq(Plain) : s = names[a].key
    BY <1>1 DEF PlainTexts
  <2>3. Label(s) \in Seq(Plain)
    BY LabelFacts
  <2>4. \A c \in Plain : c \in LowCodes
    BY DEF Plain, LowCodes
  <2>5. Label(s) \in LowTexts
    BY <2>3, <2>4 DEF LowTexts
  <2>6. k[i] = Label(s) /\ v[i] = values[a]
    BY <1>13, <1>14, <2>1, <2>2
  <2>7. curr[a] = Elt(Label(s), values[a])
    BY <1>4, <2>2
  <2> QED
    BY <2>1, <2>5, <2>6, <2>7
<1>16. ASSUME NEW i \in 1 .. n, NEW j \in 1 .. n, i < j PROVE k[i] # k[j]
  <2>1. PICK a \in heads, c \in heads : a = at[i] /\ c = at[j] /\ a < c
    BY <1>11, <1>12, <1>16
  <2>2. Label(names[a].key) # Label(names[c].key)
    BY <1>2, <2>1, HeadsApart
  <2> QED
    BY <1>13, <2>1, <2>2
<1>17. \A i, j \in 1 .. n : k[i] = k[j] => i = j
  <2> TAKE i \in 1 .. n, j \in 1 .. n
  <2>1. i = j \/ i < j \/ j < i
    BY <1>12
  <2> QED
    BY <1>16, <2>1
<1>18. q = [i \in 1 .. n |-> Elt(k[i], v[i])]
  <2>1. q = [i \in 1 .. n |-> q[i]]
    BY <1>11, <1>12
  <2>2. \A i \in 1 .. n : q[i] = Elt(k[i], v[i])
    BY <1>15
  <2> QED
    BY <2>1, <2>2
<1>19. k \in [1 .. n -> LowTexts]
  <2>1. k = [i \in 1 .. n |-> k[i]] /\ \A i \in 1 .. n : k[i] \in LowTexts
    BY <1>13, <1>15
  <2> QED
    BY <2>1
<1>20. Apart(q, n, k, v)
  BY <1>17, <1>18, <1>19 DEF Apart
<1>21. ASSUME NEW i \in 1 .. n, v[i].tag >= 2 PROVE \E p \in DOMAIN nested : v[i].at.hash = nested[p]
  <2>1. PICK a \in 1 .. Len(names) : a = at[i]
    BY <1>11, <1>12
  <2>2. v[i] = values[a]
    BY <1>14, <2>1
  <2> QED
    BY <1>6, <1>21, <2>2
<1> QED
  BY <1>5, <1>9, <1>20, <1>21

\* A table of wildcards is sound, and so are the tables it nests.
LEMMA WildHolds ==
  ASSUME NEW hinit, NEW t, Wild(hinit, t)
  PROVE  Sound(hinit, t)
<1>1. PICK part \in Ordered : t = WildcardInit(hinit, part) /\ t # NoTable
  BY DEF Wild
<1>2. PICK nested : nested = [n \in Parents(part) |-> WildcardInit(hinit, NextNames(part, n))]
  OBVIOUS
<1>3. t = Made(hinit, part, nested)
  BY <1>1, <1>2, OrderedNames, WildcardFacts
<1>4. ASSUME NEW p \in DOMAIN nested PROVE Wild(hinit, nested[p])
  <2>1. p \in Heads(part)
    BY <1>2 DEF Parents
  <2>2. NextNames(part, p) \in Ordered
    BY <2>1, NextOrdered
  <2>3. nested[p] = WildcardInit(hinit, NextNames(part, p))
    BY <1>2
  <2>4. nested[p] # NoTable
    BY <1>1, <1>3 DEF Made
  <2> QED
    BY <2>2, <2>3, <2>4 DEF Wild
<1>5. t = HashInit(hinit, CurrNames(part, nested))
  BY <1>1, <1>3 DEF Made
<1>6. PICK names : names = CurrNames(part, nested)
  OBVIOUS
<1>7. PICK n, k, v : /\ Apart(names, n, k, v)
                     /\ \A i \in 1 .. n : v[i].tag >= 2 => \E p \in DOMAIN nested : v[i].at.hash = nested[p]
  BY <1>6, CurrFacts
<1>8. TableHolds(t) /\ KeepsOnly(t, n, v)
  BY <1>1, <1>5, <1>6, <1>7, HashInitHolds
<1>9. ASSUME NEW b \in DOMAIN t.buckets, NEW x \in ToSet(t.buckets[b]), x.value.tag >= 2
      PROVE  Wild(hinit, x.value.at.hash)
  <2>1. PICK i \in 1 .. n : x.value = v[i]
    BY <1>8 DEF KeepsOnly
  <2>2. PICK p \in DOMAIN nested : v[i].at.hash = nested[p]
    BY <1>7, <1>9, <2>1
  <2> QED
    BY <1>4, <2>1, <2>2
<1> QED
  BY <1>8, <1>9 DEF Sound

\* The first table, and the tables nested in them, up to some depth.
Nests(tables, depth, f) ==
  f = [d \in 0 .. depth |-> IF d = 0 THEN tables ELSE NestedIn(f[d - 1])]

\* The tables nested up to a depth exist.
LEMMA NestsExists ==
  ASSUME NEW tables, NEW depth \in Nat
  PROVE  \E f : Nests(tables, depth, f)
<1> DEFINE P == {m \in 0 .. depth : \E f : Nests(tables, m, f)}
<1>1. 0 \in P
  <2>1. PICK f : f = [d \in 0 .. 0 |-> tables]
    OBVIOUS
  <2>2. f = [d \in 0 .. 0 |-> IF d = 0 THEN tables ELSE NestedIn(f[d - 1])]
    BY <2>1
  <2> QED
    BY <2>2 DEF Nests
<1>2. \A m \in 0 + 1 .. depth : m - 1 \in P => m \in P
  <2> SUFFICES ASSUME NEW m \in 1 .. depth, m - 1 \in P PROVE \E f : Nests(tables, m, f)
    OBVIOUS
  <2>1. PICK l \in Nat : l = m - 1 /\ m = l + 1
    <3>1. m - 1 \in Nat /\ m = (m - 1) + 1
      OBVIOUS
    <3> QED
      BY <3>1
  <2>2. PICK f : Nests(tables, l, f)
    BY <2>1
  <2>3. PICK g : g = [d \in 0 .. m |-> IF d = m THEN NestedIn(f[l]) ELSE f[d]]
    OBVIOUS
  <2>4. \A d \in 0 .. l : f[d] = IF d = 0 THEN tables ELSE NestedIn(f[d - 1])
    BY <2>2 DEF Nests
  <2>5. ASSUME NEW d \in 0 .. m PROVE g[d] = IF d = 0 THEN tables ELSE NestedIn(g[d - 1])
    <3>1. CASE d = m
      <4>1. d # 0 /\ d - 1 = l /\ l \in 0 .. m /\ l # m
        BY <2>1, <3>1
      <4>2. g[d] = NestedIn(f[l]) /\ g[l] = f[l]
        BY <2>3, <3>1, <4>1
      <4> QED
        BY <4>1, <4>2
    <3>2. CASE d # m
      <4>1. d \in 0 .. l
        BY <2>1, <3>2
      <4>2. g[d] = f[d]
        BY <2>3, <3>2
      <4>3. CASE d = 0
        BY <2>4, <4>1, <4>2, <4>3
      <4>4. CASE d # 0
        <5>1. d - 1 \in 0 .. m /\ d - 1 # m
          BY <2>1, <4>1, <4>4
        <5>2. g[d - 1] = f[d - 1]
          BY <2>3, <5>1
        <5> QED
          BY <2>4, <4>1, <4>2, <4>4, <5>2
      <4> QED
        BY <4>3, <4>4
    <3> QED
      BY <3>1, <3>2
  <2>6. g = [d \in 0 .. m |-> IF d = 0 THEN tables ELSE NestedIn(g[d - 1])]
    <3>1. g = [d \in 0 .. m |-> g[d]]
      BY <2>3
    <3> QED
      BY <2>5, <3>1
  <2> QED
    BY <2>6 DEF Nests
<1>3. depth \in P
  <2> HIDE DEF P
  <2>1. \A m \in 0 .. depth : m \in P
    BY <1>1, <1>2, GoesOn
  <2> QED
    BY <2>1
<1> QED
  BY <1>3

\* Where the first tables are sound, those nested in them are.
LEMMA NestsSound ==
  ASSUME NEW hinit, NEW tables, \A t \in tables : Sound(hinit, t),
         NEW depth \in Nat, NEW f, Nests(tables, depth, f)
  PROVE  \A t \in f[depth] : Sound(hinit, t)
<1>1. \A d \in 0 .. depth : f[d] = IF d = 0 THEN tables ELSE NestedIn(f[d - 1])
  BY DEF Nests
<1> DEFINE P == {d \in 0 .. depth : \A t \in f[d] : Sound(hinit, t)}
<1>2. 0 \in P
  BY <1>1
<1>3. \A d \in 0 + 1 .. depth : d - 1 \in P => d \in P
  <2> SUFFICES ASSUME NEW d \in 1 .. depth, d - 1 \in P, NEW t \in f[d] PROVE Sound(hinit, t)
    OBVIOUS
  <2>1. PICK T : T = f[d - 1] /\ \A u \in T : Sound(hinit, u)
    OBVIOUS
  <2>2. d \in 0 .. depth /\ d # 0
    OBVIOUS
  <2>3. t \in NestedIn(T)
    BY <1>1, <2>1, <2>2
  <2>4. PICK u \in T : \E b \in DOMAIN u.buckets : \E x \in ToSet(u.buckets[b]) :
                          x.value.tag >= 2 /\ t = x.value.at.hash
    BY <2>3 DEF NestedIn
  <2>5. Wild(hinit, t)
    BY <2>1, <2>4 DEF Sound
  <2> QED
    BY <2>5, WildHolds
<1>4. depth \in P
  <2> HIDE DEF P
  <2>1. \A d \in 0 .. depth : d \in P
    BY <1>2, <1>3, GoesOn
  <2> QED
    BY <2>1
<1> QED
  BY <1>4

\* Tables that are sound hold their names down to any depth.
LEMMA TablesSound ==
  ASSUME NEW hinit, NEW depth \in Nat,
         \A t \in {combined.hash, combined.wc_head.hash, combined.wc_tail.hash} \ {NoTable} : Sound(hinit, t)
  PROVE  \A t \in Tables(depth) : TableHolds(t)
<1>1. PICK tables : tables = {combined.hash, combined.wc_head.hash, combined.wc_tail.hash} \ {NoTable}
  OBVIOUS
<1> DEFINE f == CHOOSE g : Nests(tables, depth, g)
<1>2. Nests(tables, depth, f)
  BY NestsExists
<1>3. Tables(depth) = f[depth]
  BY <1>1 DEF Tables, Nests
<1> HIDE DEF f
<1>4. \A t \in f[depth] : Sound(hinit, t)
  BY <1>1, <1>2, NestsSound
<1> QED
  BY <1>3, <1>4 DEF Sound
-----------------------------------------------------------------------------
(***************************************************************************)
(* What rap_hash_add_key puts on its lists: no exact name twice, and of    *)
(* wildcards only characters that rap_dns_strcmp puts above the dot.       *)
(***************************************************************************)
Listed == [key : LowTexts, value : Nat]

ListsHold(h) ==
  /\ h.keys \in Seq(Listed)
  /\ \A i \in 1 .. Len(h.keys) : h.keys[i].key \in h.keys_hash
  /\ \A i, j \in 1 .. Len(h.keys) : h.keys[i].key = h.keys[j].key => i = j
  /\ h.dns_wc_head \in Seq(Entries) /\ h.dns_wc_tail \in Seq(Entries)

\* Names that are taken have no capitals.
LEMMA LowText ==
  ASSUME NEW s \in Texts
  PROVE  Strlow(s, Len(s)) \in LowTexts
<1>1. \A c \in Codes : Lower(c) \in LowCodes
  <2> TAKE c \in Codes
  <2>1. CASE c \in 65 .. 90
    BY <2>1 DEF Lower, Codes, LowCodes
  <2>2. CASE c \notin 65 .. 90
    BY <2>2 DEF Lower, Codes, LowCodes
  <2> QED
    BY <2>1, <2>2
<1>2. PICK t \in Texts : t = Strlow(s, Len(s))
  BY LowFacts
<1>3. Len(t) = Len(s) /\ \A i \in 1 .. Len(s) : t[i] = Lower(s[i]) /\ s[i] \in Codes
  BY <1>2, LowFacts DEF Texts
<1>4. \A i \in 1 .. Len(t) : t[i] \in LowCodes
  BY <1>1, <1>3
<1>5. t \in Seq(LowCodes)
  <2>1. t = [i \in 1 .. Len(t) |-> t[i]] /\ Len(t) \in Nat
    BY DEF Texts
  <2> QED
    BY <1>4, <2>1
<1> QED
  BY <1>2, <1>5 DEF LowTexts

\* A key that is taken for a wildcard, in lower case.
LEMMA PlainText ==
  ASSUME NEW k \in Keys, KindOf(k.key, k.flags) \in {"dot", "head", "tail"}
  PROVE  /\ Strlow(k.key, Len(k.key)) \in PlainTexts
         /\ Len(Strlow(k.key, Len(k.key))) = Len(k.key) /\ Len(k.key) \in Nat /\ Len(k.key) >= 2
<1>1. PICK s \in Texts : s = k.key
  BY KeyFacts
<1>2. "wildcard" \in k.flags /\ ~ Malformed(s) /\ Len(s) >= 2
  BY <1>1, KindFacts DEF Texts
<1>3. ToSet(s) \cap 1 .. 32 = {} /\ 0 \notin ToSet(s)
  BY <1>1, <1>2, KeyFacts DEF Malformed
<1>4. Len(s) \in Nat /\ \A i \in 1 .. Len(s) : s[i] \in ToSet(s) /\ s[i] \in Codes
  BY DEF Texts, ToSet
<1>5. ASSUME NEW c \in Codes, c \notin 0 .. 32 PROVE Lower(c) \in Plain
  <2>1. CASE c \in 65 .. 90
    BY <1>5, <2>1 DEF Lower, Codes, Plain
  <2>2. CASE c \notin 65 .. 90
    BY <1>5, <2>2 DEF Lower, Codes, Plain
  <2> QED
    BY <2>1, <2>2
<1>6. \A i \in 1 .. Len(s) : s[i] \notin 0 .. 32
  <2> TAKE i \in 1 .. Len(s)
  <2>1. s[i] # 0 /\ s[i] \notin 1 .. 32
    BY <1>3, <1>4
  <2>2. \A c \in 0 .. 32 : c = 0 \/ c \in 1 .. 32
    OBVIOUS
  <2> QED
    BY <2>1, <2>2
<1>7. PICK t \in Texts : t = Strlow(s, Len(s))
  BY LowFacts
<1>8. Len(t) = Len(s) /\ \A i \in 1 .. Len(s) : t[i] = Lower(s[i])
  BY <1>7, LowFacts
<1>9. \A i \in 1 .. Len(t) : t[i] \in Plain
  BY <1>4, <1>5, <1>6, <1>8
<1>10. t \in Seq(Plain)
  <2>1. t = [i \in 1 .. Len(t) |-> t[i]] /\ Len(t) \in Nat
    BY DEF Texts
  <2> QED
    BY <1>9, <2>1
<1> QED
  BY <1>1, <1>2, <1>4, <1>7, <1>8, <1>10 DEF PlainTexts

\* What Converted has read after n characters from the end.
Reads(key, f) ==
  f = [n \in 0 .. Len(key) - 1 |->
         IF n = 0 THEN [p |-> << >>, label |-> << >>]
         ELSE IF key[Len(key) - n + 1] = DOT
         THEN [p |-> f[n - 1].p \o f[n - 1].label \o <<DOT>>, label |-> << >>]
         ELSE [p |-> f[n - 1].p, label |-> <<key[Len(key) - n + 1]>> \o f[n - 1].label]]

ReadSoFar == [p : PlainTexts, label : PlainTexts]

\* Reading one character more keeps the characters of a wildcard.
LEMMA ReadStep ==
  ASSUME NEW r \in ReadSoFar, NEW c \in Plain
  PROVE  /\ [p |-> r.p \o r.label \o <<DOT>>, label |-> << >>] \in ReadSoFar
         /\ [p |-> r.p, label |-> <<c>> \o r.label] \in ReadSoFar
         /\ r.p \o r.label \in PlainTexts
<1>1. PICK a \in PlainTexts, b \in PlainTexts : a = r.p /\ b = r.label
  BY DEF ReadSoFar
<1>2. DOT \in Plain
  BY DEF DOT, Plain, Codes
<1>3. \A s, t \in PlainTexts : s \o t \in PlainTexts
  BY DEF PlainTexts
<1>4. << >> \in PlainTexts /\ <<DOT>> \in PlainTexts /\ <<c>> \in PlainTexts
  BY <1>2 DEF PlainTexts
<1>5. a \o b \in PlainTexts /\ a \o b \o <<DOT>> \in PlainTexts /\ <<c>> \o b \in PlainTexts
  BY <1>3, <1>4
<1> QED
  BY <1>1, <1>4, <1>5 DEF ReadSoFar

\* A wildcard that was converted has the characters it had before.
LEMMA ConvertedFacts ==
  ASSUME NEW key \in PlainTexts, Len(key) >= 1
  PROVE  Converted(key) \in PlainTexts
<1>1. PICK N \in Nat : N = Len(key) - 1 /\ Len(key) = N + 1
  <2>1. Len(key) \in Nat
    BY WFacts
  <2> QED
    BY <2>1
<1>2. PICK char : char = [n \in 1 .. N |-> key[Len(key) - n + 1]]
  OBVIOUS
<1>0. \A n \in 1 .. N : char[n] = key[Len(key) - n + 1] /\ char[n] \in Plain
  <2> TAKE n \in 1 .. N
  <2>1. Len(key) - n + 1 \in 1 .. Len(key)
    BY <1>1
  <2> QED
    BY <1>2, <2>1, WFacts
<1>3. PICK x \in ReadSoFar : x = [p |-> << >>, label |-> << >>]
  <2>1. << >> \in PlainTexts
    BY DEF PlainTexts
  <2>2. [p |-> << >>, label |-> << >>] \in ReadSoFar
    BY <2>1 DEF ReadSoFar
  <2> QED
    BY <2>2
<1> DEFINE Read(n, y) == IF char[n] = DOT THEN [p |-> y.p \o y.label \o <<DOT>>, label |-> << >>]
                         ELSE [p |-> y.p, label |-> <<char[n]>> \o y.label]
<1> DEFINE next == [n \in 1 .. N |-> [y \in ReadSoFar |-> Read(n, y)]]
<1>4. \A n \in 1 .. N : \A y \in ReadSoFar : Read(n, y) \in ReadSoFar
  BY <1>0, ReadStep
<1>5. Closed(ReadSoFar, next, N)
  <2> HIDE DEF Read
  <2> QED
    BY <1>4 DEF Closed
<1>6. PICK f : Runs(ReadSoFar, x, next, N, f)
  <2> HIDE DEF next
  <2> QED
    BY <1>5, Recursion
<1>7. \A n \in 1 .. N : f[n - 1] \in ReadSoFar /\ f[n] = Read(n, f[n - 1])
  <2> TAKE n \in 1 .. N
  <2>1. n - 1 \in 0 .. N
    OBVIOUS
  <2>2. f[n - 1] \in ReadSoFar /\ f[n] = next[n][f[n - 1]]
    <3> HIDE DEF next
    <3> QED
      BY <1>6, <2>1 DEF Runs
  <2>3. \A y \in ReadSoFar : next[n][y] = Read(n, y)
    <3> HIDE DEF Read
    <3> QED
      OBVIOUS
  <2> HIDE DEF next, Read
  <2> QED
    BY <2>2, <2>3
<1>8. f = [n \in 0 .. N |-> f[n]] /\ f[0] = x
  BY <1>6 DEF Runs
<1> HIDE DEF next
<1> DEFINE At(n, g) == IF n = 0 THEN [p |-> << >>, label |-> << >>]
         ELSE IF key[Len(key) - n + 1] = DOT
         THEN [p |-> g[n - 1].p \o g[n - 1].label \o <<DOT>>, label |-> << >>]
         ELSE [p |-> g[n - 1].p, label |-> <<key[Len(key) - n + 1]>> \o g[n - 1].label]
<1>9. ASSUME NEW n \in 1 .. N, NEW g PROVE At(n, g) = Read(n, g[n - 1])
  <2>1. n # 0 /\ char[n] = key[Len(key) - n + 1]
    BY <1>0
  <2> QED
    BY <2>1
<1>10. \A n \in 0 .. N : f[n] = At(n, f)
  <2> TAKE n \in 0 .. N
  <2>1. n = 0 \/ n \in 1 .. N
    OBVIOUS
  <2>2. At(0, f) = x
    BY <1>3
  <2> HIDE DEF At, Read
  <2> QED
    BY <1>7, <1>8, <1>9, <2>1, <2>2
<1>11. f = [n \in 0 .. N |-> At(n, f)]
  <2> HIDE DEF At
  <2> QED
    BY <1>8, <1>10
<1>12. Reads(key, f)
  BY <1>1, <1>11 DEF Reads
<1> DEFINE g == CHOOSE h : Reads(key, h)
<1>13. Reads(key, g)
  BY <1>12
<1>14. Converted(key) = g[N].p \o g[N].label
  BY <1>1 DEF Converted, Reads
<1> HIDE DEF g
<1>15. g = [n \in 0 .. N |-> At(n, g)]
  BY <1>1, <1>13 DEF Reads
<1>16. \A n \in 0 .. N : g[n] = At(n, g)
  <2> HIDE DEF At
  <2> QED
    BY <1>15
<1>17. g[0] = x /\ \A n \in 1 .. N : g[n] = Read(n, g[n - 1])
  <2>1. At(0, g) = x
    BY <1>3
  <2>2. 0 \in 0 .. N /\ \A n \in 1 .. N : n \in 0 .. N
    OBVIOUS
  <2> HIDE DEF At, Read
  <2> QED
    BY <1>9, <1>16, <2>1, <2>2
<1> HIDE DEF At, Read
<1> DEFINE P == {n \in 0 .. N : g[n] \in ReadSoFar}
<1>18. 0 \in P
  BY <1>17
<1>19. \A n \in 0 + 1 .. N : n - 1 \in P => n \in P
  <2> SUFFICES ASSUME NEW n \in 1 .. N, n - 1 \in P PROVE g[n] \in ReadSoFar
    OBVIOUS
  <2>1. g[n - 1] \in ReadSoFar
    OBVIOUS
  <2> QED
    BY <1>4, <1>17, <2>1
<1>20. N \in P
  <2> HIDE DEF P
  <2>1. \A n \in 0 .. N : n \in P
    BY <1>18, <1>19, GoesOn
  <2> QED
    BY <2>1
<1>21. PICK r \in ReadSoFar : r = g[N]
  BY <1>20
<1>22. r.p \o r.label \in PlainTexts
  <2>1. DOT \in Plain
    BY DEF DOT, Plain, Codes
  <2> QED
    BY <2>1, ReadStep
<1> QED
  BY <1>14, <1>21, <1>22
\* What rap_hash_add_key appends to a list.
LEMMA EntryFacts ==
  ASSUME NEW key, Len(calls) \in Nat
  PROVE  /\ Entry(key).key = key
         /\ key \in LowTexts => Entry(key) \in Listed
         /\ key \in PlainTexts => Entry(key) \in Entries
<1>1. PICK v \in Nat : v = Len(calls) + 1
  OBVIOUS
<1>2. Entry(key) = [key |-> key, value |-> v]
  BY <1>1 DEF Entry
<1> QED
  BY <1>2 DEF Listed, Entries

\* A new exact name comes last.
LEMMA ExactListed ==
  ASSUME KnownInv, ListsHold(ha), NEW k \in Keys, AddExact(k.key, k.flags)
  PROVE  ListsHold(ha')
<1>1. PICK name \in LowTexts :
        \/ ha' = ha
        \/ /\ name \notin ha.keys_hash
           /\ ha' = [ha EXCEPT !.keys_hash = @ \cup {name}, !.keys = Append(@, Entry(name))]
  <2>1. k.key \in Texts /\ ("readonly" \in k.flags => Strlow(k.key, Len(k.key)) = k.key)
    BY KeyFacts
  <2>2. Strlow(k.key, Len(k.key)) \in LowTexts
    BY <2>1, LowText
  <2> QED
    BY <2>1, <2>2 DEF AddExact
<1>2. CASE ha' = ha
  BY <1>2
<1>3. CASE ~ (ha' = ha)
  <2>1. Len(calls) \in Nat
    BY DEF KnownInv, KnownBy
  <2>2. PICK e \in Listed : e = Entry(name) /\ e.key = name
    BY <2>1, EntryFacts
  <2>3. PICK q \in Seq(Listed) : q = ha.keys
    BY DEF ListsHold
  <2>4. PICK n \in Nat : n = Len(q)
    BY <2>3
  <2>5. PICK r : r = Append(q, e)
    OBVIOUS
  <2>12. r \in Seq(Listed) /\ Len(r) = n + 1 /\ r[n + 1] = e /\ \A i \in 1 .. n : r[i] = q[i]
    BY <2>4, <2>5
  <2>6. PICK known : known = ha.keys_hash
    OBVIOUS
  <2>7. /\ \A i \in 1 .. n : q[i].key \in known
        /\ \A i, j \in 1 .. n : q[i].key = q[j].key => i = j
        /\ ha.dns_wc_head \in Seq(Entries) /\ ha.dns_wc_tail \in Seq(Entries)
    BY <2>3, <2>4, <2>6 DEF ListsHold
  <2>8. name \notin known /\ ha' = [ha EXCEPT !.keys_hash = known \cup {name}, !.keys = r]
    BY <1>1, <1>3, <2>2, <2>3, <2>5, <2>6
  <2>9. /\ ha'.keys = r /\ ha'.keys_hash = known \cup {name}
        /\ ha'.dns_wc_head = ha.dns_wc_head /\ ha'.dns_wc_tail = ha.dns_wc_tail
    BY <2>8
  <2>10. ASSUME NEW i \in 1 .. n + 1
         PROVE  \/ i \in 1 .. n /\ r[i].key = q[i].key /\ r[i].key \in known
                \/ i = n + 1 /\ r[i].key = name
    <3>1. i \in 1 .. n \/ i = n + 1
      OBVIOUS
    <3> QED
      BY <2>2, <2>7, <2>12, <3>1
  <2>11. ASSUME NEW i \in 1 .. n + 1, NEW j \in 1 .. n + 1, r[i].key = r[j].key PROVE i = j
    BY <2>7, <2>8, <2>10, <2>11
  <2> QED
    BY <2>7, <2>9, <2>10, <2>11, <2>12 DEF ListsHold
<1> QED
  BY <1>2, <1>3

\* A wildcard with a head comes last of its kind; a refused one may leave its exact name.
LEMMA HeadListed ==
  ASSUME KnownInv, ListsHold(ha), NEW k \in Keys, AddHead(k.key, k.flags)
  PROVE  ListsHold(ha')
<1>1. PICK low \in PlainTexts : low = Strlow(k.key, Len(k.key)) /\ Len(low) >= 1
  <2>1. KindOf(k.key, k.flags) \in {"dot", "head", "tail"}
    BY DEF AddHead
  <2>2. /\ Strlow(k.key, Len(k.key)) \in PlainTexts /\ Len(k.key) \in Nat
        /\ Len(Strlow(k.key, Len(k.key))) = Len(k.key) /\ Len(k.key) >= 2
    BY <2>1, PlainText
  <2> QED
    BY <2>2
<1>2. Len(calls) \in Nat
  BY DEF KnownInv, KnownBy
<1>3. PICK e \in Entries : e = Entry(Converted(low))
  BY <1>1, <1>2, ConvertedFacts, EntryFacts
<1>4. PICK name, exact :
        \/ ha' = ha
        \/ ha' = [ha EXCEPT !.keys_hash = @ \cup exact]
        \/ ha' = [[ha EXCEPT !.keys_hash = @ \cup exact]
                    EXCEPT !.head_hash = @ \cup {name}, !.dns_wc_head = Append(@, e)]
  BY <1>1, <1>3 DEF AddHead
<1>5. PICK q \in Seq(Entries) : q = ha.dns_wc_head
  BY DEF ListsHold
<1>6. PICK r : r = Append(q, e)
  OBVIOUS
<1>10. r \in Seq(Entries)
  BY <1>6
<1>7. CASE ha' = ha
  BY <1>7
<1>8. CASE ha' = [ha EXCEPT !.keys_hash = @ \cup exact]
  <2>1. /\ ha'.keys = ha.keys /\ ha.keys_hash \subseteq ha'.keys_hash
        /\ ha'.dns_wc_head = ha.dns_wc_head /\ ha'.dns_wc_tail = ha.dns_wc_tail
    BY <1>8
  <2> QED
    BY <2>1 DEF ListsHold
<1>9. CASE ha' = [[ha EXCEPT !.keys_hash = @ \cup exact]
                    EXCEPT !.head_hash = @ \cup {name}, !.dns_wc_head = Append(@, e)]
  <2>1. /\ ha'.keys = ha.keys /\ ha.keys_hash \subseteq ha'.keys_hash
        /\ ha'.dns_wc_head = r /\ ha'.dns_wc_tail = ha.dns_wc_tail
    BY <1>5, <1>6, <1>9
  <2> QED
    BY <1>10, <2>1 DEF ListsHold
<1> QED
  BY <1>4, <1>7, <1>8, <1>9

\* So does a wildcard with a tail.
LEMMA TailListed ==
  ASSUME KnownInv, ListsHold(ha), NEW k \in Keys, AddTail(k.key, k.flags)
  PROVE  ListsHold(ha')
<1>1. PICK low \in PlainTexts : low = Strlow(k.key, Len(k.key)) /\ Len(low) = Len(k.key) /\ Len(k.key) \in Nat /\ Len(k.key) >= 2
  <2>1. KindOf(k.key, k.flags) \in {"dot", "head", "tail"}
    BY DEF AddTail
  <2> QED
    BY <2>1, PlainText
<1>2. Len(calls) \in Nat
  BY DEF KnownInv, KnownBy
<1>3. PICK e \in Entries : e = Entry(SubSeq(low, 1, Len(k.key) - 2))
  <2>1. SubSeq(low, 1, Len(k.key) - 2) \in PlainTexts
    <3>1. PICK s \in Seq(Plain) : s = low
      BY DEF PlainTexts
    <3>2. PICK m : m = Len(k.key) - 2
      OBVIOUS
    <3>4. m \in Nat /\ m <= Len(s)
      BY <1>1, <3>1, <3>2
    <3>3. SubSeq(s, 1, m) \in Seq(Plain)
      BY <3>4
    <3> QED
      BY <3>1, <3>2, <3>3 DEF PlainTexts
  <2> QED
    BY <1>2, <2>1, EntryFacts
<1>4. PICK name :
        \/ ha' = ha
        \/ ha' = [ha EXCEPT !.tail_hash = @ \cup {name}, !.dns_wc_tail = Append(@, e)]
  BY <1>1, <1>3 DEF AddTail
<1>5. PICK q \in Seq(Entries) : q = ha.dns_wc_tail
  BY DEF ListsHold
<1>6. PICK r : r = Append(q, e)
  OBVIOUS
<1>10. r \in Seq(Entries)
  BY <1>6
<1>7. CASE ha' = ha
  BY <1>7
<1>8. CASE ha' = [ha EXCEPT !.tail_hash = @ \cup {name}, !.dns_wc_tail = Append(@, e)]
  <2>1. /\ ha'.keys = ha.keys /\ ha'.keys_hash = ha.keys_hash
        /\ ha'.dns_wc_head = ha.dns_wc_head /\ ha'.dns_wc_tail = r
    BY <1>5, <1>6, <1>8
  <2> QED
    BY <1>10, <2>1 DEF ListsHold
<1> QED
  BY <1>4, <1>7, <1>8

-----------------------------------------------------------------------------
(***************************************************************************)
(* Building the tables.                                                    *)
(***************************************************************************)
LEMMA ExactSound ==
  ASSUME ListsHold(ha), NEW hinit, ExactTable(hinit) # NoTable
  PROVE  Sound(hinit, ExactTable(hinit))
<1>1. PICK q \in Seq(Listed) : q = ha.keys
  BY DEF ListsHold
<1>2. PICK n \in Nat : n = Len(q) /\ DOMAIN q = 1 .. n
  OBVIOUS
<1>3. PICK k \in [1 .. n -> LowTexts] : \A i \in 1 .. n : k[i] = q[i].key
  <2>1. \A i \in 1 .. n : q[i].key \in LowTexts
    <3>1. \A x \in Listed : x.key \in LowTexts
      BY DEF Listed
    <3> QED
      BY <1>2, <3>1
  <2>2. PICK f : f = [i \in 1 .. n |-> q[i].key]
    OBVIOUS
  <2>3. f \in [1 .. n -> LowTexts] /\ \A i \in 1 .. n : f[i] = q[i].key
    BY <2>1, <2>2
  <2> QED
    BY <2>3
<1>4. PICK v : v = [i \in 1 .. n |-> Data(q[i].value, 0)]
  OBVIOUS
<1>5. PICK names : names = [i \in 1 .. n |-> Elt(k[i], v[i])]
  OBVIOUS
<1>6. ExactTable(hinit) = HashInit(hinit, names)
  <2>1. names = [i \in DOMAIN q |-> Elt(q[i].key, Data(q[i].value, 0))]
    BY <1>2, <1>3, <1>4, <1>5
  <2> QED
    BY <1>1, <2>1 DEF ExactTable
<1>7. \A i, j \in 1 .. n : k[i] = k[j] => i = j
  BY <1>1, <1>2, <1>3 DEF ListsHold
<1>8. Apart(names, n, k, v)
  BY <1>5, <1>7 DEF Apart
<1>9. PICK t : t = HashInit(hinit, names)
  OBVIOUS
<1>10. TableHolds(t) /\ KeepsOnly(t, n, v)
  BY <1>6, <1>8, <1>9, HashInitHolds
<1>11. \A i \in 1 .. n : v[i].tag = 0
  BY <1>4 DEF Data
<1>12. \A b \in DOMAIN t.buckets : \A x \in ToSet(t.buckets[b]) : x.value.tag = 0
  BY <1>10, <1>11 DEF KeepsOnly
<1>13. Sound(hinit, t)
  BY <1>10, <1>12 DEF Sound
<1> QED
  BY <1>6, <1>9, <1>13

\* The tables of wildcards are sound.
LEMMA WildcardSound ==
  ASSUME NEW hinit, NEW names \in Seq(Entries), WildcardTable(hinit, names).hash # NoTable
  PROVE  Sound(hinit, WildcardTable(hinit, names).hash)
<1>1. CASE names = << >>
  BY <1>1 DEF WildcardTable, Absent
<1>2. CASE names # << >>
  <2>1. PICK t : t = WildcardInit(hinit, Sorted(names))
    OBVIOUS
  <2>2. WildcardTable(hinit, names).hash = t
    BY <1>2, <2>1 DEF WildcardTable
  <2>3. Wild(hinit, t)
    BY <2>1, <2>2, SortedOrdered DEF Wild
  <2> QED
    BY <2>2, <2>3, WildHolds
<1> QED
  BY <1>1, <1>2

\* The tables of c are sound, for the sizes they were built with.
AllSound(c) ==
  \E hinit : \A t \in {c.hash, c.wc_head.hash, c.wc_tail.hash} \ {NoTable} : Sound(hinit, t)

\* All tables that are built are.
LEMMA BuildSound ==
  ASSUME ListsHold(ha), Build
  PROVE  AllSound(combined')
<1>1. PICK hinit \in Hinits :
        combined' = [hash |-> IF ha.keys = << >> THEN NoTable ELSE ExactTable(hinit),
                     wc_head |-> WildcardTable(hinit, ha.dns_wc_head),
                     wc_tail |-> WildcardTable(hinit, ha.dns_wc_tail)]
  BY DEF Build
<1>2. PICK x : x = IF ha.keys = << >> THEN NoTable ELSE ExactTable(hinit)
  OBVIOUS
<1>3. PICK y, z : y = WildcardTable(hinit, ha.dns_wc_head) /\ z = WildcardTable(hinit, ha.dns_wc_tail)
  OBVIOUS
<1>4. combined'.hash = x /\ combined'.wc_head = y /\ combined'.wc_tail = z
  BY <1>1, <1>2, <1>3
<1>5. ha.dns_wc_head \in Seq(Entries) /\ ha.dns_wc_tail \in Seq(Entries)
  BY DEF ListsHold
<1>6. x # NoTable => Sound(hinit, x)
  BY <1>2, ExactSound
<1>7. /\ y.hash # NoTable => Sound(hinit, y.hash)
      /\ z.hash # NoTable => Sound(hinit, z.hash)
  BY <1>3, <1>5, WildcardSound
<1>8. \A t \in {combined'.hash, combined'.wc_head.hash, combined'.wc_tail.hash} \ {NoTable} : Sound(hinit, t)
  BY <1>4, <1>6, <1>7
<1> QED
  BY <1>8 DEF AllSound

\* The inductive invariant: tables are sound because the lists they are built of hold.
NamesInv == KnownInv /\ ListsHold(ha) /\ AllSound(combined)

\* The invariant holds at first.
LEMMA NamesInvInit == Init => NamesInv
<1> SUFFICES ASSUME Init PROVE NamesInv
  OBVIOUS
<1>1. KnownInv
  BY KnownInit
<1>2. ListsHold(ha)
  <2>1. ha.keys = << >> /\ ha.dns_wc_head = << >> /\ ha.dns_wc_tail = << >>
    BY DEF Init, KeysArrayInit
  <2> QED
    BY <2>1 DEF ListsHold
<1>3. AllSound(combined)
  BY DEF Init, NotBuilt, Absent, AllSound
<1> QED
  BY <1>1, <1>2, <1>3 DEF NamesInv

\* Every step keeps the invariant.
LEMMA NamesInvNext == NamesInv /\ [Next]_vars => NamesInv'
<1> SUFFICES ASSUME NamesInv, [Next]_vars PROVE NamesInv'
  OBVIOUS
<1>1. KnownInv /\ ListsHold(ha) /\ AllSound(combined)
  BY DEF NamesInv
<1>2. KnownInv'
  BY <1>1, KnownNext
<1>3. CASE AddKey
  <2>1. PICK k \in Keys : \/ AddDeclined(k.key, k.flags) \/ AddExact(k.key, k.flags)
                          \/ AddHead(k.key, k.flags) \/ AddTail(k.key, k.flags)
    BY <1>3 DEF AddKey
  <2>2. AddDeclined(k.key, k.flags) => ha' = ha
    BY DEF AddDeclined
  <2>3. ListsHold(ha')
    BY <1>1, <2>1, <2>2, ExactListed, HeadListed, TailListed
  <2>4. combined' = combined
    BY <1>3 DEF AddKey
  <2> QED
    BY <1>1, <1>2, <2>3, <2>4 DEF NamesInv
<1>4. CASE Build
  <2>1. ha' = ha
    BY <1>4 DEF Build
  <2>2. AllSound(combined')
    BY <1>1, <1>4, BuildSound
  <2> QED
    BY <1>1, <1>2, <2>1, <2>2 DEF NamesInv
<1>5. CASE UNCHANGED vars
  <2>1. ha' = ha /\ combined' = combined
    BY <1>5 DEF vars
  <2> QED
    BY <1>1, <1>2, <2>1 DEF NamesInv
<1> QED
  BY <1>3, <1>4, <1>5 DEF Next

(***************************************************************************)
(* rap_hash_init and rap_hash_wildcard_init, whatever names were taken:    *)
(* every bucket of every table, at every depth, has room for its names and *)
(* the NULL behind them, and no label has two entries.                     *)
(***************************************************************************)
THEOREM BucketsHoldAlways == Spec => []BucketsHoldTheirNames
<1>1. NamesInv => BucketsHoldTheirNames
  <2> SUFFICES ASSUME NamesInv, NEW d \in 0 .. MaxDepth, NEW table \in Tables(d) PROVE TableHolds(table)
    BY DEF BucketsHoldTheirNames
  <2>1. PICK hinit : \A t \in {combined.hash, combined.wc_head.hash, combined.wc_tail.hash} \ {NoTable} : Sound(hinit, t)
    BY DEF NamesInv, AllSound
  <2>2. d \in Nat
    BY HinitsAssumption
  <2> QED
    BY <2>1, <2>2, TablesSound
<1> QED
  BY <1>1, NamesInvInit, NamesInvNext, PTL DEF Spec
=============================================================================
