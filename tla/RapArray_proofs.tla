--------------------------- MODULE RapArray_proofs ---------------------------
(***************************************************************************)
(* TypeOK and InUseIsReserved of RapArray for any arrays, sizes, pool and  *)
(* number of other allocations.                                            *)
(*                                                                         *)
(* The invariant adds to them what the rewinding of rap_array_destroy      *)
(* rests on: the arena is well formed, no region held is empty, and an     *)
(* array has room for at least one element.                                *)
(***************************************************************************)
EXTENDS RapArray, PoolArena_proofs

Extent == [block : Nat, from : Nat, to : Nat]

HeldOK(a, c, held) ==
  /\ \A h \in DOMAIN held :
       held[h] \in Extent /\ held[h].from < held[h].to /\ Reserved(a, c, held[h])
  /\ \A h, k \in DOMAIN held : h # k => Disjoint(held[h], held[k])

ArrayOK(x) == x \in Array /\ x.nalloc > 0 /\ x.nelts <= x.nalloc

StateOK(a, c, arr, mem, os) ==
  /\ ArenaOK(a)
  /\ c \in 0 .. MaxChunks
  /\ DOMAIN arr = Arrays
  /\ \A b \in Live(arr) : ArrayOK(arr[b])
  /\ \A u \in DOMAIN mem : mem[u] \in 1 .. MaxElems
  /\ os \in Seq(Extent)
  /\ HeldOK(a, c, HeldBy(os, arr))

ArrayInv == StateOK(arena, chunks, arrays, memory, others)

-----------------------------------------------------------------------------
(***************************************************************************)
(* Holders and what they hold.                                             *)
(***************************************************************************)
HeldByThem(held, os, arr) ==
  /\ \A k \in DOMAIN os : <<"other", k>> \in DOMAIN held /\ held[<<"other", k>>] = os[k]
  /\ \A b \in Live(arr) :
       /\ <<"structure", b>> \in DOMAIN held
       /\ held[<<"structure", b>>] = Region(arr[b].at, ArrayRec)
       /\ <<"elements", b>> \in DOMAIN held
       /\ held[<<"elements", b>>] = Region(arr[b].elts, ElemSize * arr[b].nalloc)

OnlyThem(held, os, arr) ==
  \A h \in DOMAIN held :
    \/ \E k \in DOMAIN os : h = <<"other", k>>
    \/ \E b \in Live(arr) : h = <<"structure", b>> \/ h = <<"elements", b>>

LEMMA HeldFacts ==
  ASSUME NEW os, NEW arr
  PROVE  HeldByThem(HeldBy(os, arr), os, arr) /\ OnlyThem(HeldBy(os, arr), os, arr)
<1>1. DOMAIN HeldBy(os, arr) =
        ({"other"} \X DOMAIN os) \cup ({"structure", "elements"} \X Live(arr))
  BY DEF HeldBy
<1>2. ASSUME NEW k \in DOMAIN os
      PROVE  <<"other", k>> \in DOMAIN HeldBy(os, arr) /\ HeldBy(os, arr)[<<"other", k>>] = os[k]
  BY <1>1 DEF HeldBy
<1>3. ASSUME NEW b \in Live(arr)
      PROVE  /\ <<"structure", b>> \in DOMAIN HeldBy(os, arr)
             /\ HeldBy(os, arr)[<<"structure", b>>] = Region(arr[b].at, ArrayRec)
  BY <1>1 DEF HeldBy
<1>4. ASSUME NEW b \in Live(arr)
      PROVE  /\ <<"elements", b>> \in DOMAIN HeldBy(os, arr)
             /\ HeldBy(os, arr)[<<"elements", b>>] = Region(arr[b].elts, ElemSize * arr[b].nalloc)
  BY <1>1 DEF HeldBy
<1>5. \A h \in DOMAIN HeldBy(os, arr) :
        \/ \E k \in DOMAIN os : h = <<"other", k>>
        \/ \E b \in Live(arr) : h = <<"structure", b>> \/ h = <<"elements", b>>
  <2> SUFFICES ASSUME NEW h \in DOMAIN HeldBy(os, arr)
               PROVE  \/ \E k \in DOMAIN os : h = <<"other", k>>
                      \/ \E b \in Live(arr) : h = <<"structure", b>> \/ h = <<"elements", b>>
    OBVIOUS
  <2>1. CASE h \in {"other"} \X DOMAIN os
    <3>1. h[2] \in DOMAIN os /\ h = <<"other", h[2]>>
      BY <2>1
    <3> QED
      BY <3>1
  <2>2. CASE h \in {"structure", "elements"} \X Live(arr)
    <3>1. h[2] \in Live(arr) /\ h = << h[1], h[2] >> /\ h[1] \in {"structure", "elements"}
      BY <2>2
    <3>2. h = <<"structure", h[2]>> \/ h = <<"elements", h[2]>>
      BY <3>1
    <3> QED
      BY <3>1, <3>2
  <2> QED
    BY <1>1, <2>1, <2>2
<1> QED
  BY <1>2, <1>3, <1>4, <1>5 DEF HeldByThem, OnlyThem

LEMMA Fewer ==
  ASSUME NEW a, NEW c, NEW held, HeldOK(a, c, held), NEW some,
         \A h \in DOMAIN some : h \in DOMAIN held /\ some[h] = held[h]
  PROVE  HeldOK(a, c, some)
BY DEF HeldOK

(***************************************************************************)
(* The holders of a state among those of a function that is in order.      *)
(***************************************************************************)
LEMMA HeldAmong ==
  ASSUME NEW a, NEW c, NEW held, HeldOK(a, c, held), NEW os, NEW arr,
         HeldByThem(held, os, arr)
  PROVE  HeldOK(a, c, HeldBy(os, arr))
<1> DEFINE own == HeldBy(os, arr)
<1> USE DEF HeldByThem
<1>1. HeldByThem(own, os, arr) /\ OnlyThem(own, os, arr)
  BY HeldFacts
<1> HIDE DEF own
<1>2. \A h \in DOMAIN own : h \in DOMAIN held /\ own[h] = held[h]
  <2> SUFFICES ASSUME NEW h \in DOMAIN own
               PROVE  h \in DOMAIN held /\ own[h] = held[h]
    OBVIOUS
  <2>1. ASSUME NEW k \in DOMAIN os, h = <<"other", k>>
        PROVE  h \in DOMAIN held /\ own[h] = held[h]
    BY <1>1, <2>1
  <2>2. ASSUME NEW b \in Live(arr), h = <<"structure", b>> \/ h = <<"elements", b>>
        PROVE  h \in DOMAIN held /\ own[h] = held[h]
    BY <1>1, <2>2
  <2> QED
    BY <1>1, <2>1, <2>2 DEF OnlyThem
<1>3. HeldOK(a, c, own)
  BY <1>2, Fewer
<1> QED
  BY <1>3 DEF own

(***************************************************************************)
(* One more holder k, of region r, or k holding r instead.                 *)
(***************************************************************************)
Adds(held, k, r) == [h \in DOMAIN held \cup {k} |-> IF h = k THEN r ELSE held[h]]

LEMMA DisjointEitherWay ==
  ASSUME NEW r, NEW s, Disjoint(r, s)
  PROVE  Disjoint(s, r)
BY DEF Disjoint

LEMMA AddsKeeps ==
  ASSUME NEW a, NEW c, NEW held, NEW k, NEW r \in Extent, r.from < r.to, Reserved(a, c, r),
         \A h \in DOMAIN held \ {k} :
           /\ held[h] \in Extent /\ held[h].from < held[h].to /\ Reserved(a, c, held[h])
           /\ Disjoint(held[h], r),
         \A h, j \in DOMAIN held \ {k} : h # j => Disjoint(held[h], held[j])
  PROVE  HeldOK(a, c, Adds(held, k, r))
<1> DEFINE more == Adds(held, k, r)
<1>1. DOMAIN more = DOMAIN held \cup {k}
  BY DEF Adds
<1>2. more[k] = r /\ \A h \in DOMAIN held \ {k} : more[h] = held[h]
  BY DEF Adds
<1>3. \A h \in DOMAIN held \ {k} : Disjoint(r, held[h])
  BY DisjointEitherWay
<1> HIDE DEF more
<1>4. HeldOK(a, c, more)
  BY <1>1, <1>2, <1>3 DEF HeldOK
<1> QED
  BY <1>4 DEF more

(***************************************************************************)
(* A holder's region of a block ends where its free bytes begin at the     *)
(* latest.                                                                 *)
(***************************************************************************)
LEMMA Below ==
  ASSUME NEW a, ArenaOK(a), NEW c \in Nat, NEW r \in Extent, Reserved(a, c, r)
  PROVE  /\ r.block <= MaxBlocks =>
              /\ r.block \in 1 .. Len(a.last)
              /\ Header(r.block) <= r.from
              /\ r.to <= a.last[r.block]
         /\ r.block > MaxBlocks => r.block \in MaxBlocks + 1 .. MaxBlocks + c
<1>1. Len(a.last) <= MaxBlocks /\ Len(a.last) \in Nat /\ MaxBlocks \in Nat
  BY LenProperties, LimitsAssumption DEF ArenaOK, ArenaTyped, Arena
<1>2. CASE InBounds(a, r)
  BY <1>1, <1>2 DEF InBounds
<1>3. CASE r.block \in MaxBlocks + 1 .. MaxBlocks + c
  BY <1>1, <1>3
<1> QED
  BY <1>2, <1>3 DEF Reserved

(***************************************************************************)
(* A small allocation, and a chunk, add a holder.                          *)
(***************************************************************************)
LEMMA SmallAdds ==
  ASSUME NEW a, ArenaOK(a), NEW c \in Nat, NEW held, HeldOK(a, c, held),
         NEW size \in Nat \ {0}, size <= PoolSize - PoolHdr,
         NEW o \in Small(a, size, TRUE), o.at # NULL, NEW k
  PROVE  /\ ArenaOK(o.arena)
         /\ o.at \in Address
         /\ Region(o.at, size) \in Extent
         /\ HeldOK(o.arena, c, Adds(held, k, Region(o.at, size)))
<1> DEFINE r == Region(o.at, size)
<1>1. Reserves(a, o, size)
  BY SmallReserves
<1>2. ArenaOK(o.arena) /\ o.at \in Address /\ o.at.at \in Nat /\ o.at.block \in Nat
  BY <1>1 DEF Reserves, Address
<1>3. r \in Extent /\ r.from < r.to /\ r.block = o.at.block /\ r.from = o.at.at
      /\ r.to = o.at.at + size
  BY <1>2 DEF Region, Extent
<1> HIDE DEF r
<1>4. /\ Len(a.last) \in Nat /\ Len(o.arena.last) \in Nat /\ MaxBlocks \in Nat
      /\ Len(o.arena.last) <= MaxBlocks /\ Len(a.last) <= Len(o.arena.last)
  BY <1>1, <1>2, LenProperties, LimitsAssumption DEF Reserves, ArenaOK, ArenaTyped, Arena
<1>5. Reserved(o.arena, c, r)
  <2>1. /\ o.at.block \in 1 .. Len(o.arena.last)
        /\ Header(o.at.block) <= o.at.at
        /\ o.at.at + size <= o.arena.last[o.at.block]
    BY <1>1 DEF Reserves
  <2>2. r.from <= r.to
    BY <1>2, <1>3
  <2> QED
    BY <1>3, <2>1, <2>2 DEF Reserved, InBounds
<1>6. ASSUME NEW s \in Extent, Reserved(a, c, s)
      PROVE  Reserved(o.arena, c, s) /\ Disjoint(s, r)
  <2>1. CASE s.block > MaxBlocks
    <3>1. s.block \in MaxBlocks + 1 .. MaxBlocks + c
      BY <1>6, <2>1, Below
    <3>2. s.block # r.block
      BY <2>1, <1>1, <1>3, <1>4 DEF Reserves
    <3> QED
      BY <3>1, <3>2 DEF Reserved, Disjoint
  <2>2. CASE s.block <= MaxBlocks
    <3>1. s.block \in 1 .. Len(a.last) /\ Header(s.block) <= s.from /\ s.to <= a.last[s.block]
          /\ s.from <= s.to
      <4>1. InBounds(a, s)
        BY <1>6, <2>2, <1>4 DEF Reserved
      <4> QED
        BY <4>1 DEF InBounds
    <3>2. s.block \in 1 .. Len(o.arena.last) /\ a.last[s.block] \in Nat
          /\ o.arena.last[s.block] \in Nat
      BY <3>1, <1>2, <1>4, BlockFacts
    <3>3. a.last[s.block] <= o.arena.last[s.block]
          /\ (s.block = o.at.block => a.last[s.block] <= o.at.at)
      BY <3>1, <1>1 DEF Reserves
    <3>4. s.to \in Nat /\ s.from \in Nat
      BY DEF Extent
    <3>5. s.to <= o.arena.last[s.block] /\ (s.block = o.at.block => s.to <= o.at.at)
      BY <3>1, <3>2, <3>3, <3>4, <1>2
    <3>6. InBounds(o.arena, s)
      BY <3>1, <3>2, <3>5 DEF InBounds
    <3>7. Disjoint(s, r)
      BY <3>5, <1>3 DEF Disjoint
    <3> QED
      BY <3>6, <3>7 DEF Reserved
  <2> QED
    BY <2>1, <2>2, <1>4 DEF Extent
<1>7. \A h \in DOMAIN held \ {k} :
        /\ held[h] \in Extent /\ held[h].from < held[h].to
        /\ Reserved(o.arena, c, held[h]) /\ Disjoint(held[h], r)
  BY <1>6 DEF HeldOK
<1>8. \A h, j \in DOMAIN held \ {k} : h # j => Disjoint(held[h], held[j])
  BY DEF HeldOK
<1>9. HeldOK(o.arena, c, Adds(held, k, r))
  BY <1>3, <1>5, <1>7, <1>8, AddsKeeps
<1> QED
  BY <1>2, <1>3, <1>9 DEF r

LEMMA ChunkAdds ==
  ASSUME NEW a, ArenaOK(a), NEW c \in Nat, NEW held, HeldOK(a, c, held),
         NEW size \in Nat \ {0}, NEW k
  PROVE  /\ Region([block |-> MaxBlocks + c + 1, at |-> 0], size) \in Extent
         /\ HeldOK(a, c + 1, Adds(held, k, Region([block |-> MaxBlocks + c + 1, at |-> 0], size)))
<1> DEFINE r == Region([block |-> MaxBlocks + c + 1, at |-> 0], size)
<1>1. MaxBlocks \in Nat
  BY LimitsAssumption
<1>2. r \in Extent /\ r.block = MaxBlocks + c + 1 /\ r.from < r.to
  BY <1>1 DEF Region, Extent
<1> HIDE DEF r
<1>3. Reserved(a, c + 1, r)
  BY <1>1, <1>2 DEF Reserved
<1>4. ASSUME NEW s \in Extent, Reserved(a, c, s)
      PROVE  Reserved(a, c + 1, s) /\ Disjoint(s, r)
  <2>1. s.block \in Nat
    BY DEF Extent
  <2>2. s.block # r.block
    BY <1>1, <1>2, <1>4, <2>1, Below
  <2>3. Reserved(a, c + 1, s)
    <3>1. CASE InBounds(a, s)
      BY <3>1 DEF Reserved
    <3>2. CASE s.block \in MaxBlocks + 1 .. MaxBlocks + c
      BY <3>2, <1>1 DEF Reserved
    <3> QED
      BY <1>4, <3>1, <3>2 DEF Reserved
  <2> QED
    BY <2>2, <2>3 DEF Disjoint
<1>5. \A h \in DOMAIN held \ {k} :
        /\ held[h] \in Extent /\ held[h].from < held[h].to
        /\ Reserved(a, c + 1, held[h]) /\ Disjoint(held[h], r)
  BY <1>4 DEF HeldOK
<1>6. \A h, j \in DOMAIN held \ {k} : h # j => Disjoint(held[h], held[j])
  BY DEF HeldOK
<1>7. HeldOK(a, c + 1, Adds(held, k, r))
  BY <1>2, <1>3, <1>5, <1>6, AddsKeeps
<1> QED
  BY <1>2, <1>7 DEF r

LEMMA Sizes ==
  /\ PoolMax \in Int /\ PoolMax <= PoolSize - PoolHdr
  /\ LargeRec \in Nat \ {0} /\ LargeRec <= PoolSize - PoolHdr
  /\ ArrayRec \in Nat \ {0} /\ ArrayRec <= PoolSize - PoolHdr
  /\ ElemSize \in Nat \ {0} /\ MaxChunks \in Nat
<1>1. PoolMax \in Int /\ PoolMax <= PoolSize - PoolHdr
  BY PoolSizeAssumption, LimitsAssumption DEF PoolMax
<1> QED
  BY <1>1, PoolSizeAssumption, ArrayAssumption

(***************************************************************************)
(* rap_palloc adds a holder, and another one for the record of a chunk, or *)
(* changes nothing.                                                        *)
(***************************************************************************)
LEMMA PallocAdds ==
  ASSUME NEW a, ArenaOK(a), chunks \in 0 .. MaxChunks, NEW held, HeldOK(a, chunks, held),
         NEW size \in Nat \ {0}, NEW q \in PallocOutcomes(a, size), q.at # NULL, NEW j, NEW k
  PROVE  /\ ArenaOK(q.arena) /\ q.chunks \in 0 .. MaxChunks /\ q.at \in Address
         /\ \/ /\ q.record = << >>
               /\ HeldOK(q.arena, q.chunks, Adds(held, k, Region(q.at, size)))
            \/ \E r \in Extent :
                 /\ q.record = << r >>
                 /\ HeldOK(q.arena, q.chunks, Adds(Adds(held, j, r), k, Region(q.at, size)))
<1>1. chunks \in Nat
  BY Sizes
<1>2. CASE size <= PoolMax
  <2>1. PICK o \in Small(a, size, TRUE) :
          q = [arena |-> o.arena, at |-> o.at, chunks |-> chunks, record |-> << >>]
    BY <1>2 DEF PallocOutcomes
  <2>2. /\ q.arena = o.arena /\ q.at = o.at /\ q.chunks = chunks /\ q.record = << >>
        /\ o.at # NULL
    BY <2>1
  <2>3. size <= PoolSize - PoolHdr
    BY <1>2, Sizes, PoolSizeAssumption
  <2>4. /\ ArenaOK(o.arena) /\ o.at \in Address
        /\ HeldOK(o.arena, chunks, Adds(held, k, Region(o.at, size)))
    BY <1>1, <2>2, <2>3, SmallAdds
  <2> QED
    BY <2>2, <2>4
<1>3. CASE ~ (size <= PoolMax)
  <2> DEFINE none == [arena |-> a, at |-> NULL, chunks |-> chunks, record |-> << >>]
  <2> DEFINE some == {ChunkOutcome(o) : o \in Small(a, LargeRec, TRUE)}
  <2>outcomes. q \in {none} \cup (IF chunks < MaxChunks THEN some ELSE {})
    BY <1>3 DEF PallocOutcomes
  <2>found. q # none
    OBVIOUS
  <2>1. chunks < MaxChunks /\ q \in some
    BY <2>outcomes, <2>found
  <2>2. PICK o \in Small(a, LargeRec, TRUE) : q = ChunkOutcome(o)
    BY <2>1
  <2>3. o.at # NULL
    BY <2>2 DEF ChunkOutcome
  <2> DEFINE r == Region(o.at, LargeRec)
  <2> DEFINE chunk == [block |-> MaxBlocks + chunks + 1, at |-> 0]
  <2>4. q.arena = o.arena /\ q.at = chunk /\ q.chunks = chunks + 1 /\ q.record = << r >>
    BY <2>2, <2>3 DEF ChunkOutcome
  <2>5. /\ ArenaOK(o.arena) /\ r \in Extent
        /\ HeldOK(o.arena, chunks, Adds(held, j, r))
    BY <1>1, <2>3, SmallAdds, Sizes
  <2> HIDE DEF r
  <2>6. HeldOK(o.arena, chunks + 1, Adds(Adds(held, j, r), k, Region(chunk, size)))
    BY <1>1, <2>5, ChunkAdds
  <2>7. chunk \in Address
    BY <1>1, LimitsAssumption DEF Address
  <2> HIDE DEF chunk
  <2>8. chunks + 1 \in 0 .. MaxChunks
    BY <2>1, <1>1, Sizes
  <2> QED
    BY <2>4, <2>5, <2>6, <2>7, <2>8
<1> QED
  BY <1>2, <1>3

LEMMA PallocFails ==
  ASSUME NEW a, ArenaOK(a), chunks \in 0 .. MaxChunks, NEW size \in Nat \ {0},
         NEW q \in PallocOutcomes(a, size), q.at = NULL
  PROVE  q.arena = a /\ q.chunks = chunks /\ q.record = << >>
<1>1. CASE size <= PoolMax
  <2>1. PICK o \in Small(a, size, TRUE) :
          q = [arena |-> o.arena, at |-> o.at, chunks |-> chunks, record |-> << >>]
    BY <1>1 DEF PallocOutcomes
  <2>2. size <= PoolSize - PoolHdr
    BY <1>1, Sizes, PoolSizeAssumption
  <2>3. o.at = NULL
    BY <2>1
  <2>4. o.arena = a
    BY <2>2, <2>3, SmallReserves
  <2> QED
    BY <2>1, <2>4
<1>2. CASE ~ (size <= PoolMax) /\ q = [arena |-> a, at |-> NULL, chunks |-> chunks, record |-> << >>]
  BY <1>2
<1>3. CASE ~ (size <= PoolMax) /\ \E o \in Small(a, LargeRec, TRUE) : q = ChunkOutcome(o)
  <2>1. PICK o \in Small(a, LargeRec, TRUE) : q = ChunkOutcome(o)
    BY <1>3
  <2>2. o.at = NULL
    <3>1. CASE o.at # NULL
      <4>1. q.at = [block |-> MaxBlocks + chunks + 1, at |-> 0]
        BY <2>1, <3>1 DEF ChunkOutcome
      <4>2. MaxBlocks + chunks + 1 \in Nat
        BY LimitsAssumption, Sizes
      <4>3. [block |-> MaxBlocks + chunks + 1, at |-> 0] \in [block : Nat, at : Nat]
        BY <4>2
      <4> QED
        BY <4>1, <4>3, LimitsAssumption
    <3> QED
      BY <3>1
  <2>3. o.arena = a
    BY <2>2, SmallReserves, Sizes
  <2> QED
    BY <2>1, <2>2, <2>3 DEF ChunkOutcome
<1> QED
  BY <1>1, <1>2, <1>3 DEF PallocOutcomes

(***************************************************************************)
(* The free bytes of the first block begin at v instead.                   *)
(***************************************************************************)
LastSet(a, v) ==
  [last |-> [a.last EXCEPT ![1] = v], failed |-> a.failed, current |-> a.current]

LEMMA LastSetOK ==
  ASSUME NEW a, ArenaOK(a), NEW v \in Nat, PoolHdr <= v, v <= PoolSize
  PROVE  /\ ArenaOK(LastSet(a, v))
         /\ Len(LastSet(a, v).last) = Len(a.last)
         /\ 1 \in 1 .. Len(a.last)
         /\ LastSet(a, v).last[1] = v
         /\ \A b \in 1 .. Len(a.last) : b # 1 => LastSet(a, v).last[b] = a.last[b]
<1> DEFINE last == [a.last EXCEPT ![1] = v]
<1> DEFINE n == LastSet(a, v)
<1>1. /\ a.last \in Seq(0 .. PoolSize) /\ a.failed \in Seq(Nat) /\ a.current \in Nat
      /\ Len(a.last) \in Nat /\ a.current \in 1 .. Len(a.last)
      /\ Len(a.last) = Len(a.failed) /\ Len(a.last) <= MaxBlocks
  BY LenProperties DEF ArenaOK, ArenaTyped, Arena
<1>2. 1 \in 1 .. Len(a.last)
  BY <1>1
<1>3. v \in 0 .. PoolSize
  BY PoolSizeAssumption
<1>4. /\ last \in Seq(0 .. PoolSize) /\ Len(last) = Len(a.last)
      /\ \A b \in 1 .. Len(a.last) : last[b] = IF b = 1 THEN v ELSE a.last[b]
  BY <1>1, <1>2, <1>3, ExceptSeq
<1>5. n.last = last /\ n.failed = a.failed /\ n.current = a.current
      /\ n = [last |-> last, failed |-> a.failed, current |-> a.current]
  BY DEF LastSet
<1> HIDE DEF last, n
<1>6. ArenaTyped(n)
  BY <1>1, <1>4, <1>5 DEF ArenaTyped, Arena
<1>7. BlocksInBounds(n)
  <2> SUFFICES ASSUME NEW b \in 1 .. Len(a.last)
               PROVE  Header(b) <= last[b] /\ last[b] <= PoolSize
    BY <1>4, <1>5 DEF BlocksInBounds
  <2>1. CASE b = 1
    BY <2>1, <1>4 DEF Header
  <2>2. CASE b # 1
    BY <2>2, <1>4, BlockFacts
  <2> QED
    BY <2>1, <2>2
<1>8. /\ ArenaOK(n) /\ Len(n.last) = Len(a.last) /\ n.last[1] = v
      /\ \A b \in 1 .. Len(a.last) : b # 1 => n.last[b] = a.last[b]
  BY <1>2, <1>4, <1>5, <1>6, <1>7 DEF ArenaOK
<1> QED
  BY <1>2, <1>8 DEF n

LEMMA StillReserved ==
  ASSUME NEW a, ArenaOK(a), NEW v \in Nat, PoolHdr <= v, v <= PoolSize, NEW c \in Nat,
         NEW s \in Extent, Reserved(a, c, s), s.block = 1 => s.to <= v
  PROVE  Reserved(LastSet(a, v), c, s)
<1> DEFINE n == LastSet(a, v)
<1>1. /\ Len(n.last) = Len(a.last) /\ n.last[1] = v
      /\ \A b \in 1 .. Len(a.last) : b # 1 => n.last[b] = a.last[b]
  BY LastSetOK
<1> HIDE DEF n
<1>2. CASE s.block \in MaxBlocks + 1 .. MaxBlocks + c
  BY <1>2 DEF Reserved, n
<1>3. CASE InBounds(a, s)
  <2>1. /\ s.block \in 1 .. Len(n.last) /\ Header(s.block) <= s.from /\ s.from <= s.to
        /\ s.to <= a.last[s.block]
    BY <1>1, <1>3 DEF InBounds
  <2>2. s.to <= n.last[s.block]
    BY <1>1, <2>1
  <2>3. Reserved(n, c, s)
    BY <2>1, <2>2 DEF Reserved, InBounds
  <2> QED
    BY <2>3 DEF n
<1> QED
  BY <1>2, <1>3 DEF Reserved

(***************************************************************************)
(* What rap_array_destroy gives back (rap_array.c:39-45) was k's: whoever  *)
(* else holds something in the first block holds it below.                 *)
(***************************************************************************)
Without(held, k) == [h \in DOMAIN held \ {k} |-> held[h]]

LEMMA GivenBack ==
  ASSUME NEW a, ArenaOK(a), NEW c \in Nat, NEW held, HeldOK(a, c, held),
         NEW k \in DOMAIN held, NEW address \in Address, NEW size \in Nat \ {0},
         held[k] = Region(address, size), NEW v, v = Returned(a.last[1], address, size)
  PROVE  /\ ArenaOK(LastSet(a, v)) /\ LastSet(a, v).last[1] = v
         /\ HeldOK(LastSet(a, v), c, Without(held, k))
<1> DEFINE r == Region(address, size)
<1>1. /\ r \in Extent /\ r.from < r.to /\ Reserved(a, c, r)
      /\ r.block = address.block /\ r.from = address.at /\ r.to = address.at + size
      /\ address.at \in Nat
  BY DEF HeldOK, Region, Address
<1> HIDE DEF r
<1>2. 1 \in 1 .. Len(a.last) /\ Len(a.last) <= MaxBlocks /\ Len(a.last) \in Nat
      /\ MaxBlocks \in Nat
  BY LenProperties, LimitsAssumption DEF ArenaOK, ArenaTyped, Arena
<1>3. a.last[1] \in Nat /\ a.last[1] <= PoolSize /\ PoolHdr <= a.last[1]
  BY <1>2, BlockFacts DEF Header
<1>4. v \in Nat /\ PoolHdr <= v /\ v <= PoolSize /\ v <= a.last[1]
  <2>1. CASE address.block = 1 /\ address.at + size = a.last[1]
    <3>1. v = address.at
      BY <2>1, <1>1, <1>3 DEF Returned
    <3>2. Header(1) <= r.from
      BY <2>1, <1>1, <1>2, Below
    <3> QED
      BY <2>1, <3>1, <3>2, <1>1, <1>3, PoolSizeAssumption DEF Header
  <2>2. CASE ~ (address.block = 1 /\ address.at + size = a.last[1])
    BY <2>2, <1>3 DEF Returned
  <2> QED
    BY <2>1, <2>2
<1>5. ASSUME NEW s \in Extent, s.from < s.to, Reserved(a, c, s), Disjoint(s, r)
      PROVE  Reserved(LastSet(a, v), c, s)
  <2>1. s.to \in Nat /\ s.from \in Nat /\ s.block \in Nat
    BY DEF Extent
  <2>2. ASSUME s.block = 1 PROVE s.to <= v
    <3>1. s.to <= a.last[1]
      BY <2>2, <1>2, <1>5, Below
    <3>2. CASE address.block = 1 /\ address.at + size = a.last[1]
      <4>1. v = address.at
        BY <3>2, <1>1, <1>3 DEF Returned
      <4>2. s.to <= r.from \/ r.to <= s.from
        BY <2>2, <3>2, <1>1, <1>5 DEF Disjoint
      <4> QED
        BY <3>1, <3>2, <4>1, <4>2, <2>1, <1>1, <1>3, <1>5
    <3>3. CASE ~ (address.block = 1 /\ address.at + size = a.last[1])
      BY <3>1, <3>3, <2>1, <1>3 DEF Returned
    <3> QED
      BY <3>2, <3>3
  <2> QED
    BY <1>4, <1>5, <2>2, StillReserved
<1>6. \A h \in DOMAIN held \ {k} :
        /\ held[h] \in Extent /\ held[h].from < held[h].to /\ Reserved(a, c, held[h])
        /\ Disjoint(held[h], r)
  BY DEF HeldOK, r
<1>7. \A h \in DOMAIN held \ {k} :
        held[h] \in Extent /\ held[h].from < held[h].to /\ Reserved(LastSet(a, v), c, held[h])
  BY <1>5, <1>6
<1>8. \A h, j \in DOMAIN held \ {k} : h # j => Disjoint(held[h], held[j])
  BY DEF HeldOK
<1>9. HeldOK(LastSet(a, v), c, Without(held, k))
  BY <1>7, <1>8 DEF HeldOK, Without
<1> QED
  BY <1>4, <1>9, LastSetOK

(***************************************************************************)
(* Growth in place (rap_array.c:64-73): nobody holds what lies behind.     *)
(***************************************************************************)
LEMMA GrownInPlace ==
  ASSUME NEW a, ArenaOK(a), NEW c \in Nat, NEW held, HeldOK(a, c, held),
         NEW k \in DOMAIN held, NEW address \in Address, NEW size \in Nat, NEW more \in Nat,
         held[k] = Region(address, size), Ends(address, size, a.last),
         a.last[1] + more <= PoolSize, NEW v, v = a.last[1] + more
  PROVE  /\ ArenaOK(LastSet(a, v))
         /\ HeldOK(LastSet(a, v), c, Adds(held, k, Region(address, size + more)))
<1> DEFINE r == Region(address, size)
<1> DEFINE grown == Region(address, size + more)
<1>1. /\ r \in Extent /\ r.from < r.to /\ Reserved(a, c, r)
      /\ r.block = 1 /\ r.from = address.at /\ r.to = address.at + size
      /\ address.at \in Nat /\ r.to = a.last[1] /\ address.block = 1
  BY DEF HeldOK, Region, Address, Ends
<1>2. grown.block = 1 /\ grown.from = r.from /\ grown.to = r.to + more /\ grown \in Extent
  BY <1>1 DEF Region, Extent
<1>3. 1 \in 1 .. Len(a.last) /\ Len(a.last) <= MaxBlocks /\ Len(a.last) \in Nat
      /\ MaxBlocks \in Nat
  BY LenProperties, LimitsAssumption DEF ArenaOK, ArenaTyped, Arena
<1>4. a.last[1] \in Nat /\ a.last[1] <= PoolSize /\ PoolHdr <= a.last[1] /\ PoolHdr \in Nat
  BY <1>3, BlockFacts, PoolSizeAssumption DEF Header
<1> HIDE DEF r, grown
<1>5. v \in Nat /\ PoolHdr <= v /\ v <= PoolSize /\ a.last[1] <= v
  BY <1>4, PoolSizeAssumption
<1>6. /\ LastSet(a, v).last[1] = v /\ Len(LastSet(a, v).last) = Len(a.last)
      /\ ArenaOK(LastSet(a, v))
  BY <1>5, LastSetOK
<1>7. Reserved(LastSet(a, v), c, grown)
  <2>1. Header(1) <= r.from
    BY <1>1, <1>3, Below
  <2>2. grown.from <= grown.to /\ grown.to = v
    BY <1>1, <1>2, <1>4
  <2>3. InBounds(LastSet(a, v), grown)
    BY <1>2, <1>3, <1>5, <1>6, <2>1, <2>2 DEF InBounds
  <2> QED
    BY <2>3 DEF Reserved
<1>8. ASSUME NEW s \in Extent, s.from < s.to, Reserved(a, c, s), Disjoint(s, r)
      PROVE  Reserved(LastSet(a, v), c, s) /\ Disjoint(s, grown)
  <2>1. s.to \in Nat /\ s.from \in Nat /\ s.block \in Nat
    BY DEF Extent
  <2>2. s.block = 1 => s.to <= a.last[1]
    BY <1>3, <1>8, Below
  <2>3. s.block = 1 => s.to <= v
    BY <2>1, <2>2, <1>4, <1>5
  <2>4. Reserved(LastSet(a, v), c, s)
    BY <1>5, <1>8, <2>3, StillReserved
  <2>5. s.block = 1 => s.to <= r.from
    BY <1>1, <1>4, <1>8, <2>1, <2>2 DEF Disjoint
  <2> QED
    BY <1>2, <2>4, <2>5 DEF Disjoint
<1>9. grown.from < grown.to
  BY <1>1, <1>2, <1>4
<1>10. \A h \in DOMAIN held \ {k} :
         /\ held[h] \in Extent /\ held[h].from < held[h].to /\ Reserved(a, c, held[h])
         /\ Disjoint(held[h], r)
  BY DEF HeldOK, r
<1>11. \A h \in DOMAIN held \ {k} :
         /\ held[h] \in Extent /\ held[h].from < held[h].to
         /\ Reserved(LastSet(a, v), c, held[h]) /\ Disjoint(held[h], grown)
  BY <1>8, <1>10
<1>12. \A h, j \in DOMAIN held \ {k} : h # j => Disjoint(held[h], held[j])
  BY DEF HeldOK
<1>13. HeldOK(LastSet(a, v), c, Adds(held, k, grown))
  BY <1>2, <1>7, <1>9, <1>11, <1>12, AddsKeeps
<1> QED
  BY <1>6, <1>13 DEF grown

-----------------------------------------------------------------------------
(***************************************************************************)
(* The record of a chunk joins what the rest of the program holds.         *)
(***************************************************************************)
LEMMA OneMore ==
  ASSUME NEW os \in Seq(Extent), NEW r \in Extent
  PROVE  /\ os \o << r >> = Append(os, r) /\ os \o << >> = os
         /\ Append(os, r) \in Seq(Extent)
         /\ DOMAIN Append(os, r) = DOMAIN os \cup {Len(os) + 1}
         /\ Len(os) + 1 \notin DOMAIN os
         /\ Append(os, r)[Len(os) + 1] = r
         /\ \A k \in DOMAIN os : Append(os, r)[k] = os[k]
<1>1. os \o << r >> = Append(os, r) /\ os \o << >> = os
  OBVIOUS
<1>2. /\ Append(os, r) \in Seq(Extent) /\ Len(Append(os, r)) = Len(os) + 1
      /\ Append(os, r)[Len(os) + 1] = r
      /\ \A k \in 1 .. Len(os) : Append(os, r)[k] = os[k]
      /\ DOMAIN os = 1 .. Len(os) /\ Len(os) \in Nat
  BY AppendProperties, LenProperties
<1>3. DOMAIN Append(os, r) = 1 .. Len(os) + 1
  BY <1>2, LenProperties
<1> QED
  BY <1>1, <1>2, <1>3

(***************************************************************************)
(* Array b becomes x, with its structure where it was and other elements,  *)
(* and everybody else holds what they held.                                *)
(***************************************************************************)
HeldByOthers(held, os, arr, b) ==
  /\ \A k \in DOMAIN os : <<"other", k>> \in DOMAIN held /\ held[<<"other", k>>] = os[k]
  /\ \A d \in Live(arr) \ {b} :
       /\ <<"structure", d>> \in DOMAIN held
       /\ held[<<"structure", d>>] = Region(arr[d].at, ArrayRec)
       /\ <<"elements", d>> \in DOMAIN held
       /\ held[<<"elements", d>>] = Region(arr[d].elts, ElemSize * arr[d].nalloc)

LEMMA Replaced ==
  ASSUME NEW a, NEW c, NEW held, NEW os \in Seq(Extent), NEW arr, DOMAIN arr = Arrays,
         NEW b \in Arrays, NEW x, HeldByOthers(held, os, arr, b),
         <<"structure", b>> \in DOMAIN held,
         held[<<"structure", b>>] = Region(x.at, ArrayRec),
         NEW rec, NEW e, e = Region(x.elts, ElemSize * x.nalloc),
         \/ rec = << >> /\ HeldOK(a, c, Adds(held, <<"elements", b>>, e))
         \/ \E r \in Extent :
              /\ rec = << r >>
              /\ HeldOK(a, c, Adds(Adds(held, <<"other", Len(os) + 1>>, r), <<"elements", b>>, e))
  PROVE  /\ os \o rec \in Seq(Extent)
         /\ HeldOK(a, c, HeldBy(os \o rec, [arr EXCEPT ![b] = x]))
<1> DEFINE new == [arr EXCEPT ![b] = x]
<1>1. /\ new[b] = x
      /\ \A d \in Live(new) : d # b => d \in Live(arr) \ {b} /\ new[d] = arr[d]
  BY DEF Live
<1> HIDE DEF new
<1> DEFINE k == <<"elements", b>>
<1>2. CASE rec = << >> /\ HeldOK(a, c, Adds(held, k, e))
  <2> DEFINE more == Adds(held, k, e)
  <2>1. DOMAIN more = DOMAIN held \cup {k} /\ more[k] = e
        /\ \A h \in DOMAIN held : h # k => more[h] = held[h]
    BY DEF Adds
  <2> HIDE DEF more
  <2>2. os \o rec = os
    BY <1>2
  <2>3. \A i \in DOMAIN os : <<"other", i>> \in DOMAIN more /\ more[<<"other", i>>] = os[i]
    BY <2>1 DEF HeldByOthers
  <2>4. ASSUME NEW d \in Live(new)
        PROVE  /\ <<"structure", d>> \in DOMAIN more
               /\ more[<<"structure", d>>] = Region(new[d].at, ArrayRec)
    BY <1>1, <2>1 DEF HeldByOthers
  <2>5. ASSUME NEW d \in Live(new)
        PROVE  /\ <<"elements", d>> \in DOMAIN more
               /\ more[<<"elements", d>>] = Region(new[d].elts, ElemSize * new[d].nalloc)
    BY <1>1, <2>1 DEF HeldByOthers
  <2>6. HeldByThem(more, os, new)
    BY <2>3, <2>4, <2>5 DEF HeldByThem
  <2>7. HeldOK(a, c, HeldBy(os, new))
    BY <1>2, <2>6, HeldAmong DEF more
  <2> QED
    BY <2>2, <2>7 DEF new
<1>3. ASSUME NEW r \in Extent, rec = << r >>,
             HeldOK(a, c, Adds(Adds(held, <<"other", Len(os) + 1>>, r), k, e))
      PROVE  /\ os \o rec \in Seq(Extent)
             /\ HeldOK(a, c, HeldBy(os \o rec, [arr EXCEPT ![b] = x]))
  <2> DEFINE j == <<"other", Len(os) + 1>>
  <2> DEFINE first == Adds(held, j, r)
  <2> DEFINE more == Adds(first, k, e)
  <2> DEFINE all == Append(os, r)
  <2>1. DOMAIN first = DOMAIN held \cup {j} /\ first[j] = r
        /\ \A h \in DOMAIN held : h # j => first[h] = held[h]
    BY DEF Adds
  <2> HIDE DEF first
  <2>2. DOMAIN more = DOMAIN first \cup {k} /\ more[k] = e
        /\ \A h \in DOMAIN first : h # k => more[h] = first[h]
    BY DEF Adds
  <2> HIDE DEF more
  <2>3. /\ os \o rec = all /\ all \in Seq(Extent) /\ DOMAIN all = DOMAIN os \cup {Len(os) + 1}
        /\ Len(os) + 1 \notin DOMAIN os /\ all[Len(os) + 1] = r
        /\ \A i \in DOMAIN os : all[i] = os[i]
    BY <1>3, OneMore
  <2> HIDE DEF all
  <2>4. ASSUME NEW i \in DOMAIN all
        PROVE  <<"other", i>> \in DOMAIN more /\ more[<<"other", i>>] = all[i]
    <3>1. CASE i = Len(os) + 1
      BY <3>1, <2>1, <2>2, <2>3
    <3>2. CASE i \in DOMAIN os
      BY <3>2, <2>1, <2>2, <2>3 DEF HeldByOthers
    <3> QED
      BY <2>3, <3>1, <3>2
  <2>5. ASSUME NEW d \in Live(new)
        PROVE  /\ <<"structure", d>> \in DOMAIN more
               /\ more[<<"structure", d>>] = Region(new[d].at, ArrayRec)
    BY <1>1, <2>1, <2>2 DEF HeldByOthers
  <2>6. ASSUME NEW d \in Live(new)
        PROVE  /\ <<"elements", d>> \in DOMAIN more
               /\ more[<<"elements", d>>] = Region(new[d].elts, ElemSize * new[d].nalloc)
    BY <1>1, <2>1, <2>2 DEF HeldByOthers
  <2>7. HeldByThem(more, all, new)
    BY <2>4, <2>5, <2>6 DEF HeldByThem
  <2>8. HeldOK(a, c, HeldBy(all, new))
    BY <1>3, <2>7, HeldAmong DEF more, first
  <2> QED
    BY <2>3, <2>8 DEF new
<1> QED
  BY <1>2, <1>3

(***************************************************************************)
(* Allocations of the rest of the program, and new arrays.                 *)
(***************************************************************************)
LEMMA OtherPallocKeeps ==
  ASSUME ArrayInv, NEW size \in OtherSizes, OtherPalloc(size)
  PROVE  ArrayInv'
<1>1. PICK o \in Small(arena, size, TRUE) :
        /\ o.at # NULL
        /\ arena' = o.arena
        /\ others' = Append(others, Region(o.at, size))
        /\ memory' = Forgotten(memory, Units(o.at, size))
        /\ chunks' = chunks /\ arrays' = arrays
  BY DEF OtherPalloc
<1> DEFINE r == Region(o.at, size)
<1> DEFINE held == HeldBy(others, arrays)
<1> DEFINE j == <<"other", Len(others) + 1>>
<1> DEFINE more == Adds(held, j, r)
<1>2. size \in Nat \ {0} /\ size <= PoolSize - PoolHdr
  BY ArrayAssumption, Sizes, PoolSizeAssumption
<1>3. ArenaOK(arena) /\ chunks \in Nat /\ chunks \in 0 .. MaxChunks /\ others \in Seq(Extent)
      /\ HeldOK(arena, chunks, held)
  BY Sizes DEF ArrayInv, StateOK
<1>4. ArenaOK(o.arena) /\ r \in Extent /\ HeldOK(o.arena, chunks, more)
  BY <1>1, <1>2, <1>3, SmallAdds
<1>5. DOMAIN more = DOMAIN held \cup {j} /\ more[j] = r
      /\ \A h \in DOMAIN held : h # j => more[h] = held[h]
  BY DEF Adds
<1>6. HeldByThem(held, others, arrays)
  BY HeldFacts
<1>7. /\ Append(others, r) \in Seq(Extent)
      /\ DOMAIN Append(others, r) = DOMAIN others \cup {Len(others) + 1}
      /\ Len(others) + 1 \notin DOMAIN others /\ Append(others, r)[Len(others) + 1] = r
      /\ \A i \in DOMAIN others : Append(others, r)[i] = others[i]
  BY <1>3, <1>4, OneMore
<1> HIDE DEF held, more, r
<1>8. ASSUME NEW i \in DOMAIN Append(others, r)
      PROVE  <<"other", i>> \in DOMAIN more /\ more[<<"other", i>>] = Append(others, r)[i]
  <2>1. CASE i = Len(others) + 1
    BY <2>1, <1>5, <1>7
  <2>2. CASE i \in DOMAIN others
    BY <2>2, <1>5, <1>6, <1>7 DEF HeldByThem
  <2> QED
    BY <1>7, <2>1, <2>2
<1>9. HeldByThem(more, Append(others, r), arrays)
  BY <1>5, <1>6, <1>8 DEF HeldByThem
<1>10. HeldOK(o.arena, chunks, HeldBy(Append(others, r), arrays))
  BY <1>4, <1>9, HeldAmong
<1>11. \A u \in DOMAIN memory' : memory'[u] \in 1 .. MaxElems
  BY <1>1 DEF Forgotten, ArrayInv, StateOK
<1>12. others' = Append(others, r)
  BY <1>1 DEF r
<1>13. DOMAIN arrays = Arrays /\ \A b \in Live(arrays) : ArrayOK(arrays[b])
  BY DEF ArrayInv, StateOK
<1>14. StateOK(o.arena, chunks, arrays, memory', Append(others, r))
  BY <1>3, <1>4, <1>7, <1>10, <1>11, <1>13 DEF StateOK
<1> QED
  BY <1>1, <1>12, <1>14 DEF ArrayInv

LEMMA ArrayCreateKeeps ==
  ASSUME ArrayInv, NEW b \in Arrays, NEW n \in InitialSizes, ArrayCreate(b, n)
  PROVE  ArrayInv'
<1>1. PICK o \in Small(arena, ArrayRec, TRUE) :
        /\ o.at # NULL
        /\ \E q \in PallocOutcomes(o.arena, n * ElemSize) :
             /\ arena' = q.arena
             /\ chunks' = q.chunks
             /\ others' = others \o q.record
             /\ arrays' = IF q.at = NULL THEN arrays
                          ELSE [arrays EXCEPT ![b] =
                                  [at |-> o.at, elts |-> q.at, nelts |-> 0, nalloc |-> n]]
  BY DEF ArrayCreate
<1>2. PICK q \in PallocOutcomes(o.arena, n * ElemSize) :
        /\ arena' = q.arena
        /\ chunks' = q.chunks
        /\ others' = others \o q.record
        /\ arrays' = IF q.at = NULL THEN arrays
                     ELSE [arrays EXCEPT ![b] =
                             [at |-> o.at, elts |-> q.at, nelts |-> 0, nalloc |-> n]]
  BY <1>1
<1> DEFINE held == HeldBy(others, arrays)
<1> DEFINE s == <<"structure", b>>
<1> DEFINE more == Adds(held, s, Region(o.at, ArrayRec))
<1> DEFINE x == [at |-> o.at, elts |-> q.at, nelts |-> 0, nalloc |-> n]
<1>3. n \in Nat \ {0} /\ n * ElemSize \in Nat \ {0} /\ n * ElemSize = ElemSize * n
  BY ArrayAssumption
<1>4. /\ ArenaOK(arena) /\ chunks \in Nat /\ chunks \in 0 .. MaxChunks
      /\ others \in Seq(Extent) /\ HeldOK(arena, chunks, held) /\ DOMAIN arrays = Arrays
      /\ \A d \in Live(arrays) : ArrayOK(arrays[d])
      /\ \A u \in DOMAIN memory : memory[u] \in 1 .. MaxElems
      /\ memory' = memory /\ arrays[b] = Absent
  BY Sizes DEF ArrayInv, StateOK, ArrayCreate
<1>5. ArenaOK(o.arena) /\ o.at \in Address /\ HeldOK(o.arena, chunks, more)
  BY <1>1, <1>4, Sizes, SmallAdds
<1>6. DOMAIN more = DOMAIN held \cup {s} /\ more[s] = Region(o.at, ArrayRec)
      /\ \A h \in DOMAIN held : h # s => more[h] = held[h]
  BY DEF Adds
<1>7. HeldByThem(held, others, arrays)
  BY HeldFacts
<1>8. CASE q.at = NULL
  <2>1. q.arena = o.arena /\ q.chunks = chunks /\ q.record = << >>
    BY <1>3, <1>4, <1>5, <1>8, PallocFails
  <2>2. others' = others /\ arrays' = arrays
    BY <1>2, <1>4, <1>8, <2>1
  <2>3. b \notin Live(arrays)
    BY <1>4 DEF Live
  <2> HIDE DEF held, more
  <2>4. HeldByThem(more, others, arrays)
    BY <1>6, <1>7, <2>3 DEF HeldByThem
  <2>5. HeldOK(o.arena, chunks, HeldBy(others, arrays))
    BY <1>5, <2>4, HeldAmong
  <2>6. StateOK(o.arena, chunks, arrays, memory, others)
    BY <1>4, <1>5, <2>5 DEF StateOK
  <2> QED
    BY <1>2, <1>4, <2>1, <2>2, <2>6 DEF ArrayInv
<1>9. CASE q.at # NULL
  <2> DEFINE k == <<"elements", b>>
  <2> DEFINE j == <<"other", Len(others) + 1>>
  <2> DEFINE e == Region(q.at, n * ElemSize)
  <2> HIDE DEF more, held
  <2>1. /\ ArenaOK(q.arena) /\ q.chunks \in 0 .. MaxChunks /\ q.at \in Address
        /\ \/ q.record = << >> /\ HeldOK(q.arena, q.chunks, Adds(more, k, e))
           \/ \E r \in Extent :
                /\ q.record = << r >>
                /\ HeldOK(q.arena, q.chunks, Adds(Adds(more, j, r), k, e))
    BY <1>3, <1>4, <1>5, <1>9, PallocAdds
  <2>2. HeldByOthers(more, others, arrays, b)
    BY <1>6, <1>7 DEF HeldByOthers, HeldByThem
  <2>3. x.at = o.at /\ x.elts = q.at /\ x.nalloc = n /\ x.nelts = 0
    OBVIOUS
  <2>4. ArrayOK(x)
    BY <1>3, <1>5, <2>1 DEF ArrayOK, Array, Address
  <2> HIDE DEF x
  <2>5. e = Region(x.elts, ElemSize * x.nalloc)
    BY <1>3, <2>3
  <2> HIDE DEF e
  <2>6. /\ others \o q.record \in Seq(Extent)
        /\ HeldOK(q.arena, q.chunks, HeldBy(others \o q.record, [arrays EXCEPT ![b] = x]))
    BY <1>4, <1>6, <2>1, <2>2, <2>3, <2>5, Replaced
  <2>7. /\ DOMAIN [arrays EXCEPT ![b] = x] = Arrays
        /\ \A d \in Live([arrays EXCEPT ![b] = x]) : ArrayOK([arrays EXCEPT ![b] = x][d])
    BY <1>4, <2>4 DEF Live
  <2>8. StateOK(q.arena, q.chunks, [arrays EXCEPT ![b] = x], memory, others \o q.record)
    BY <1>4, <2>1, <2>6, <2>7 DEF StateOK
  <2>9. arrays' = [arrays EXCEPT ![b] = x]
    BY <1>2, <1>9 DEF x
  <2> QED
    BY <1>2, <1>4, <2>8, <2>9 DEF ArrayInv
<1> QED
  BY <1>8, <1>9

-----------------------------------------------------------------------------
(***************************************************************************)
(* Array b grows, in place or by moving (rap_array.c:64-86): it gets room  *)
(* for more elements or for nalloc.                                        *)
(***************************************************************************)
Grown(b, g) ==
  /\ StateOK(g.arena, g.chunks, [arrays EXCEPT ![b] = g.array], g.memory, others \o g.record)
  /\ g.array \in Array
  /\ g.array.nelts = arrays[b].nelts

LEMMA StateFacts ==
  ASSUME ArrayInv
  PROVE  /\ ArenaOK(arena) /\ chunks \in 0 .. MaxChunks /\ chunks \in Nat
         /\ DOMAIN arrays = Arrays /\ \A d \in Live(arrays) : ArrayOK(arrays[d])
         /\ \A u \in DOMAIN memory : memory[u] \in 1 .. MaxElems
         /\ others \in Seq(Extent) /\ HeldOK(arena, chunks, HeldBy(others, arrays))
BY Sizes DEF ArrayInv, StateOK

LEMMA InPlaceGrows ==
  ASSUME ArrayInv, NEW b \in Live(arrays), NEW more \in Nat \ {0},
         GrowsInPlace(arrays[b], more * ElemSize)
  PROVE  /\ Grown(b, InPlace(arrays[b], more))
         /\ InPlace(arrays[b], more).array.nalloc = arrays[b].nalloc + more
<1> DEFINE x == arrays[b]
<1> DEFINE g == InPlace(arrays[b], more)
<1> DEFINE y == g.array
<1> DEFINE held == HeldBy(others, arrays)
<1> DEFINE k == <<"elements", b>>
<1> DEFINE v == arena.last[1] + more * ElemSize
<1>1. x \in Array /\ x.nalloc \in Nat /\ x.nelts \in Nat /\ x.elts \in Address
      /\ x.nelts <= x.nalloc /\ x.nalloc > 0 /\ b \in Arrays
      /\ x.at \in Address
  BY StateFacts DEF ArrayOK, Array, Address, Live
<1>2. y = [at |-> x.at, elts |-> x.elts, nelts |-> x.nelts, nalloc |-> x.nalloc + more]
  BY DEF InPlace, Resized
<1>3. /\ g.arena = LastSet(arena, v) /\ g.chunks = chunks /\ g.record = << >>
      /\ g.memory = memory
  BY DEF InPlace, LastSet
<1>4. y \in Array /\ y.nelts = x.nelts /\ y.nalloc = x.nalloc + more /\ y.at = x.at
      /\ y.elts = x.elts /\ ArrayOK(y)
  BY <1>1, <1>2 DEF Array, Address, ArrayOK
<1>5. HeldByThem(held, others, arrays)
  BY HeldFacts
<1>6. k \in DOMAIN held /\ held[k] = Region(x.elts, ElemSize * x.nalloc)
      /\ <<"structure", b>> \in DOMAIN held /\ held[<<"structure", b>>] = Region(y.at, ArrayRec)
  BY <1>4, <1>5 DEF HeldByThem
<1>7. ElemSize * x.nalloc \in Nat /\ more * ElemSize \in Nat
      /\ ElemSize * x.nalloc + more * ElemSize = ElemSize * y.nalloc
  BY <1>1, <1>4, Sizes
<1>8. HeldByOthers(held, others, arrays, b)
  BY <1>5 DEF HeldByThem, HeldByOthers
<1>9. Ends(x.elts, ElemSize * x.nalloc, arena.last) /\ v <= PoolSize
  BY DEF GrowsInPlace
<1> HIDE DEF held, g, y, x, v
<1> DEFINE e == Region(y.elts, ElemSize * y.nalloc)
<1>10. ArenaOK(LastSet(arena, v)) /\ HeldOK(LastSet(arena, v), chunks, Adds(held, k, e))
  <2>1. e = Region(x.elts, ElemSize * x.nalloc + more * ElemSize)
    BY <1>4, <1>7
  <2> HIDE DEF e
  <2>2. ArenaOK(arena) /\ chunks \in Nat /\ HeldOK(arena, chunks, held)
    BY StateFacts DEF held
  <2>3. v = arena.last[1] + more * ElemSize
    BY DEF v
  <2> QED
    BY <1>1, <1>6, <1>7, <1>9, <2>1, <2>2, <2>3, GrownInPlace
<1>11. /\ others \o g.record \in Seq(Extent)
       /\ HeldOK(g.arena, g.chunks, HeldBy(others \o g.record, [arrays EXCEPT ![b] = y]))
  <2> HIDE DEF e
  <2>1. others \in Seq(Extent) /\ DOMAIN arrays = Arrays
    BY StateFacts
  <2>2. HeldOK(g.arena, g.chunks, Adds(held, k, e))
    BY <1>3, <1>10
  <2>3. e = Region(y.elts, ElemSize * y.nalloc)
    BY DEF e
  <2> QED
    BY <1>1, <1>3, <1>6, <1>8, <2>1, <2>2, <2>3, Replaced
<1>12. /\ DOMAIN [arrays EXCEPT ![b] = y] = Arrays
       /\ \A d \in Live([arrays EXCEPT ![b] = y]) : ArrayOK([arrays EXCEPT ![b] = y][d])
  BY <1>4, StateFacts DEF Live
<1>13. StateOK(g.arena, g.chunks, [arrays EXCEPT ![b] = y], g.memory, others \o g.record)
  BY <1>3, <1>10, <1>11, <1>12, StateFacts DEF StateOK
<1> QED
  BY <1>4, <1>13 DEF Grown, g, y, x

LEMMA CopiedValues ==
  ASSUME ArrayInv, NEW from, NEW to, NEW size
  PROVE  \A u \in DOMAIN Copied(from, to, size) : Copied(from, to, size)[u] \in 1 .. MaxElems
BY StateFacts DEF Copied

LEMMA MovedGrows ==
  ASSUME ArrayInv, NEW b \in Live(arrays), NEW nalloc \in Nat \ {0},
         arrays[b].nalloc <= nalloc, NEW copy,
         NEW q \in PallocOutcomes(arena, nalloc * ElemSize), q.at # NULL
  PROVE  /\ Grown(b, Moved(arrays[b], q, nalloc, copy))
         /\ Moved(arrays[b], q, nalloc, copy).array.nalloc = nalloc
<1> DEFINE x == arrays[b]
<1> DEFINE g == Moved(arrays[b], q, nalloc, copy)
<1> DEFINE y == g.array
<1> DEFINE held == HeldBy(others, arrays)
<1> DEFINE k == <<"elements", b>>
<1> DEFINE j == <<"other", Len(others) + 1>>
<1> DEFINE e == Region(q.at, nalloc * ElemSize)
<1>1. x \in Array /\ x.nalloc \in Nat /\ x.nelts \in Nat /\ x.nelts <= x.nalloc
      /\ b \in Arrays /\ x.at \in Address
  BY StateFacts DEF ArrayOK, Array, Address, Live
<1>2. nalloc * ElemSize \in Nat \ {0} /\ nalloc * ElemSize = ElemSize * nalloc
  BY Sizes
<1>3. ArenaOK(arena) /\ HeldOK(arena, chunks, held) /\ chunks \in 0 .. MaxChunks
  BY StateFacts
<1> HIDE DEF held
<1>4. /\ ArenaOK(q.arena) /\ q.chunks \in 0 .. MaxChunks /\ q.at \in Address
      /\ \/ q.record = << >> /\ HeldOK(q.arena, q.chunks, Adds(held, k, e))
         \/ \E r \in Extent :
              /\ q.record = << r >>
              /\ HeldOK(q.arena, q.chunks, Adds(Adds(held, j, r), k, e))
  BY <1>2, <1>3, PallocAdds
<1>5. y = [at |-> x.at, elts |-> q.at, nelts |-> x.nelts, nalloc |-> nalloc]
  BY DEF Moved, Resized
<1>6. /\ g.arena = q.arena /\ g.chunks = q.chunks /\ g.record = q.record
      /\ g.memory = Copied(x.elts, q.at, copy)
  BY DEF Moved
<1>7. y \in Array /\ y.nelts = x.nelts /\ y.nalloc = nalloc /\ y.at = x.at
      /\ y.elts = q.at /\ ArrayOK(y)
  BY <1>1, <1>4, <1>5 DEF Array, Address, ArrayOK
<1>8. HeldByThem(held, others, arrays)
  BY HeldFacts DEF held
<1>9. /\ <<"structure", b>> \in DOMAIN held /\ held[<<"structure", b>>] = Region(y.at, ArrayRec)
      /\ HeldByOthers(held, others, arrays, b)
  BY <1>7, <1>8 DEF HeldByThem, HeldByOthers
<1> HIDE DEF g, y, x
<1>10. e = Region(y.elts, ElemSize * y.nalloc)
  BY <1>2, <1>7
<1> HIDE DEF e
<1>11. /\ others \o q.record \in Seq(Extent)
       /\ HeldOK(q.arena, q.chunks, HeldBy(others \o q.record, [arrays EXCEPT ![b] = y]))
  <2>1. others \in Seq(Extent) /\ DOMAIN arrays = Arrays
    BY StateFacts
  <2> QED
    BY <1>1, <1>4, <1>9, <1>10, <2>1, Replaced
<1>12. /\ DOMAIN [arrays EXCEPT ![b] = y] = Arrays
       /\ \A d \in Live([arrays EXCEPT ![b] = y]) : ArrayOK([arrays EXCEPT ![b] = y][d])
  BY <1>7, StateFacts DEF Live
<1>13. \A u \in DOMAIN g.memory : g.memory[u] \in 1 .. MaxElems
  BY <1>6, CopiedValues
<1>14. StateOK(g.arena, g.chunks, [arrays EXCEPT ![b] = y], g.memory, others \o g.record)
  BY <1>4, <1>6, <1>11, <1>12, <1>13 DEF StateOK
<1> QED
  BY <1>7, <1>14 DEF Grown, g, y, x

LEMMA GrowthGrows ==
  ASSUME ArrayInv, NEW b \in Live(arrays), NEW more \in Nat \ {0}, NEW nalloc \in Nat \ {0},
         arrays[b].nalloc <= nalloc, NEW copy,
         NEW g \in GrowthOutcomes(arrays[b], more, nalloc, copy)
  PROVE  /\ Grown(b, g)
         /\ g.array.nalloc = arrays[b].nalloc + more \/ g.array.nalloc = nalloc
<1>1. CASE GrowsInPlace(arrays[b], more * ElemSize)
  <2>1. g = InPlace(arrays[b], more)
    BY <1>1 DEF GrowthOutcomes
  <2> QED
    BY <1>1, <2>1, InPlaceGrows
<1>2. CASE ~ GrowsInPlace(arrays[b], more * ElemSize)
  <2>1. PICK q \in {r \in PallocOutcomes(arena, nalloc * ElemSize) : r.at # NULL} :
          g = Moved(arrays[b], q, nalloc, copy)
    BY <1>2 DEF GrowthOutcomes
  <2> QED
    BY <2>1, MovedGrows
<1> QED
  BY <1>1, <1>2

LEMMA UnchangedGrows ==
  ASSUME ArrayInv, NEW b \in Live(arrays)
  PROVE  /\ Grown(b, Unchanged(arrays[b]))
         /\ Unchanged(arrays[b]).array.nalloc = arrays[b].nalloc
<1> DEFINE g == Unchanged(arrays[b])
<1>1. /\ g.arena = arena /\ g.chunks = chunks /\ g.record = << >> /\ g.memory = memory
      /\ g.array = arrays[b]
  BY DEF Unchanged
<1>2. arrays[b] \in Array /\ others \in Seq(Extent) /\ b \in DOMAIN arrays
  BY StateFacts DEF ArrayOK, Live
<1> HIDE DEF g
<1>3. others \o g.record = others
  BY <1>1, <1>2
<1>4. HeldOK(arena, chunks, HeldBy(others, [arrays EXCEPT ![b] = arrays[b]]))
  <2> DEFINE same == [arrays EXCEPT ![b] = arrays[b]]
  <2>1. \A d \in Live(same) : d \in Live(arrays) /\ same[d] = arrays[d]
    BY <1>2, StateFacts DEF Live
  <2> HIDE DEF same
  <2>2. HeldByThem(HeldBy(others, arrays), others, same)
    BY <2>1, HeldFacts DEF HeldByThem
  <2>3. HeldOK(arena, chunks, HeldBy(others, same))
    BY <2>2, HeldAmong, StateFacts
  <2> QED
    BY <2>3 DEF same
<1>5. /\ DOMAIN [arrays EXCEPT ![b] = arrays[b]] = Arrays
      /\ \A d \in Live([arrays EXCEPT ![b] = arrays[b]]) :
           ArrayOK([arrays EXCEPT ![b] = arrays[b]][d])
  BY StateFacts DEF Live
<1>6. StateOK(arena, chunks, [arrays EXCEPT ![b] = arrays[b]], memory, others)
  BY <1>4, <1>5, StateFacts DEF StateOK
<1> QED
  BY <1>1, <1>2, <1>3, <1>6 DEF Grown, g

-----------------------------------------------------------------------------
(***************************************************************************)
(* What the caller writes into the elements it was given.                  *)
(***************************************************************************)
LEMMA ElementOfUnit ==
  ASSUME NEW d \in Nat, NEW n \in Nat, NEW e \in Nat \ {0}, d < n * e
  PROVE  d \div e \in 0 .. n - 1
<1> DEFINE i == d \div e
<1> DEFINE m == d % e
<1>1. i \in Int /\ m \in Int /\ 0 <= m /\ m < e /\ d = e * i + m
  OBVIOUS
<1> HIDE DEF i, m
<1>2. i >= 0
  <2> SUFFICES ASSUME i <= - 1 PROVE FALSE
    BY <1>1
  <2>1. e * i <= e * (- 1)
    BY <1>1
  <2> QED
    BY <1>1, <2>1
<1>3. i < n
  <2> SUFFICES ASSUME n <= i PROVE FALSE
    BY <1>1
  <2>1. e * n <= e * i
    BY <1>1
  <2> QED
    BY <1>1, <2>1
<1>4. i \in 0 .. n - 1
  BY <1>1, <1>2, <1>3
<1> QED
  BY <1>4 DEF i

LEMMA WrittenValues ==
  ASSUME NEW mem, \A u \in DOMAIN mem : mem[u] \in 1 .. MaxElems,
         NEW x \in Array, NEW from \in Nat, NEW n \in Nat, from + n <= MaxElems
  PROVE  \A u \in DOMAIN Written(mem, x, from, n) :
           Written(mem, x, from, n)[u] \in 1 .. MaxElems
<1> DEFINE start == [block |-> x.elts.block, at |-> x.elts.at + from * ElemSize]
<1> DEFINE new == Units(start, n * ElemSize)
<1> DEFINE value(u) == from + ((u.at - start.at) \div ElemSize) + 1
<1>1. Written(mem, x, from, n) =
        [u \in DOMAIN mem \cup new |-> IF u \in new THEN value(u) ELSE mem[u]]
  BY DEF Written
<1>2. x.elts.at \in Nat /\ from * ElemSize \in Nat /\ n * ElemSize \in Nat
      /\ ElemSize \in Nat \ {0} /\ MaxElems \in Nat
  BY Sizes, ArrayAssumption DEF Array
<1>3. start.at \in Nat
  BY <1>2
<1>4. ASSUME NEW u \in new
      PROVE  value(u) \in 1 .. MaxElems
  <2>1. u.at \in start.at .. start.at + n * ElemSize - 1
    BY <1>4 DEF Units
  <2> DEFINE d == u.at - start.at
  <2> HIDE DEF start
  <2>2. d \in Nat /\ d < n * ElemSize
    BY <1>2, <1>3, <2>1
  <2> HIDE DEF d
  <2>3. d \div ElemSize \in 0 .. n - 1
    BY <1>2, <2>2, ElementOfUnit
  <2>4. from + (d \div ElemSize) + 1 \in 1 .. MaxElems
    BY <1>2, <2>3
  <2> QED
    BY <2>4 DEF d
<1> HIDE DEF value, new
<1> QED
  BY <1>1, <1>4

LEMMA PushedKeeps ==
  ASSUME ArrayInv, NEW b \in Live(arrays), NEW n \in Nat, NEW g, Grown(b, g),
         arrays[b].nelts + n <= MaxElems, arrays[b].nelts + n <= g.array.nalloc,
         Pushed(b, n, g)
  PROVE  ArrayInv'
<1> DEFINE y == g.array
<1> DEFINE mid == [arrays EXCEPT ![b] = y]
<1> DEFINE z == [at |-> y.at, elts |-> y.elts, nelts |-> y.nelts + n, nalloc |-> y.nalloc]
<1> DEFINE new == [arrays EXCEPT ![b] = z]
<1> DEFINE all == others \o g.record
<1>1. y \in Array /\ y.nelts = arrays[b].nelts
      /\ StateOK(g.arena, g.chunks, mid, g.memory, all)
  BY DEF Grown
<1>2. y.nelts \in Nat /\ y.nalloc \in Nat /\ y.nelts + n <= y.nalloc
  BY <1>1 DEF Array
<1>3. DOMAIN arrays = Arrays /\ b \in Arrays
  BY StateFacts DEF Live
<1>4. b \in Live(mid)
  BY <1>1, <1>3, AbsentAssumption DEF Live
<1>5. ArrayOK(y)
  BY <1>1, <1>3, <1>4 DEF StateOK
<1>6. ArrayOK(z) /\ z.at = y.at /\ z.elts = y.elts /\ z.nalloc = y.nalloc
  BY <1>1, <1>2, <1>5 DEF ArrayOK, Array
<1>7. \A d \in Live(new) : d # b => d \in Live(mid) /\ new[d] = mid[d]
  BY <1>3 DEF Live
<1>8. new[b] = z /\ mid[b] = y /\ DOMAIN new = Arrays
  BY <1>3
<1>9. \A d \in Live(mid) : ArrayOK(mid[d])
  BY <1>1 DEF StateOK
<1>10. HeldOK(g.arena, g.chunks, HeldBy(all, mid))
  BY <1>1 DEF StateOK
<1>11. HeldByThem(HeldBy(all, mid), all, mid)
  BY HeldFacts
<1> HIDE DEF mid, new, z
<1>12. \A d \in Live(new) :
         d \in Live(mid) /\ new[d].at = mid[d].at /\ new[d].elts = mid[d].elts
         /\ new[d].nalloc = mid[d].nalloc
  BY <1>4, <1>6, <1>7, <1>8
<1>13. HeldByThem(HeldBy(all, mid), all, new)
  BY <1>11, <1>12 DEF HeldByThem
<1>14. HeldOK(g.arena, g.chunks, HeldBy(all, new))
  BY <1>10, <1>13, HeldAmong
<1>15. \A d \in Live(new) : ArrayOK(new[d])
  BY <1>6, <1>7, <1>8, <1>9
<1>16. \A u \in DOMAIN Written(g.memory, y, y.nelts, n) :
         Written(g.memory, y, y.nelts, n)[u] \in 1 .. MaxElems
  <2>1. \A u \in DOMAIN g.memory : g.memory[u] \in 1 .. MaxElems
    BY <1>1 DEF StateOK
  <2> QED
    BY <1>1, <1>2, <2>1, WrittenValues
<1>17. /\ ArenaOK(g.arena) /\ g.chunks \in 0 .. MaxChunks /\ all \in Seq(Extent)
  BY <1>1 DEF StateOK
<1>18. StateOK(g.arena, g.chunks, new, Written(g.memory, y, y.nelts, n), all)
  BY <1>8, <1>14, <1>15, <1>16, <1>17 DEF StateOK
<1>19. /\ arena' = g.arena /\ chunks' = g.chunks /\ others' = all /\ arrays' = new
       /\ memory' = Written(g.memory, y, y.nelts, n)
  BY DEF Pushed, new, z
<1> QED
  BY <1>18, <1>19 DEF ArrayInv

LEMMA ArrayPushKeeps ==
  ASSUME ArrayInv, NEW b \in Arrays, ArrayPush(b)
  PROVE  ArrayInv'
<1> DEFINE x == arrays[b]
<1>1. b \in Live(arrays) /\ x.nelts < MaxElems
  BY DEF ArrayPush, Live
<1>2. x \in Array /\ x.nelts \in Nat /\ x.nalloc \in Nat /\ x.nalloc > 0
      /\ x.nelts <= x.nalloc /\ MaxElems \in Nat
  BY <1>1, StateFacts, ArrayAssumption DEF ArrayOK, Array
<1>3. PICK g \in PushOutcomes(x) : Pushed(b, 1, g)
  BY DEF ArrayPush
<1>4. Grown(b, g) /\ x.nelts + 1 <= g.array.nalloc
  <2>1. CASE x.nelts = x.nalloc
    <3> DEFINE double == 2 * x.nalloc
    <3> DEFINE copy == ElemSize * x.nalloc
    <3>1. g \in GrowthOutcomes(arrays[b], 1, double, copy)
      BY <1>3, <2>1 DEF PushOutcomes
    <3>2. /\ double \in Nat \ {0} /\ x.nalloc <= double /\ x.nalloc + 1 <= double
      BY <1>2
    <3>3. 1 \in Nat \ {0}
      OBVIOUS
    <3>4. arrays[b].nalloc <= double /\ arrays[b].nalloc + 1 <= double
      BY <3>2
    <3> HIDE DEF double, copy, x
    <3>5. Grown(b, g)
          /\ (g.array.nalloc = arrays[b].nalloc + 1 \/ g.array.nalloc = double)
      BY <1>1, <3>1, <3>2, <3>3, <3>4, GrowthGrows
    <3> QED
      BY <1>2, <2>1, <3>2, <3>5 DEF x
  <2>2. CASE x.nelts # x.nalloc
    <3>1. g = Unchanged(x)
      BY <1>3, <2>2 DEF PushOutcomes
    <3>2. Grown(b, g) /\ g.array.nalloc = x.nalloc
      BY <1>1, <3>1, UnchangedGrows
    <3> QED
      BY <1>2, <2>2, <3>2
  <2> QED
    BY <2>1, <2>2
<1>5. x.nelts + 1 <= MaxElems
  BY <1>1, <1>2
<1> QED
  BY <1>1, <1>3, <1>4, <1>5, PushedKeeps

LEMMA ArrayPushNKeeps ==
  ASSUME ArrayInv, NEW b \in Arrays, NEW n \in PushCounts, ArrayPushN(b, n)
  PROVE  ArrayInv'
<1> DEFINE x == arrays[b]
<1>1. b \in Live(arrays) /\ x.nelts + n <= MaxElems /\ n \in Nat \ {0}
  BY ArrayAssumption DEF ArrayPushN, Live
<1>2. x \in Array /\ x.nelts \in Nat /\ x.nalloc \in Nat /\ x.nalloc > 0
      /\ x.nelts <= x.nalloc
  BY <1>1, StateFacts DEF ArrayOK, Array
<1>3. PICK g \in PushNOutcomes(x, n) : Pushed(b, n, g)
  BY DEF ArrayPushN
<1>4. Grown(b, g) /\ x.nelts + n <= g.array.nalloc
  <2>1. CASE x.nelts + n > x.nalloc
    <3>1. g \in GrowthOutcomes(x, n, 2 * Larger(n, x.nalloc), ElemSize * x.nelts)
      BY <1>3, <2>1 DEF PushNOutcomes
    <3>2. /\ 2 * Larger(n, x.nalloc) \in Nat \ {0} /\ x.nalloc <= 2 * Larger(n, x.nalloc)
          /\ x.nalloc + n <= 2 * Larger(n, x.nalloc)
      BY <1>1, <1>2 DEF Larger
    <3>3. Grown(b, g)
          /\ (g.array.nalloc = x.nalloc + n \/ g.array.nalloc = 2 * Larger(n, x.nalloc))
      BY <1>1, <3>1, <3>2, GrowthGrows
    <3> QED
      BY <1>1, <1>2, <3>2, <3>3
  <2>2. CASE ~ (x.nelts + n > x.nalloc)
    <3>1. g = Unchanged(x)
      BY <1>3, <2>2 DEF PushNOutcomes
    <3>2. Grown(b, g) /\ g.array.nalloc = x.nalloc
      BY <1>1, <3>1, UnchangedGrows
    <3> QED
      BY <1>1, <1>2, <2>2, <3>2
  <2> QED
    BY <2>1, <2>2
<1> QED
  BY <1>1, <1>3, <1>4, PushedKeeps

(***************************************************************************)
(* rap_array_destroy gives back the elements and then the structure.       *)
(***************************************************************************)
LEMMA ArrayDestroyKeeps ==
  ASSUME ArrayInv, NEW b \in Arrays, ArrayDestroy(b)
  PROVE  ArrayInv'
<1> DEFINE x == arrays[b]
<1> DEFINE held == HeldBy(others, arrays)
<1> DEFINE k == <<"elements", b>>
<1> DEFINE s == <<"structure", b>>
<1> DEFINE v == Returned(arena.last[1], x.elts, ElemSize * x.nalloc)
<1> DEFINE w == Returned(v, x.at, ArrayRec)
<1> DEFINE fewer == Without(held, k)
<1> DEFINE rest == Without(fewer, s)
<1> DEFINE new == [arrays EXCEPT ![b] = Absent]
<1>1. /\ b \in Live(arrays) /\ arrays' = new /\ chunks' = chunks /\ others' = others
      /\ memory' = Forgotten(memory, Units(x.elts, ElemSize * x.nalloc))
      /\ arena' = LastSet(arena, w)
  BY DEF ArrayDestroy, Live, LastSet
<1>2. x \in Array /\ x.nalloc \in Nat \ {0} /\ x.elts \in Address /\ x.at \in Address
      /\ ElemSize * x.nalloc \in Nat \ {0}
  BY <1>1, StateFacts, Sizes DEF ArrayOK, Array, Address
<1>3. HeldByThem(held, others, arrays)
  BY HeldFacts
<1>4. k \in DOMAIN held /\ held[k] = Region(x.elts, ElemSize * x.nalloc)
      /\ s \in DOMAIN held /\ held[s] = Region(x.at, ArrayRec) /\ s # k
  BY <1>1, <1>3 DEF HeldByThem
<1>5. ArenaOK(arena) /\ chunks \in Nat /\ HeldOK(arena, chunks, held)
  BY StateFacts
<1> HIDE DEF held
<1> DEFINE less == LastSet(arena, v)
<1>6. ArenaOK(less) /\ less.last[1] = v /\ HeldOK(less, chunks, fewer)
  BY <1>2, <1>4, <1>5, GivenBack
<1>7. DOMAIN fewer = DOMAIN held \ {k} /\ \A h \in DOMAIN held : h # k => fewer[h] = held[h]
  BY DEF Without
<1>8. LastSet(less, w) = LastSet(arena, w)
  BY DEF LastSet
<1> HIDE DEF fewer, less
<1>9. w = Returned(less.last[1], x.at, ArrayRec)
  BY <1>6
<1> HIDE DEF v, w
<1>10. ArenaOK(LastSet(less, w)) /\ HeldOK(LastSet(less, w), chunks, rest)
  BY <1>2, <1>4, <1>5, <1>6, <1>7, <1>9, Sizes, GivenBack
<1>11. DOMAIN rest = DOMAIN fewer \ {s} /\ \A h \in DOMAIN fewer : h # s => rest[h] = fewer[h]
  BY DEF Without
<1> HIDE DEF rest
<1>12. DOMAIN new = Arrays
       /\ \A d \in Live(new) : d # b /\ d \in Live(arrays) /\ new[d] = arrays[d]
  BY <1>1, StateFacts DEF Live
<1> HIDE DEF new
<1>13. \A i \in DOMAIN others : <<"other", i>> \in DOMAIN rest /\ rest[<<"other", i>>] = others[i]
  BY <1>3, <1>7, <1>11 DEF HeldByThem
<1>14. ASSUME NEW d \in Live(new)
       PROVE  /\ <<"structure", d>> \in DOMAIN rest
              /\ rest[<<"structure", d>>] = Region(new[d].at, ArrayRec)
  BY <1>3, <1>7, <1>11, <1>12 DEF HeldByThem
<1>15. ASSUME NEW d \in Live(new)
       PROVE  /\ <<"elements", d>> \in DOMAIN rest
              /\ rest[<<"elements", d>>] = Region(new[d].elts, ElemSize * new[d].nalloc)
  BY <1>3, <1>7, <1>11, <1>12 DEF HeldByThem
<1>16. HeldByThem(rest, others, new)
  BY <1>13, <1>14, <1>15 DEF HeldByThem
<1>17. HeldOK(LastSet(less, w), chunks, HeldBy(others, new))
  BY <1>10, <1>16, HeldAmong
<1>18. \A u \in DOMAIN memory' : memory'[u] \in 1 .. MaxElems
  BY <1>1, StateFacts DEF Forgotten
<1>19. \A d \in Live(new) : ArrayOK(new[d])
  BY <1>12, StateFacts
<1>20. StateOK(LastSet(arena, w), chunks, new, memory', others)
  BY <1>8, <1>10, <1>12, <1>17, <1>18, <1>19, StateFacts DEF StateOK
<1> QED
  BY <1>1, <1>20 DEF ArrayInv

-----------------------------------------------------------------------------
(***************************************************************************)
(* ArrayInv holds in every reachable state.                                *)
(***************************************************************************)
THEOREM ArrayInvariant == Spec => []ArrayInv
<1>1. Init => ArrayInv
  <2> SUFFICES ASSUME Init PROVE ArrayInv
    OBVIOUS
  <2>1. Live(arrays) = {} /\ DOMAIN arrays = Arrays
    BY DEF Init, Live
  <2>2. others = << >> /\ DOMAIN others = {} /\ others \in Seq(Extent)
    BY DEF Init
  <2>3. DOMAIN memory = {}
    BY DEF Init
  <2>4. HeldOK(arena, chunks, HeldBy(others, arrays))
    <3>1. OnlyThem(HeldBy(others, arrays), others, arrays)
      BY HeldFacts
    <3>2. DOMAIN HeldBy(others, arrays) = {}
      BY <2>1, <2>2, <3>1 DEF OnlyThem
    <3> QED
      BY <3>2 DEF HeldOK
  <2>5. ArenaOK(arena) /\ chunks \in 0 .. MaxChunks
    BY NewArenaOK, Sizes DEF Init
  <2> QED
    BY <2>1, <2>2, <2>3, <2>4, <2>5 DEF ArrayInv, StateOK
<1>2. ArrayInv /\ [Next]_vars => ArrayInv'
  <2> SUFFICES ASSUME ArrayInv, [Next]_vars PROVE ArrayInv'
    OBVIOUS
  <2>1. ASSUME NEW size \in OtherSizes, OtherPalloc(size) PROVE ArrayInv'
    BY <2>1, OtherPallocKeeps
  <2>2. ASSUME NEW b \in Arrays, NEW n \in InitialSizes, ArrayCreate(b, n) PROVE ArrayInv'
    BY <2>2, ArrayCreateKeeps
  <2>3. ASSUME NEW b \in Arrays, ArrayPush(b) PROVE ArrayInv'
    BY <2>3, ArrayPushKeeps
  <2>4. ASSUME NEW b \in Arrays, NEW n \in PushCounts, ArrayPushN(b, n) PROVE ArrayInv'
    BY <2>4, ArrayPushNKeeps
  <2>5. ASSUME NEW b \in Arrays, ArrayDestroy(b) PROVE ArrayInv'
    BY <2>5, ArrayDestroyKeeps
  <2>6. CASE UNCHANGED vars
    BY <2>6 DEF vars, ArrayInv
  <2> QED
    BY <2>1, <2>2, <2>3, <2>4, <2>5, <2>6 DEF Next
<1> QED
  BY <1>1, <1>2, PTL DEF Spec

(***************************************************************************)
(* Types, and an array never holds more elements than it has room for      *)
(* (rap_array.c:56,106), whatever sizes it is created and pushed with.     *)
(***************************************************************************)
THEOREM ArrayTypeCorrectness == Spec => []TypeOK
<1>1. ArrayInv => TypeOK
  BY DEF ArrayInv, StateOK, TypeOK, ArrayOK, Live, ArenaOK, ArenaTyped
<1> QED
  BY <1>1, ArrayInvariant, PTL

(***************************************************************************)
(* Nobody's memory is handed out again or given back while it is in use    *)
(* (rap_array.c:39-45,64-73), whatever the sizes, the number of arrays and *)
(* the pool they share with the rest of the program.                       *)
(***************************************************************************)
THEOREM ArrayMemoryReserved == Spec => []InUseIsReserved
<1>1. ArrayInv => InUseIsReserved
  BY DEF ArrayInv, StateOK, HeldOK, InUseIsReserved, Held
<1> QED
  BY <1>1, ArrayInvariant, PTL

-----------------------------------------------------------------------------
(***************************************************************************)
(* RapArray implements SequenceContract for any arrays, sizes, pool and    *)
(* number of other allocations: nothing the pool does changes what an      *)
(* array holds.                                                            *)
(*                                                                         *)
(* ContentsInv says what memory holds: every unit of the i-th element of   *)
(* an array has the value i.  A step writes or forgets only units of the   *)
(* regions it gets or gives back, and ArrayInv, before or after the step,  *)
(* keeps those apart from the elements of every other array.               *)
(***************************************************************************)

Position(address, k) == [block |-> address.block, at |-> address.at + k]

Holds(mem, x) ==
  \A i \in 0 .. x.nelts - 1 : \A r \in 0 .. ElemSize - 1 :
    /\ Position(x.elts, i * ElemSize + r) \in DOMAIN mem
    /\ mem[Position(x.elts, i * ElemSize + r)] = i + 1

Contents(mem, arr) ==
  \A d \in Live(arr) : arr[d].nelts <= MaxElems /\ Holds(mem, arr[d])

ContentsInv == ArrayInv /\ Contents(memory, arrays)

-----------------------------------------------------------------------------
(***************************************************************************)
(* Offsets of the bytes of an element.                                     *)
(***************************************************************************)
LEMMA Offset ==
  ASSUME NEW i \in Nat, NEW n \in Nat, i < n, NEW r \in 0 .. ElemSize - 1
  PROVE  i * ElemSize + r \in Nat /\ i * ElemSize + r < n * ElemSize
<1>1. ElemSize \in Nat \ {0}
  BY Sizes
<1>2. (i + 1) * ElemSize <= n * ElemSize
  BY <1>1
<1>3. (i + 1) * ElemSize = i * ElemSize + ElemSize
  BY <1>1
<1>4. i * ElemSize \in Nat /\ n * ElemSize \in Nat
  BY <1>1
<1> QED
  BY <1>1, <1>2, <1>3, <1>4

LEMMA Quotient ==
  ASSUME NEW i \in Nat, NEW e \in Nat \ {0}, NEW r \in 0 .. e - 1
  PROVE  (i * e + r) \div e = i
<1> DEFINE d == i * e + r
<1> DEFINE q == d \div e
<1> DEFINE m == d % e
<1>1. d \in Nat /\ i * e \in Nat
  OBVIOUS
<1> HIDE DEF d
<1>2. q \in Int /\ m \in Int /\ 0 <= m /\ m < e /\ d = e * q + m
  BY <1>1
<1> HIDE DEF q, m
<1>3. d = e * i + r
  BY <1>1 DEF d
<1>4. ~ (q < i)
  <2> SUFFICES ASSUME q + 1 <= i PROVE FALSE
    BY <1>2
  <2>1. e * (q + 1) <= e * i
    BY <1>2
  <2>2. e * (q + 1) = e * q + e
    BY <1>2
  <2>3. e * q \in Int /\ e * i \in Int
    BY <1>2
  <2> QED
    BY <1>2, <1>3, <2>1, <2>2, <2>3
<1>5. ~ (q > i)
  <2> SUFFICES ASSUME i + 1 <= q PROVE FALSE
    BY <1>2
  <2>1. e * (i + 1) <= e * q
    BY <1>2
  <2>2. e * (i + 1) = e * i + e
    BY <1>2
  <2>3. e * q \in Int /\ e * i \in Int
    BY <1>2
  <2> QED
    BY <1>2, <1>3, <2>1, <2>2, <2>3
<1>6. q = i
  BY <1>2, <1>4, <1>5
<1> QED
  BY <1>6 DEF q, d

-----------------------------------------------------------------------------
(***************************************************************************)
(* Bytes outside a region that is disjoint from theirs.                    *)
(***************************************************************************)
LEMMA Outside ==
  ASSUME NEW p \in Address, NEW s \in Nat, NEW q \in Address, NEW t \in Nat,
         Disjoint(Region(p, s), Region(q, t)),
         NEW k \in Nat, k < s, NEW size \in Nat, size <= t
  PROVE  Position(p, k) \notin Units(q, size)
<1> SUFFICES ASSUME Position(p, k) \in Units(q, size) PROVE FALSE
  OBVIOUS
<1>1. p.block = q.block /\ p.at + k >= q.at /\ p.at + k <= q.at + size - 1
  BY DEF Position, Units, Address
<1>2. p.at \in Nat /\ q.at \in Nat
  BY DEF Address
<1>3. p.at + s <= q.at \/ q.at + t <= p.at
  BY <1>1 DEF Disjoint, Region
<1> QED
  BY <1>1, <1>2, <1>3

LEMMA UnitInside ==
  ASSUME NEW q \in Address, NEW size \in Nat, NEW k \in Nat, k < size
  PROVE  Position(q, k) \in Units(q, size)
<1>1. q.at \in Nat /\ q.at + k \in q.at .. q.at + size - 1
  BY DEF Address
<1> QED
  BY <1>1 DEF Position, Units

(***************************************************************************)
(* Memory that keeps what is outside some units keeps what an array holds  *)
(* outside them.                                                           *)
(***************************************************************************)
Keeps(new, mem, units) ==
  \A u \in DOMAIN mem \ units : u \in DOMAIN new /\ new[u] = mem[u]

LEMMA HoldsOutside ==
  ASSUME NEW mem, NEW new, NEW units, Keeps(new, mem, units),
         NEW x, x.nelts \in Nat, Holds(mem, x),
         \A k \in Nat : k < x.nelts * ElemSize => Position(x.elts, k) \notin units
  PROVE  Holds(new, x)
<1> SUFFICES ASSUME NEW i \in 0 .. x.nelts - 1, NEW r \in 0 .. ElemSize - 1
             PROVE  /\ Position(x.elts, i * ElemSize + r) \in DOMAIN new
                    /\ new[Position(x.elts, i * ElemSize + r)] = i + 1
  BY DEF Holds
<1> DEFINE k == i * ElemSize + r
<1>1. k \in Nat /\ k < x.nelts * ElemSize
  BY Offset
<1>2. Position(x.elts, k) \in DOMAIN mem /\ mem[Position(x.elts, k)] = i + 1
  BY DEF Holds
<1> HIDE DEF k
<1>3. Position(x.elts, k) \in DOMAIN mem \ units
  BY <1>1, <1>2
<1>4. Position(x.elts, k) \in DOMAIN new /\ new[Position(x.elts, k)] = i + 1
  BY <1>2, <1>3 DEF Keeps
<1> QED
  BY <1>4 DEF k

LEMMA ElementsApart ==
  ASSUME NEW a, NEW c, NEW os, NEW arr, HeldOK(a, c, HeldBy(os, arr)), NEW d \in Live(arr)
  PROVE  /\ \A b \in Live(arr) \ {d} :
              Disjoint(Region(arr[d].elts, ElemSize * arr[d].nalloc),
                       Region(arr[b].elts, ElemSize * arr[b].nalloc))
         /\ \A j \in DOMAIN os :
              Disjoint(Region(arr[d].elts, ElemSize * arr[d].nalloc), os[j])
<1> DEFINE held == HeldBy(os, arr)
<1>1. HeldByThem(held, os, arr)
  BY HeldFacts
<1> HIDE DEF held
<1>2. \A h, k \in DOMAIN held : h # k => Disjoint(held[h], held[k])
  BY DEF HeldOK, held
<1>3. /\ <<"elements", d>> \in DOMAIN held
      /\ held[<<"elements", d>>] = Region(arr[d].elts, ElemSize * arr[d].nalloc)
  BY <1>1 DEF HeldByThem
<1>4. ASSUME NEW b \in Live(arr) \ {d}
      PROVE  Disjoint(Region(arr[d].elts, ElemSize * arr[d].nalloc),
                      Region(arr[b].elts, ElemSize * arr[b].nalloc))
  <2>1. /\ <<"elements", b>> \in DOMAIN held
        /\ held[<<"elements", b>>] = Region(arr[b].elts, ElemSize * arr[b].nalloc)
    BY <1>1 DEF HeldByThem
  <2>2. <<"elements", d>> # <<"elements", b>>
    OBVIOUS
  <2> QED
    BY <1>2, <1>3, <2>1, <2>2
<1>5. ASSUME NEW j \in DOMAIN os
      PROVE  Disjoint(Region(arr[d].elts, ElemSize * arr[d].nalloc), os[j])
  <2>1. <<"other", j>> \in DOMAIN held /\ held[<<"other", j>>] = os[j]
    BY <1>1 DEF HeldByThem
  <2>2. <<"elements", d>> # <<"other", j>>
    OBVIOUS
  <2> QED
    BY <1>2, <1>3, <2>1, <2>2
<1> QED
  BY <1>4, <1>5

(***************************************************************************)
(* The elements an array holds are outside a part of a region that is      *)
(* disjoint from its room.                                                 *)
(***************************************************************************)
LEMMA ElementsOutside ==
  ASSUME NEW x, ArrayOK(x), NEW q \in Address, NEW t \in Nat,
         Disjoint(Region(x.elts, ElemSize * x.nalloc), Region(q, t)),
         NEW size \in Nat, size <= t
  PROVE  \A k \in Nat : k < x.nelts * ElemSize => Position(x.elts, k) \notin Units(q, size)
<1>1. x.elts \in Address /\ x.nelts \in Nat /\ x.nalloc \in Nat /\ x.nelts <= x.nalloc
      /\ ElemSize \in Nat
  BY Sizes DEF ArrayOK, Array, Address
<1>2. x.nelts * ElemSize <= ElemSize * x.nalloc /\ ElemSize * x.nalloc \in Nat
      /\ x.nelts * ElemSize \in Nat
  BY <1>1
<1>3. \A k \in Nat : k < x.nelts * ElemSize => k < ElemSize * x.nalloc
  BY <1>2
<1> QED
  BY <1>1, <1>2, <1>3, Outside

-----------------------------------------------------------------------------
(***************************************************************************)
(* What the operations of the model do to memory.                          *)
(***************************************************************************)
LEMMA ForgottenKeeps ==
  ASSUME NEW mem, NEW units
  PROVE  Keeps(Forgotten(mem, units), mem, units)
BY DEF Keeps, Forgotten

LEMMA CopiedKeeps ==
  ASSUME NEW from, NEW to, NEW size
  PROVE  Keeps(Copied(from, to, size), memory, Units(from, size) \cup Units(to, size))
<1> DEFINE copies == {u \in Units(to, size) : Origin(u, from, to) \in DOMAIN memory}
<1> DEFINE kept == DOMAIN memory \ (Units(from, size) \cup Units(to, size))
<1>1. Copied(from, to, size) =
        [u \in kept \cup copies |->
           IF u \in copies THEN memory[Origin(u, from, to)] ELSE memory[u]]
  BY DEF Copied
<1>2. \A u \in kept : u \notin copies
  OBVIOUS
<1> HIDE DEF copies
<1> QED
  BY <1>1, <1>2 DEF Keeps

LEMMA WrittenKeeps ==
  ASSUME NEW mem, NEW x, NEW from, NEW n
  PROVE  Keeps(Written(mem, x, from, n), mem,
               Units(Position(x.elts, from * ElemSize), n * ElemSize))
BY DEF Keeps, Written, Position

(***************************************************************************)
(* A move takes the elements along when it copies all of them.             *)
(***************************************************************************)
LEMMA CopiedCarries ==
  ASSUME NEW x \in Array, Holds(memory, x), NEW to \in Address, NEW size \in Nat,
         x.nelts * ElemSize <= size, NEW y, y.elts = to, y.nelts = x.nelts
  PROVE  Holds(Copied(x.elts, to, size), y)
<1> DEFINE new == Copied(x.elts, to, size)
<1> SUFFICES ASSUME NEW i \in 0 .. x.nelts - 1, NEW r \in 0 .. ElemSize - 1
             PROVE  /\ Position(to, i * ElemSize + r) \in DOMAIN new
                    /\ new[Position(to, i * ElemSize + r)] = i + 1
  BY DEF Holds
<1> DEFINE k == i * ElemSize + r
<1> DEFINE u == Position(to, k)
<1>1. x.nelts \in Nat /\ x.elts \in Address /\ x.nelts * ElemSize \in Nat
  BY Sizes DEF Array, Address
<1>2. k \in Nat /\ k < x.nelts * ElemSize
  BY <1>1, Offset
<1>3. Position(x.elts, k) \in DOMAIN memory /\ memory[Position(x.elts, k)] = i + 1
  BY DEF Holds
<1> HIDE DEF k
<1>4. k < size
  BY <1>1, <1>2
<1>5. u \in Units(to, size)
  BY <1>2, <1>4, UnitInside
<1>6. Origin(u, x.elts, to) = Position(x.elts, k)
  <2>1. u.at = to.at + k /\ to.at \in Nat
    BY DEF Position, Address
  <2>2. u.at - to.at = k
    BY <1>2, <2>1
  <2> QED
    BY <2>2 DEF Origin, Position
<1> HIDE DEF u
<1>7. u \in DOMAIN new /\ new[u] = memory[Origin(u, x.elts, to)]
  BY <1>3, <1>5, <1>6 DEF Copied
<1>8. u \in DOMAIN new /\ new[u] = i + 1
  BY <1>3, <1>6, <1>7
<1> QED
  BY <1>8 DEF u, k

(***************************************************************************)
(* The caller's writes add the new elements to those before them.          *)
(***************************************************************************)
LEMMA WrittenHolds ==
  ASSUME NEW mem, NEW x \in Array, Holds(mem, x), NEW n \in Nat,
         NEW z, z.elts = x.elts, z.nelts = x.nelts + n
  PROVE  Holds(Written(mem, x, x.nelts, n), z)
<1> DEFINE new == Written(mem, x, x.nelts, n)
<1> DEFINE start == [block |-> x.elts.block, at |-> x.elts.at + x.nelts * ElemSize]
<1> DEFINE units == Units(start, n * ElemSize)
<1>1. x.nelts \in Nat /\ x.elts.at \in Nat /\ x.elts.block \in Nat /\ ElemSize \in Nat \ {0}
  BY Sizes DEF Array
<1>2. x.nelts * ElemSize \in Nat /\ n * ElemSize \in Nat
  BY <1>1
<1>3. start \in Address
  BY <1>1, <1>2 DEF Address
<1>4. new = [u \in DOMAIN mem \cup units |->
               IF u \in units THEN x.nelts + ((u.at - start.at) \div ElemSize) + 1 ELSE mem[u]]
  BY DEF Written
<1>5. start.at = x.elts.at + x.nelts * ElemSize /\ start.block = x.elts.block
  OBVIOUS
<1> SUFFICES ASSUME NEW i \in 0 .. z.nelts - 1, NEW r \in 0 .. ElemSize - 1
             PROVE  /\ Position(z.elts, i * ElemSize + r) \in DOMAIN new
                    /\ new[Position(z.elts, i * ElemSize + r)] = i + 1
  BY DEF Holds
<1> HIDE DEF start, new
<1>6. CASE i < x.nelts
  <2> DEFINE k == i * ElemSize + r
  <2>1. i \in 0 .. x.nelts - 1
    BY <1>1, <1>6
  <2>2. Position(x.elts, k) \in DOMAIN mem /\ mem[Position(x.elts, k)] = i + 1
    BY <2>1 DEF Holds
  <2>3. k \in Nat /\ k < x.nelts * ElemSize
    BY <1>1, <1>6, Offset
  <2> HIDE DEF k
  <2>4. x.elts.at + k < start.at
    BY <1>1, <1>2, <1>5, <2>3
  <2>5. Position(x.elts, k) \notin units
    <3> SUFFICES ASSUME Position(x.elts, k) \in units PROVE FALSE
      OBVIOUS
    <3>1. x.elts.at + k \in start.at .. start.at + n * ElemSize - 1
      BY DEF Position, Units
    <3>2. x.elts.at + k >= start.at
      BY <3>1, <1>3 DEF Address
    <3> QED
      BY <1>1, <1>3, <2>3, <2>4, <3>2 DEF Address
  <2>6. Position(x.elts, k) \in DOMAIN new /\ new[Position(x.elts, k)] = i + 1
    BY <1>4, <2>2, <2>5
  <2> QED
    BY <2>6 DEF k
<1>7. CASE i >= x.nelts
  <2> DEFINE j == i - x.nelts
  <2> DEFINE k == j * ElemSize + r
  <2>1. j \in Nat /\ j < n /\ i = x.nelts + j
    BY <1>1, <1>7
  <2>2. k \in Nat /\ k < n * ElemSize
    BY <2>1, Offset
  <2>3. k \div ElemSize = j
    BY <1>1, <2>1, Quotient
  <2>4. i * ElemSize + r = x.nelts * ElemSize + k
    <3> HIDE DEF j
    <3>1. (x.nelts + j) * ElemSize = x.nelts * ElemSize + j * ElemSize
      BY <1>1, <2>1
    <3>2. j * ElemSize \in Nat
      BY <1>1, <2>1
    <3> QED
      BY <1>1, <1>2, <2>1, <3>1, <3>2
  <2> HIDE DEF k, j
  <2>5. Position(x.elts, i * ElemSize + r) = Position(start, k)
    BY <1>1, <1>2, <1>5, <2>2, <2>4 DEF Position
  <2> DEFINE u == Position(start, k)
  <2>6. u \in units
    BY <1>2, <1>3, <2>2, UnitInside
  <2>7. u.at - start.at = k
    BY <1>3, <2>2 DEF Position, Address
  <2> HIDE DEF u, units
  <2>8. u \in DOMAIN new /\ new[u] = x.nelts + (k \div ElemSize) + 1
    BY <1>4, <2>6, <2>7
  <2>9. new[u] = i + 1
    BY <2>1, <2>3, <2>8
  <2> QED
    BY <2>5, <2>8, <2>9 DEF u
<1> QED
  BY <1>1, <1>6, <1>7

-----------------------------------------------------------------------------
(***************************************************************************)
(* Growth carries the elements of the array that grows and leaves those of *)
(* the others alone.                                                       *)
(***************************************************************************)
Carries(b, g) ==
  /\ Holds(g.memory, g.array)
  /\ \A d \in Live(arrays) \ {b} : Holds(g.memory, arrays[d])

LEMMA MoveCarries ==
  ASSUME ContentsInv, NEW b \in Live(arrays), NEW nalloc \in Nat \ {0},
         NEW copy \in Nat, arrays[b].nelts * ElemSize <= copy,
         copy <= ElemSize * arrays[b].nalloc, copy <= ElemSize * nalloc,
         NEW q, Grown(b, Moved(arrays[b], q, nalloc, copy))
  PROVE  Carries(b, Moved(arrays[b], q, nalloc, copy))
<1> DEFINE x == arrays[b]
<1> DEFINE g == Moved(arrays[b], q, nalloc, copy)
<1> DEFINE mid == [arrays EXCEPT ![b] = g.array]
<1> DEFINE from == ElemSize * x.nalloc
<1> DEFINE to == ElemSize * nalloc
<1>1. /\ g.memory = Copied(x.elts, q.at, copy) /\ g.array.elts = q.at
      /\ g.array.nalloc = nalloc /\ g.array.nelts = x.nelts
  BY DEF Moved, Resized
<1>2. /\ g.array \in Array
      /\ HeldOK(g.arena, g.chunks, HeldBy(others \o g.record, mid))
  BY DEF Grown, StateOK
<1>3. q.at \in Address
  BY <1>1, <1>2 DEF Array, Address
<1>4. b \in Arrays /\ DOMAIN arrays = Arrays
  BY StateFacts DEF ContentsInv, Live
<1>5. mid[b] = g.array /\ \A d \in Live(arrays) \ {b} : mid[d] = arrays[d]
  BY <1>4 DEF Live
<1>6. b \in Live(mid) /\ \A d \in Live(arrays) \ {b} : d \in Live(mid)
  BY <1>2, <1>4, <1>5, AbsentAssumption DEF Live
<1>7. \A d \in Live(arrays) : ArrayOK(arrays[d]) /\ Holds(memory, arrays[d])
  BY StateFacts DEF ContentsInv, Contents
<1>8. HeldOK(arena, chunks, HeldBy(others, arrays))
  BY StateFacts DEF ContentsInv
<1>9. x \in Array /\ x.elts \in Address /\ from \in Nat /\ to \in Nat
  BY <1>7, Sizes DEF ArrayOK, Array, Address
<1> HIDE DEF g, mid, x, from, to
<1>10. Holds(g.memory, g.array)
  BY <1>1, <1>3, <1>7, <1>9, CopiedCarries DEF x
<1>11. ASSUME NEW d \in Live(arrays) \ {b}
       PROVE  Holds(g.memory, arrays[d])
  <2> DEFINE y == arrays[d]
  <2>1. ArrayOK(y) /\ Holds(memory, y) /\ y.nelts \in Nat
    BY <1>7 DEF ArrayOK, Array
  <2>2. Disjoint(Region(y.elts, ElemSize * y.nalloc), Region(x.elts, from))
    BY <1>8, ElementsApart DEF x, from
  <2>3. Disjoint(Region(y.elts, ElemSize * y.nalloc), Region(q.at, to))
    <3>1. Disjoint(Region(mid[d].elts, ElemSize * mid[d].nalloc),
                   Region(mid[b].elts, ElemSize * mid[b].nalloc))
      BY <1>2, <1>6, ElementsApart
    <3> QED
      BY <1>1, <1>5, <3>1 DEF to
  <2> HIDE DEF y
  <2>4. copy <= from /\ copy <= to
    BY DEF from, to, x
  <2>5. \A k \in Nat : k < y.nelts * ElemSize => Position(y.elts, k) \notin Units(x.elts, copy)
    BY <1>9, <2>1, <2>2, <2>4, ElementsOutside
  <2>6. \A k \in Nat : k < y.nelts * ElemSize => Position(y.elts, k) \notin Units(q.at, copy)
    BY <1>3, <1>9, <2>1, <2>3, <2>4, ElementsOutside
  <2>7. Keeps(g.memory, memory, Units(x.elts, copy) \cup Units(q.at, copy))
    BY <1>1, CopiedKeeps
  <2>8. \A k \in Nat : k < y.nelts * ElemSize =>
          Position(y.elts, k) \notin Units(x.elts, copy) \cup Units(q.at, copy)
    BY <2>5, <2>6
  <2>9. Holds(g.memory, y)
    BY <2>1, <2>7, <2>8, HoldsOutside
  <2> QED
    BY <2>9 DEF y
<1>12. Carries(b, g)
  BY <1>10, <1>11 DEF Carries
<1> QED
  BY <1>12 DEF g

LEMMA GrowthCarries ==
  ASSUME ContentsInv, NEW b \in Live(arrays), NEW more \in Nat \ {0},
         NEW nalloc \in Nat \ {0}, arrays[b].nalloc <= nalloc,
         NEW copy \in Nat, arrays[b].nelts * ElemSize <= copy,
         copy <= ElemSize * arrays[b].nalloc,
         NEW g \in GrowthOutcomes(arrays[b], more, nalloc, copy)
  PROVE  Carries(b, g) /\ Grown(b, g)
         /\ (g.array.nalloc = arrays[b].nalloc + more \/ g.array.nalloc = nalloc)
<1>1. ArrayInv /\ \A d \in Live(arrays) : Holds(memory, arrays[d])
  BY DEF ContentsInv, Contents
<1>2. Grown(b, g) /\ (g.array.nalloc = arrays[b].nalloc + more \/ g.array.nalloc = nalloc)
  BY <1>1, GrowthGrows
<1>3. CASE GrowsInPlace(arrays[b], more * ElemSize)
  <2>1. g = InPlace(arrays[b], more)
    BY <1>3 DEF GrowthOutcomes
  <2>2. g.memory = memory /\ g.array.elts = arrays[b].elts /\ g.array.nelts = arrays[b].nelts
    BY <2>1 DEF InPlace, Resized
  <2> QED
    BY <1>1, <1>2, <2>2 DEF Carries, Holds
<1>4. CASE ~ GrowsInPlace(arrays[b], more * ElemSize)
  <2>1. PICK q \in PallocOutcomes(arena, nalloc * ElemSize) :
          g = Moved(arrays[b], q, nalloc, copy)
    BY <1>4 DEF GrowthOutcomes
  <2>2. copy <= ElemSize * nalloc
    <3>1. arrays[b].nalloc \in Nat /\ ElemSize \in Nat
      BY <1>1, Sizes, StateFacts DEF ArrayOK, Array
    <3>2. ElemSize * arrays[b].nalloc <= ElemSize * nalloc
      BY <3>1
    <3>3. ElemSize * arrays[b].nalloc \in Nat /\ ElemSize * nalloc \in Nat
      BY <3>1
    <3> QED
      BY <3>2, <3>3
  <2>3. Carries(b, Moved(arrays[b], q, nalloc, copy))
    BY <1>2, <2>1, <2>2, MoveCarries
  <2> QED
    BY <1>2, <2>1, <2>3
<1> QED
  BY <1>3, <1>4

LEMMA UnchangedCarries ==
  ASSUME ContentsInv, NEW b \in Live(arrays)
  PROVE  /\ Carries(b, Unchanged(arrays[b])) /\ Grown(b, Unchanged(arrays[b]))
         /\ Unchanged(arrays[b]).array.nalloc = arrays[b].nalloc
<1>1. Grown(b, Unchanged(arrays[b])) /\ Unchanged(arrays[b]).array.nalloc = arrays[b].nalloc
  BY UnchangedGrows DEF ContentsInv
<1>2. Unchanged(arrays[b]).memory = memory /\ Unchanged(arrays[b]).array = arrays[b]
  BY DEF Unchanged
<1> QED
  BY <1>1, <1>2 DEF Carries, ContentsInv, Contents

(***************************************************************************)
(* n elements are taken after growth g and written.                        *)
(***************************************************************************)
Takes(b, n) ==
  \E z \in Array : arrays' = [arrays EXCEPT ![b] = z] /\ z.nelts = arrays[b].nelts + n

LEMMA PushedHolds ==
  ASSUME ContentsInv, NEW b \in Live(arrays), NEW n \in Nat, NEW g, Grown(b, g), Carries(b, g),
         arrays[b].nelts + n <= MaxElems, arrays[b].nelts + n <= g.array.nalloc,
         Pushed(b, n, g)
  PROVE  ContentsInv' /\ Takes(b, n)
<1> DEFINE y == g.array
<1> DEFINE z == [at |-> y.at, elts |-> y.elts, nelts |-> y.nelts + n, nalloc |-> y.nalloc]
<1> DEFINE new == [arrays EXCEPT ![b] = z]
<1> DEFINE mem == Written(g.memory, y, y.nelts, n)
<1> DEFINE all == others \o g.record
<1>1. ArrayInv /\ ArrayInv'
  BY PushedKeeps DEF ContentsInv
<1>2. arrays' = new /\ memory' = mem /\ arena' = g.arena /\ chunks' = g.chunks /\ others' = all
  BY DEF Pushed
<1>3. /\ \A d \in Live(new) : ArrayOK(new[d])
      /\ HeldOK(g.arena, g.chunks, HeldBy(all, new))
  BY <1>1, <1>2 DEF ArrayInv, StateOK
<1>4. y \in Array /\ y.nelts = arrays[b].nelts /\ y.elts \in Address
      /\ y.nelts \in Nat /\ y.nalloc \in Nat
  BY DEF Grown, Array, Address
<1>5. z.elts = y.elts /\ z.nelts = y.nelts + n /\ z.nalloc = y.nalloc
      /\ z \in Array /\ z # Absent
  <2>1. z \in Array
    BY <1>4 DEF Array
  <2> QED
    BY <2>1, AbsentAssumption
<1>6. b \in Arrays /\ DOMAIN arrays = Arrays
  BY <1>1, StateFacts DEF Live
<1> HIDE DEF z
<1>7. /\ new[b] = z /\ b \in Live(new)
      /\ \A d \in Live(new) \ {b} : d \in Live(arrays) /\ new[d] = arrays[d]
  BY <1>5, <1>6 DEF Live
<1> HIDE DEF y, new, mem, all
<1>8. Holds(mem, z)
  BY <1>4, <1>5, WrittenHolds DEF Carries, y, mem
<1>9. ASSUME NEW d \in Live(new) \ {b}
      PROVE  Holds(mem, new[d])
  <2> DEFINE w == new[d]
  <2> DEFINE start == Position(y.elts, y.nelts * ElemSize)
  <2> DEFINE room == ElemSize * y.nalloc
  <2>1. ArrayOK(w) /\ Holds(g.memory, w) /\ w.nelts \in Nat
    BY <1>3, <1>7 DEF ArrayOK, Array, Carries
  <2>2. Disjoint(Region(w.elts, ElemSize * w.nalloc), Region(y.elts, room))
    BY <1>3, <1>5, <1>7, ElementsApart
  <2> HIDE DEF w
  <2>3. ElemSize \in Nat \ {0} /\ room \in Nat
    BY <1>4, Sizes
  <2>4. \A k \in Nat : k < w.nelts * ElemSize => Position(w.elts, k) \notin Units(y.elts, room)
    BY <1>4, <2>1, <2>2, <2>3, ElementsOutside
  <2>5. Units(start, n * ElemSize) \subseteq Units(y.elts, room)
    <3>1. (y.nelts + n) * ElemSize <= y.nalloc * ElemSize
      BY <1>4, <2>3 DEF y
    <3>2. /\ (y.nelts + n) * ElemSize = y.nelts * ElemSize + n * ElemSize
          /\ y.nalloc * ElemSize = room
          /\ y.nelts * ElemSize \in Nat /\ n * ElemSize \in Nat
      BY <1>4, <2>3
    <3> HIDE DEF room
    <3>3. /\ start.block = y.elts.block /\ start.at = y.elts.at + y.nelts * ElemSize
          /\ y.elts.at \in Nat
      BY <1>4 DEF Position, Address
    <3> HIDE DEF start
    <3>4. start.at .. start.at + n * ElemSize - 1 \subseteq y.elts.at .. y.elts.at + room - 1
      BY <2>3, <3>1, <3>2, <3>3
    <3> QED
      BY <3>3, <3>4 DEF Units
  <2>6. Keeps(mem, g.memory, Units(start, n * ElemSize))
    BY WrittenKeeps DEF mem
  <2> HIDE DEF start, room
  <2>7. \A k \in Nat : k < w.nelts * ElemSize => Position(w.elts, k) \notin Units(start, n * ElemSize)
    BY <2>4, <2>5
  <2>8. Holds(mem, w)
    BY <2>1, <2>6, <2>7, HoldsOutside
  <2> QED
    BY <2>8 DEF w
<1>10. \A d \in Live(new) \ {b} : new[d].nelts <= MaxElems
  BY <1>7 DEF ContentsInv, Contents
<1>11. z.nelts <= MaxElems
  BY <1>4, <1>5
<1>12. Contents(mem, new)
  BY <1>7, <1>8, <1>9, <1>10, <1>11 DEF Contents
<1>13. Takes(b, n)
  BY <1>2, <1>4, <1>5 DEF Takes, new
<1> QED
  BY <1>1, <1>2, <1>12, <1>13 DEF ContentsInv

-----------------------------------------------------------------------------
(***************************************************************************)
(* The actions.                                                            *)
(***************************************************************************)
LEMMA OtherPallocHolds ==
  ASSUME ContentsInv, NEW size \in OtherSizes, OtherPalloc(size)
  PROVE  ContentsInv' /\ arrays' = arrays
<1>1. PICK o \in Small(arena, size, TRUE) :
        /\ o.at # NULL
        /\ arena' = o.arena
        /\ others' = Append(others, Region(o.at, size))
        /\ memory' = Forgotten(memory, Units(o.at, size))
        /\ chunks' = chunks /\ arrays' = arrays
  BY DEF OtherPalloc
<1>2. ArrayInv /\ ArrayInv'
  BY OtherPallocKeeps DEF ContentsInv
<1>3. others \in Seq(Extent) /\ \A d \in Live(arrays) : ArrayOK(arrays[d])
  BY <1>2, StateFacts
<1>4. size \in Nat \ {0} /\ size <= PoolSize - PoolHdr
  BY ArrayAssumption, Sizes, PoolSizeAssumption
<1>5. o.at \in Address /\ Region(o.at, size) \in Extent
  <2>1. ArenaOK(arena) /\ chunks \in Nat /\ HeldOK(arena, chunks, HeldBy(others, arrays))
    BY <1>2, StateFacts
  <2> QED
    BY <1>1, <1>4, <2>1, SmallAdds
<1> DEFINE all == Append(others, Region(o.at, size))
<1>6. HeldOK(o.arena, chunks, HeldBy(all, arrays))
  BY <1>1, <1>2 DEF ArrayInv, StateOK
<1>7. Len(others) + 1 \in DOMAIN all /\ all[Len(others) + 1] = Region(o.at, size)
  BY <1>3, <1>5, OneMore
<1> HIDE DEF all
<1>8. ASSUME NEW d \in Live(arrays)
      PROVE  Holds(Forgotten(memory, Units(o.at, size)), arrays[d])
  <2> DEFINE w == arrays[d]
  <2>1. ArrayOK(w) /\ Holds(memory, w) /\ w.nelts \in Nat
    BY <1>3 DEF ArrayOK, Array, ContentsInv, Contents
  <2>2. Disjoint(Region(w.elts, ElemSize * w.nalloc), Region(o.at, size))
    BY <1>6, <1>7, ElementsApart
  <2> HIDE DEF w
  <2>3. size \in Nat /\ size <= size
    BY <1>4
  <2>4. \A k \in Nat : k < w.nelts * ElemSize => Position(w.elts, k) \notin Units(o.at, size)
    BY <1>5, <2>1, <2>2, <2>3, ElementsOutside
  <2>5. Holds(Forgotten(memory, Units(o.at, size)), w)
    BY <2>1, <2>4, ForgottenKeeps, HoldsOutside
  <2> QED
    BY <2>5 DEF w
<1>9. Contents(Forgotten(memory, Units(o.at, size)), arrays)
  BY <1>8 DEF Contents, ContentsInv
<1> QED
  BY <1>1, <1>2, <1>9 DEF ContentsInv

LEMMA Creates ==
  ASSUME ArrayInv, NEW b \in Arrays, NEW n \in InitialSizes, ArrayCreate(b, n)
  PROVE  \/ arrays' = arrays
         \/ \E x \in Array : arrays' = [arrays EXCEPT ![b] = x] /\ x.nelts = 0
<1>1. PICK o \in Small(arena, ArrayRec, TRUE) :
        /\ o.at # NULL
        /\ \E q \in PallocOutcomes(o.arena, n * ElemSize) :
             arrays' = IF q.at = NULL THEN arrays
                       ELSE [arrays EXCEPT ![b] =
                               [at |-> o.at, elts |-> q.at, nelts |-> 0, nalloc |-> n]]
  BY DEF ArrayCreate
<1>2. PICK q \in PallocOutcomes(o.arena, n * ElemSize) :
        arrays' = IF q.at = NULL THEN arrays
                  ELSE [arrays EXCEPT ![b] =
                          [at |-> o.at, elts |-> q.at, nelts |-> 0, nalloc |-> n]]
  BY <1>1
<1> DEFINE x == [at |-> o.at, elts |-> q.at, nelts |-> 0, nalloc |-> n]
<1> DEFINE held == HeldBy(others, arrays)
<1> DEFINE more == Adds(held, <<"structure", b>>, Region(o.at, ArrayRec))
<1>3. n \in Nat \ {0} /\ n * ElemSize \in Nat \ {0}
  BY ArrayAssumption
<1>4. ArenaOK(arena) /\ chunks \in Nat /\ chunks \in 0 .. MaxChunks
      /\ HeldOK(arena, chunks, held)
  BY StateFacts
<1>5. ArenaOK(o.arena) /\ o.at \in Address /\ HeldOK(o.arena, chunks, more)
  BY <1>1, <1>4, Sizes, SmallAdds
<1> HIDE DEF more, held
<1>6. CASE q.at # NULL
  <2>1. q.at \in Address
    BY <1>3, <1>4, <1>5, <1>6, PallocAdds
  <2>2. x \in Array /\ x.nelts = 0
    BY <1>3, <1>5, <2>1 DEF Array, Address
  <2> QED
    BY <1>2, <1>6, <2>2
<1> QED
  BY <1>2, <1>6

LEMMA ArrayCreateHolds ==
  ASSUME ContentsInv, NEW b \in Arrays, NEW n \in InitialSizes, ArrayCreate(b, n)
  PROVE  /\ ContentsInv'
         /\ \/ arrays' = arrays
            \/ \E x \in Array : arrays' = [arrays EXCEPT ![b] = x] /\ x.nelts = 0
<1>1. ArrayInv /\ ArrayInv'
  BY ArrayCreateKeeps DEF ContentsInv
<1>2. memory' = memory
  BY DEF ArrayCreate
<1>3. /\ DOMAIN arrays = Arrays
      /\ \/ arrays' = arrays
         \/ \E x \in Array : arrays' = [arrays EXCEPT ![b] = x] /\ x.nelts = 0
  BY <1>1, Creates, StateFacts
<1>4. CASE arrays' = arrays
  <2>1. Contents(memory', arrays')
    BY <1>2, <1>4 DEF ContentsInv, Contents
  <2> QED
    BY <1>1, <1>4, <2>1 DEF ContentsInv
<1>5. ASSUME NEW x \in Array, arrays' = [arrays EXCEPT ![b] = x], x.nelts = 0
      PROVE  ContentsInv'
  <2>1. /\ arrays'[b] = x
        /\ \A d \in Live(arrays') \ {b} : d \in Live(arrays) /\ arrays'[d] = arrays[d]
    BY <1>3, <1>5 DEF Live
  <2>2. MaxElems \in Nat
    BY ArrayAssumption
  <2>3. x.nelts <= MaxElems /\ Holds(memory, x)
    BY <1>5, <2>2 DEF Holds
  <2>4. Contents(memory, arrays')
    BY <2>1, <2>3 DEF Contents, ContentsInv
  <2> QED
    BY <1>1, <1>2, <2>4 DEF ContentsInv
<1> QED
  BY <1>3, <1>4, <1>5

LEMMA ArrayPushHolds ==
  ASSUME ContentsInv, NEW b \in Arrays, ArrayPush(b)
  PROVE  ContentsInv' /\ Takes(b, 1) /\ b \in Live(arrays) /\ 1 \in 1 .. MaxElems
<1> DEFINE x == arrays[b]
<1>1. b \in Live(arrays) /\ x.nelts < MaxElems
  BY DEF ArrayPush, Live
<1>2. x \in Array /\ x.nelts \in Nat /\ x.nalloc \in Nat \ {0}
      /\ x.nelts <= x.nalloc /\ MaxElems \in Nat /\ ElemSize \in Nat
  BY <1>1, StateFacts, ArrayAssumption DEF ArrayOK, Array, ContentsInv
<1>3. PICK g \in PushOutcomes(x) : Pushed(b, 1, g)
  BY DEF ArrayPush
<1>4. Grown(b, g) /\ Carries(b, g) /\ x.nelts + 1 <= g.array.nalloc
  <2>1. CASE x.nelts = x.nalloc
    <3> DEFINE double == 2 * x.nalloc
    <3> DEFINE copy == ElemSize * x.nalloc
    <3>1. g \in GrowthOutcomes(arrays[b], 1, double, copy)
      BY <1>3, <2>1 DEF PushOutcomes
    <3>2. /\ double \in Nat \ {0} /\ arrays[b].nalloc <= double
          /\ arrays[b].nalloc + 1 <= double /\ 1 \in Nat \ {0}
      BY <1>2
    <3>3. copy \in Nat /\ arrays[b].nelts * ElemSize = copy
          /\ ElemSize * arrays[b].nalloc = copy
      BY <1>2, <2>1
    <3> HIDE DEF double, copy, x
    <3>4. arrays[b].nelts * ElemSize <= copy /\ copy <= ElemSize * arrays[b].nalloc
      BY <3>3
    <3>5. Carries(b, g) /\ Grown(b, g)
          /\ (g.array.nalloc = arrays[b].nalloc + 1 \/ g.array.nalloc = double)
      BY <1>1, <3>1, <3>2, <3>3, <3>4, GrowthCarries
    <3> QED
      BY <1>2, <2>1, <3>2, <3>5 DEF x
  <2>2. CASE x.nelts # x.nalloc
    <3>1. g = Unchanged(x)
      BY <1>3, <2>2 DEF PushOutcomes
    <3>2. Grown(b, g) /\ Carries(b, g) /\ g.array.nalloc = x.nalloc
      BY <1>1, <3>1, UnchangedCarries
    <3> QED
      BY <1>2, <2>2, <3>2
  <2> QED
    BY <2>1, <2>2
<1>5. x.nelts + 1 <= MaxElems /\ 1 \in 1 .. MaxElems
  BY <1>1, <1>2
<1> QED
  BY <1>1, <1>3, <1>4, <1>5, PushedHolds

LEMMA ArrayPushNHolds ==
  ASSUME ContentsInv, NEW b \in Arrays, NEW n \in PushCounts, ArrayPushN(b, n)
  PROVE  ContentsInv' /\ Takes(b, n) /\ b \in Live(arrays) /\ n \in 1 .. MaxElems
<1> DEFINE x == arrays[b]
<1>1. b \in Live(arrays) /\ x.nelts + n <= MaxElems /\ n \in Nat \ {0}
  BY ArrayAssumption DEF ArrayPushN, Live
<1>2. x \in Array /\ x.nelts \in Nat /\ x.nalloc \in Nat \ {0}
      /\ x.nelts <= x.nalloc /\ MaxElems \in Nat /\ ElemSize \in Nat
  BY <1>1, StateFacts, ArrayAssumption DEF ArrayOK, Array, ContentsInv
<1>3. PICK g \in PushNOutcomes(x, n) : Pushed(b, n, g)
  BY DEF ArrayPushN
<1>4. Grown(b, g) /\ Carries(b, g) /\ x.nelts + n <= g.array.nalloc
  <2>1. CASE x.nelts + n > x.nalloc
    <3> DEFINE double == 2 * Larger(n, x.nalloc)
    <3> DEFINE copy == ElemSize * x.nelts
    <3>1. g \in GrowthOutcomes(arrays[b], n, double, copy)
      BY <1>3, <2>1 DEF PushNOutcomes
    <3>2. /\ double \in Nat \ {0} /\ arrays[b].nalloc <= double
          /\ arrays[b].nalloc + n <= double
      BY <1>1, <1>2 DEF Larger
    <3>3. copy \in Nat /\ arrays[b].nelts * ElemSize = copy
          /\ copy <= ElemSize * arrays[b].nalloc
      BY <1>2
    <3> HIDE DEF double, copy, x
    <3>4. arrays[b].nelts * ElemSize <= copy
      BY <3>3
    <3>5. Carries(b, g) /\ Grown(b, g)
          /\ (g.array.nalloc = arrays[b].nalloc + n \/ g.array.nalloc = double)
      BY <1>1, <3>1, <3>2, <3>3, <3>4, GrowthCarries
    <3> QED
      BY <1>1, <1>2, <3>2, <3>5 DEF x
  <2>2. CASE ~ (x.nelts + n > x.nalloc)
    <3>1. g = Unchanged(x)
      BY <1>3, <2>2 DEF PushNOutcomes
    <3>2. Grown(b, g) /\ Carries(b, g) /\ g.array.nalloc = x.nalloc
      BY <1>1, <3>1, UnchangedCarries
    <3> QED
      BY <1>1, <1>2, <2>2, <3>2
  <2> QED
    BY <2>1, <2>2
<1>5. n \in 1 .. MaxElems
  BY <1>1, <1>2
<1> QED
  BY <1>1, <1>3, <1>4, <1>5, PushedHolds

LEMMA ArrayDestroyHolds ==
  ASSUME ContentsInv, NEW b \in Arrays, ArrayDestroy(b)
  PROVE  ContentsInv' /\ arrays' = [arrays EXCEPT ![b] = Absent] /\ b \in Live(arrays)
<1> DEFINE x == arrays[b]
<1> DEFINE room == ElemSize * x.nalloc
<1> DEFINE new == [arrays EXCEPT ![b] = Absent]
<1> DEFINE mem == Forgotten(memory, Units(x.elts, room))
<1>1. b \in Live(arrays) /\ arrays' = new /\ memory' = mem
  BY DEF ArrayDestroy, Live
<1>2. ArrayInv /\ ArrayInv'
  BY ArrayDestroyKeeps DEF ContentsInv
<1>3. /\ \A d \in Live(arrays) : ArrayOK(arrays[d])
      /\ HeldOK(arena, chunks, HeldBy(others, arrays)) /\ DOMAIN arrays = Arrays
  BY <1>2, StateFacts
<1>4. x.elts \in Address /\ room \in Nat
  BY <1>1, <1>3, Sizes DEF ArrayOK, Array, Address
<1>5. \A d \in Live(new) : d # b /\ d \in Live(arrays) /\ new[d] = arrays[d]
  BY <1>3 DEF Live
<1> HIDE DEF new, mem, room
<1>6. ASSUME NEW d \in Live(new)
      PROVE  new[d].nelts <= MaxElems /\ Holds(mem, new[d])
  <2> DEFINE w == new[d]
  <2>1. d \in Live(arrays) /\ d # b /\ w = arrays[d]
    BY <1>5
  <2>2. ArrayOK(w) /\ Holds(memory, w) /\ w.nelts \in Nat /\ w.nelts <= MaxElems
    BY <1>3, <2>1 DEF ArrayOK, Array, ContentsInv, Contents
  <2>3. Disjoint(Region(w.elts, ElemSize * w.nalloc), Region(x.elts, room))
    BY <1>1, <1>3, <2>1, ElementsApart DEF room
  <2> HIDE DEF w, x
  <2>4. \A k \in Nat : k < w.nelts * ElemSize => Position(w.elts, k) \notin Units(x.elts, room)
    BY <1>4, <2>2, <2>3, ElementsOutside
  <2>5. Holds(mem, w)
    BY <2>2, <2>4, ForgottenKeeps, HoldsOutside DEF mem
  <2> QED
    BY <2>2, <2>5 DEF w
<1>7. Contents(mem, new)
  BY <1>6 DEF Contents
<1> QED
  BY <1>1, <1>2, <1>7 DEF ContentsInv, new

-----------------------------------------------------------------------------
(***************************************************************************)
(* What is read back from memory.                                          *)
(***************************************************************************)
Counted(arr) ==
  [a \in Arrays |-> IF arr[a] = Absent THEN Absent ELSE [i \in 1 .. arr[a].nelts |-> i]]

ReadsBack == Items = Counted(arrays)

LEMMA ElementRead ==
  ASSUME ContentsInv, NEW d \in Live(arrays), NEW i \in 1 .. arrays[d].nelts
  PROVE  Element(arrays[d], i) = i
<1> DEFINE x == arrays[d]
<1> DEFINE start == [block |-> x.elts.block, at |-> x.elts.at + (i - 1) * ElemSize]
<1> DEFINE units == Units(start, ElemSize)
<1>1. /\ x.elts \in Address /\ x.elts.at \in Nat /\ x.nelts \in Nat /\ x.nelts <= MaxElems
      /\ ElemSize \in Nat \ {0} /\ MaxElems \in Nat /\ Holds(memory, x)
  BY StateFacts, Sizes, ArrayAssumption DEF ArrayOK, Array, Address, ContentsInv, Contents
<1>2. i - 1 \in 0 .. x.nelts - 1 /\ i \in 1 .. MaxElems /\ (i - 1) * ElemSize \in Nat
      /\ (i - 1) + 1 = i
  BY <1>1
<1>3. start.block = x.elts.block /\ start.at = x.elts.at + (i - 1) * ElemSize
  OBVIOUS
<1>4. Element(x, i) = IF \E v \in 1 .. MaxElems :
                           \A u \in units : u \in DOMAIN memory /\ memory[u] = v
                      THEN memory[start] ELSE Junk
  BY DEF Element
<1>5. \A r \in 0 .. ElemSize - 1 :
        LET u == Position(x.elts, (i - 1) * ElemSize + r)
        IN  u \in DOMAIN memory /\ memory[u] = i
  BY <1>1, <1>2 DEF Holds
<1>6. ASSUME NEW u \in units
      PROVE  u \in DOMAIN memory /\ memory[u] = i
  <2> DEFINE r == u.at - start.at
  <2>1. u.block = x.elts.block /\ u.at \in start.at .. start.at + ElemSize - 1
        /\ u = [block |-> u.block, at |-> u.at]
    BY <1>6 DEF Units
  <2> HIDE DEF start
  <2>2. r \in 0 .. ElemSize - 1 /\ u.at = x.elts.at + ((i - 1) * ElemSize + r)
    BY <1>1, <1>2, <1>3, <2>1
  <2> HIDE DEF r
  <2>3. u = Position(x.elts, (i - 1) * ElemSize + r)
    BY <2>1, <2>2 DEF Position
  <2> QED
    BY <1>5, <2>2, <2>3
<1>7. start \in units
  <2>1. start.at \in start.at .. start.at + ElemSize - 1
    BY <1>1, <1>2
  <2> QED
    BY <2>1 DEF Units
<1> HIDE DEF units, start
<1>8. Element(x, i) = i
  BY <1>2, <1>4, <1>6, <1>7
<1> QED
  BY <1>8

LEMMA ItemsRead == ContentsInv => ReadsBack
<1> SUFFICES ASSUME ContentsInv PROVE ReadsBack
  OBVIOUS
<1>1. ASSUME NEW a \in Arrays, arrays[a] # Absent
      PROVE  [i \in 1 .. arrays[a].nelts |-> Element(arrays[a], i)]
               = [i \in 1 .. arrays[a].nelts |-> i]
  BY <1>1, ElementRead DEF Live
<1> QED
  BY <1>1 DEF ReadsBack, Items, Counted

(***************************************************************************)
(* A step of the model is a step of the contract, or leaves it unchanged.  *)
(***************************************************************************)
LEMMA CountedLength ==
  ASSUME ArrayInv, NEW b \in Live(arrays)
  PROVE  /\ Counted(arrays)[b] = [i \in 1 .. arrays[b].nelts |-> i]
         /\ Counted(arrays)[b] # Absent
         /\ Len(Counted(arrays)[b]) = arrays[b].nelts
         /\ arrays[b].nelts \in Nat
<1>1. arrays[b].nelts \in Nat /\ b \in Arrays /\ arrays[b] # Absent
  BY StateFacts DEF ArrayOK, Array, Live
<1>2. Counted(arrays)[b] = [i \in 1 .. arrays[b].nelts |-> i]
  BY <1>1 DEF Counted
<1>3. [i \in 1 .. arrays[b].nelts |-> i] \in Seq(Nat)
  BY <1>1
<1> QED
  BY <1>1, <1>2, <1>3, AbsentAssumption

LEMMA TakesPushes ==
  ASSUME ContentsInv, ReadsBack, ReadsBack', NEW b \in Live(arrays), NEW n \in 1 .. MaxElems,
         Takes(b, n)
  PROVE  Contract!Push(b, n)
<1>1. PICK z \in Array : arrays' = [arrays EXCEPT ![b] = z] /\ z.nelts = arrays[b].nelts + n
  BY DEF Takes
<1> DEFINE m == arrays[b].nelts
<1> DEFINE old == Counted(arrays)
<1>2. /\ old[b] = [i \in 1 .. m |-> i] /\ old[b] # Absent /\ Len(old[b]) = m /\ m \in Nat
      /\ DOMAIN arrays = Arrays /\ b \in Arrays
  BY CountedLength, StateFacts DEF ContentsInv, Live
<1>3. arrays'[b] = z /\ z # Absent /\ \A a \in Arrays \ {b} : arrays'[a] = arrays[a]
  BY <1>1, <1>2, AbsentAssumption
<1> HIDE DEF m
<1>4. [i \in 1 .. m + n |-> i] = [i \in 1 .. m + n |-> IF i <= m THEN old[b][i] ELSE i]
  <2>1. n \in Nat
    BY ArrayAssumption
  <2>2. \A i \in 1 .. m + n : i <= m => i \in 1 .. m
    BY <1>2, <2>1
  <2> QED
    BY <1>2, <2>2
<1>5. z.nelts = m + n
  BY <1>1 DEF m
<1>6. Counted(arrays') = [a \in Arrays |-> IF a = b THEN [i \in 1 .. m + n |-> i] ELSE old[a]]
  BY <1>3, <1>5 DEF Counted
<1>7. Counted(arrays') = [old EXCEPT ![b] = [i \in 1 .. m + n |-> i]]
  BY <1>2, <1>6 DEF Counted
<1>8. Items = old /\ Items' = Counted(arrays')
  BY DEF ReadsBack
<1> HIDE DEF old
<1>9. Items' = [Items EXCEPT ![b] = [i \in 1 .. Len(Items[b]) + n |->
                                       IF i <= Len(Items[b]) THEN Items[b][i] ELSE i]]
  BY <1>2, <1>4, <1>7, <1>8
<1> QED
  BY <1>2, <1>8, <1>9 DEF Contract!Push

LEMMA CreatesCreate ==
  ASSUME ContentsInv, ReadsBack, ReadsBack', NEW b \in Arrays, arrays[b] = Absent,
         NEW x \in Array, arrays' = [arrays EXCEPT ![b] = x], x.nelts = 0
  PROVE  Contract!Create(b)
<1>1. DOMAIN arrays = Arrays
  BY StateFacts DEF ContentsInv
<1>2. arrays'[b] = x /\ x # Absent /\ \A a \in Arrays \ {b} : arrays'[a] = arrays[a]
  BY <1>1, AbsentAssumption
<1>3. [i \in 1 .. x.nelts |-> i] = << >>
  OBVIOUS
<1>4. Counted(arrays') = [a \in Arrays |-> IF a = b THEN << >> ELSE Counted(arrays)[a]]
  BY <1>2, <1>3 DEF Counted
<1>5. Counted(arrays') = [Counted(arrays) EXCEPT ![b] = << >>] /\ Counted(arrays)[b] = Absent
  BY <1>4 DEF Counted
<1> QED
  BY <1>5 DEF ReadsBack, Contract!Create

LEMMA DestroyDestroys ==
  ASSUME ContentsInv, ReadsBack, ReadsBack', NEW b \in Live(arrays),
         arrays' = [arrays EXCEPT ![b] = Absent]
  PROVE  Contract!Destroy(b)
<1>1. DOMAIN arrays = Arrays /\ b \in Arrays /\ Counted(arrays)[b] # Absent
  BY CountedLength, StateFacts DEF ContentsInv, Live
<1>2. arrays'[b] = Absent /\ \A a \in Arrays \ {b} : arrays'[a] = arrays[a]
  BY <1>1
<1>3. Counted(arrays') = [a \in Arrays |-> IF a = b THEN Absent ELSE Counted(arrays)[a]]
  BY <1>2 DEF Counted
<1>4. Counted(arrays') = [Counted(arrays) EXCEPT ![b] = Absent]
  BY <1>3 DEF Counted
<1> QED
  BY <1>1, <1>4 DEF ReadsBack, Contract!Destroy

LEMMA ContentsStep == ContentsInv /\ [Next]_vars => ContentsInv'
<1> SUFFICES ASSUME ContentsInv, [Next]_vars PROVE ContentsInv'
  OBVIOUS
<1>1. ASSUME NEW size \in OtherSizes, OtherPalloc(size) PROVE ContentsInv'
  BY <1>1, OtherPallocHolds
<1>2. ASSUME NEW a \in Arrays, NEW n \in InitialSizes, ArrayCreate(a, n) PROVE ContentsInv'
  BY <1>2, ArrayCreateHolds
<1>3. ASSUME NEW a \in Arrays, ArrayPush(a) PROVE ContentsInv'
  BY <1>3, ArrayPushHolds
<1>4. ASSUME NEW a \in Arrays, NEW n \in PushCounts, ArrayPushN(a, n) PROVE ContentsInv'
  BY <1>4, ArrayPushNHolds
<1>5. ASSUME NEW a \in Arrays, ArrayDestroy(a) PROVE ContentsInv'
  BY <1>5, ArrayDestroyHolds
<1>6. ASSUME UNCHANGED vars PROVE ContentsInv'
  BY <1>6 DEF vars, ContentsInv, ArrayInv, Contents
<1> QED
  BY <1>1, <1>2, <1>3, <1>4, <1>5, <1>6 DEF Next

LEMMA StepRefines ==
  ContentsInv /\ ReadsBack /\ ReadsBack' /\ [Next]_vars => [Contract!Next]_Items
<1> SUFFICES ASSUME ContentsInv, ReadsBack, ReadsBack', [Next]_vars
             PROVE  Contract!Next \/ Items' = Items
  OBVIOUS
<1> USE DEF Contract!Next
<1>1. ASSUME arrays' = arrays PROVE Items' = Items
  BY <1>1 DEF ReadsBack, Counted
<1>2. ASSUME NEW size \in OtherSizes, OtherPalloc(size) PROVE Items' = Items
  BY <1>1, <1>2, OtherPallocHolds
<1>3. ASSUME NEW a \in Arrays, NEW n \in InitialSizes, ArrayCreate(a, n)
      PROVE  Contract!Next \/ Items' = Items
  <2>1. \/ arrays' = arrays
        \/ \E x \in Array : arrays' = [arrays EXCEPT ![a] = x] /\ x.nelts = 0
    BY <1>3, ArrayCreateHolds
  <2>2. arrays[a] = Absent
    BY <1>3 DEF ArrayCreate
  <2>3. ASSUME NEW x \in Array, arrays' = [arrays EXCEPT ![a] = x], x.nelts = 0
        PROVE  Contract!Create(a)
    BY <2>2, <2>3, CreatesCreate
  <2> QED
    BY <1>1, <2>1, <2>3
<1>4. ASSUME NEW a \in Arrays, ArrayPush(a) PROVE Contract!Next
  <2>1. Takes(a, 1) /\ a \in Live(arrays) /\ 1 \in 1 .. MaxElems
    BY <1>4, ArrayPushHolds
  <2>2. Contract!Push(a, 1)
    BY <2>1, TakesPushes
  <2> QED
    BY <2>1, <2>2
<1>5. ASSUME NEW a \in Arrays, NEW n \in PushCounts, ArrayPushN(a, n) PROVE Contract!Next
  <2>1. Takes(a, n) /\ a \in Live(arrays) /\ n \in 1 .. MaxElems
    BY <1>5, ArrayPushNHolds
  <2>2. Contract!Push(a, n)
    BY <2>1, TakesPushes
  <2> QED
    BY <2>1, <2>2
<1>6. ASSUME NEW a \in Arrays, ArrayDestroy(a) PROVE Contract!Next
  <2>1. arrays' = [arrays EXCEPT ![a] = Absent] /\ a \in Live(arrays)
    BY <1>6, ArrayDestroyHolds
  <2>2. Contract!Destroy(a)
    BY <2>1, DestroyDestroys
  <2> QED
    BY <2>2
<1>7. ASSUME UNCHANGED vars PROVE Items' = Items
  BY <1>1, <1>7 DEF vars
<1> QED
  BY <1>2, <1>3, <1>4, <1>5, <1>6, <1>7 DEF Next

-----------------------------------------------------------------------------
(***************************************************************************)
(* Memory holds the elements of every array in every reachable state.      *)
(***************************************************************************)
THEOREM ContentsInvariant == Spec => []ContentsInv
<1>1. ArrayInv /\ Init => ContentsInv
  BY DEF Init, ContentsInv, Contents, Live
<1> QED
  BY <1>1, ArrayInvariant, ContentsStep, PTL DEF Spec

(***************************************************************************)
(* KeepsItsElements: an array is the sequence of what was pushed on it,    *)
(* through growth in place, moves and the rewinding of other arrays'       *)
(* memory (rap_array.c:32-143).                                            *)
(***************************************************************************)
THEOREM ArraysKeepTheirElements == Spec => KeepsItsElements
<1>1. Init => Contract!Init
  <2> SUFFICES ASSUME Init PROVE Contract!Init
    OBVIOUS
  <2>1. \A a \in Arrays : arrays[a] = Absent
    BY DEF Init
  <2>2. Items = [a \in Arrays |-> Absent]
    BY <2>1 DEF Items
  <2> QED
    BY <2>2 DEF Contract!Init
<1> QED
  BY <1>1, ContentsInvariant, ItemsRead, StepRefines, PTL
  DEF Spec, KeepsItsElements, Contract!Spec
=============================================================================
