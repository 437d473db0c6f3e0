---------------------------- MODULE Pool_proofs ----------------------------
(***************************************************************************)
(* Proofs about Pool for any sizes, alignment, limits, chunks, files and   *)
(* bounds.  What an allocation reserves (SmallReserves) gives PoolInv:     *)
(* types, allocations in bounds and disjoint.  On top of it come the       *)
(* account of the large chunks, the files, the pool's own records and the  *)
(* failure counts.                                                         *)
(***************************************************************************)
EXTENDS Pool, PoolArena_proofs

(***************************************************************************)
(* The regions handed out of an arena, and one more.                       *)
(***************************************************************************)
RegionsOK(a, rs) ==
  /\ rs \in Seq(Region)
  /\ \A k \in 1 .. Len(rs) : InBounds(a, rs[k])
  /\ \A j, k \in 1 .. Len(rs) : j < k => Disjoint(rs[j], rs[k])

LEMMA RegionAdded ==
  ASSUME NEW a, ArenaOK(a), NEW rs, RegionsOK(a, rs),
         NEW o, NEW size \in Nat, Reserves(a, o, size), NEW use \in Uses
  PROVE  RegionsOK(o.arena, Append(rs, RegionAt(o.at, size, use)))
<1> DEFINE r == RegionAt(o.at, size, use)
<1> DEFINE n == Len(rs)
<1>1. n \in Nat /\ Len(a.last) \in Nat /\ Len(o.arena.last) \in Nat
  BY LenProperties DEF RegionsOK, Reserves, ArenaOK, ArenaTyped, Arena
<1>2. o.at.block \in Nat /\ o.at.at \in Nat
  BY DEF Reserves, Address
<1>3. r \in Region /\ r.block = o.at.block /\ r.from = o.at.at /\ r.to = o.at.at + size
  BY <1>2 DEF Region, RegionAt
<1> HIDE DEF r
<1>4. /\ Append(rs, r) \in Seq(Region) /\ Len(Append(rs, r)) = n + 1
      /\ \A k \in 1 .. n + 1 : Append(rs, r)[k] = IF k = n + 1 THEN r ELSE rs[k]
  BY <1>3, AppendProperties DEF RegionsOK
<1>5. InBounds(o.arena, r)
  BY <1>2, <1>3 DEF InBounds, Reserves
<1>6. \A k \in 1 .. n : rs[k] \in Region
  BY ElementOfSeq DEF RegionsOK
<1>7. ASSUME NEW k \in 1 .. n
      PROVE  InBounds(o.arena, rs[k]) /\ Disjoint(rs[k], r)
  <2> DEFINE q == rs[k]
  <2>1. q.block \in Nat /\ q.from \in Nat /\ q.to \in Nat
    BY <1>6 DEF Region
  <2>2. InBounds(a, q)
    BY DEF RegionsOK
  <2> HIDE DEF q
  <2>3. q.block \in 1 .. Len(a.last) /\ q.to <= a.last[q.block] /\ q.from <= q.to
    BY <2>2 DEF InBounds
  <2>4. a.last[q.block] \in Nat /\ o.arena.last[q.block] \in Nat
    <3>1. q.block \in 1 .. Len(o.arena.last) /\ ArenaOK(o.arena)
      BY <2>3, <1>1 DEF Reserves
    <3>2. a.last[q.block] \in Nat
      BY <2>3, BlockFacts
    <3>3. o.arena.last[q.block] \in Nat
      BY <3>1, BlockFacts
    <3> QED
      BY <3>2, <3>3
  <2>5. /\ a.last[q.block] <= o.arena.last[q.block]
        /\ q.block = r.block => a.last[q.block] <= r.from
    <3>1. \A b \in 1 .. Len(a.last) :
            a.last[b] <= o.arena.last[b] /\ (b = o.at.block => a.last[b] <= o.at.at)
      BY DEF Reserves
    <3> QED
      BY <3>1, <2>3, <1>3
  <2>6. InBounds(o.arena, q)
    <3>1. q.to <= o.arena.last[q.block]
      BY <2>1, <2>3, <2>4, <2>5
    <3>2. q.block \in 1 .. Len(o.arena.last)
      BY <2>3, <1>1 DEF Reserves
    <3> QED
      BY <3>1, <3>2, <2>2 DEF InBounds
  <2>7. Disjoint(q, r)
    BY <2>1, <2>3, <2>4, <2>5, <1>2, <1>3 DEF Disjoint
  <2> QED
    BY <2>6, <2>7 DEF q
<1>8. \A k \in 1 .. n + 1 : InBounds(o.arena, Append(rs, r)[k])
  BY <1>1, <1>4, <1>5, <1>7
<1>9. \A j, k \in 1 .. n + 1 :
        j < k => Disjoint(Append(rs, r)[j], Append(rs, r)[k])
  <2> SUFFICES ASSUME NEW j \in 1 .. n + 1, NEW k \in 1 .. n + 1, j < k
               PROVE  Disjoint(Append(rs, r)[j], Append(rs, r)[k])
    OBVIOUS
  <2>1. j \in 1 .. n /\ Append(rs, r)[j] = rs[j]
    BY <1>1, <1>4
  <2>2. CASE k = n + 1
    BY <2>1, <2>2, <1>4, <1>7
  <2>3. CASE k # n + 1
    <3>1. k \in 1 .. n /\ Append(rs, r)[k] = rs[k]
      BY <2>3, <1>1, <1>4
    <3> QED
      BY <2>1, <3>1 DEF RegionsOK
  <2> QED
    BY <2>2, <2>3
<1>10. RegionsOK(o.arena, Append(rs, r))
  BY <1>4, <1>8, <1>9 DEF RegionsOK
<1> QED
  BY <1>10 DEF r

-----------------------------------------------------------------------------
(***************************************************************************)
(* The inductive invariant: before the pool is created nothing is handed   *)
(* out, or the new arena would lie under it.                               *)
(***************************************************************************)
NothingYet == state = "none" => regions = << >>

PoolInv ==
  /\ TypeOK
  /\ AllocationsInBounds
  /\ AllocationsDisjoint
  /\ NothingYet

LEMMA InvParts ==
  PoolInv <=> TypeOK /\ ArenaOK(arena) /\ RegionsOK(arena, regions) /\ NothingYet
BY DEF PoolInv, TypeOK, AllocationsInBounds, AllocationsDisjoint, ArenaOK, RegionsOK

(***************************************************************************)
(* Nothing is handed out of a fresh arena or of a reset one, and a reset   *)
(* one is well formed (rap_palloc.c:26-36,105-110).                        *)
(***************************************************************************)
LEMMA NothingHandedOut == \A a : RegionsOK(a, << >>)
BY DEF RegionsOK

LEMMA ResetArenaOK ==
  ASSUME NEW a, ArenaOK(a)
  PROVE  ArenaOK(ResetArena(a))
<1> DEFINE last == [i \in DOMAIN a.last |-> PoolHdr]
<1> DEFINE failed == [i \in DOMAIN a.failed |-> 0]
<1>1. /\ a.last \in Seq(0 .. PoolSize) /\ a.failed \in Seq(Nat)
      /\ Len(a.last) = Len(a.failed) /\ Len(a.last) <= MaxBlocks
      /\ a.current \in 1 .. Len(a.last)
  BY DEF ArenaOK, ArenaTyped, Arena
<1>2. /\ DOMAIN a.last = 1 .. Len(a.last) /\ DOMAIN a.failed = 1 .. Len(a.last)
      /\ Len(a.last) \in Nat
  BY <1>1, LenProperties
<1>3. PoolHdr \in 0 .. PoolSize
  BY PoolSizeAssumption
<1>4. last \in Seq(0 .. PoolSize) /\ Len(last) = Len(a.last)
  <2>1. last \in [1 .. Len(a.last) -> 0 .. PoolSize]
    BY <1>2, <1>3
  <2> QED
    BY <2>1, <1>2, SeqDef
<1>5. failed \in Seq(Nat) /\ Len(failed) = Len(a.last)
  <2>1. failed \in [1 .. Len(a.last) -> Nat]
    BY <1>2
  <2> QED
    BY <2>1, <1>2, SeqDef
<1>6. \A b \in 1 .. Len(a.last) : last[b] = PoolHdr
  BY <1>2
<1>7. ResetArena(a) = [last |-> last, failed |-> failed, current |-> 1]
  BY DEF ResetArena
<1> HIDE DEF last, failed
<1>8. ArenaTyped(ResetArena(a))
  BY <1>1, <1>2, <1>4, <1>5, <1>7 DEF ArenaTyped, Arena
<1>9. BlocksInBounds(ResetArena(a))
  BY <1>3, <1>4, <1>6, <1>7, PoolSizeAssumption DEF BlocksInBounds, Header
<1> QED
  BY <1>8, <1>9 DEF ArenaOK

(***************************************************************************)
(* The records of the pool and what callers get from the arena fit a block.*)
(***************************************************************************)
LEMMA SizesFit ==
  /\ LargeRec \in Nat /\ LargeRec <= PoolSize - PoolHdr
  /\ CleanupRec \in Nat /\ CleanupRec <= PoolSize - PoolHdr
  /\ FileRec \in Nat /\ FileRec <= PoolSize - PoolHdr
  /\ \A size \in Sizes : size \in Nat /\ (size <= PoolMax => size <= PoolSize - PoolHdr)
BY PoolSizeAssumption, CallAssumption, LimitsAssumption DEF PoolMax

(***************************************************************************)
(* What every call of the pool may rely on.                                *)
(***************************************************************************)
LEMMA InvAllocates ==
  ASSUME PoolInv, NEW size \in Nat, size <= PoolSize - PoolHdr, NEW align \in BOOLEAN,
         NEW use \in Uses, NEW o \in Small(arena, size, align), o.at # NULL
  PROVE  /\ ArenaOK(o.arena)
         /\ o.at \in Address
         /\ RegionsOK(o.arena, Append(regions, RegionAt(o.at, size, use)))
<1>1. ArenaOK(arena) /\ RegionsOK(arena, regions)
  BY InvParts
<1>2. Reserves(arena, o, size)
  BY <1>1, SmallReserves
<1> QED
  BY <1>1, <1>2, RegionAdded DEF Reserves

(***************************************************************************)
(* Adding to the front of a list and replacing one of its entries.         *)
(***************************************************************************)
LEMMA FrontTyped ==
  ASSUME NEW S, NEW q \in Seq(S), NEW x \in S
  PROVE  << x >> \o q \in Seq(S)
<1>1. << x >> \in Seq(S)
  OBVIOUS
<1> QED
  BY <1>1, ConcatProperties

LEMMA EntryTyped ==
  ASSUME NEW S, NEW q \in Seq(S), NEW i \in DOMAIN q, NEW x \in S
  PROVE  [q EXCEPT ![i] = x] \in Seq(S)
<1>1. i \in 1 .. Len(q)
  BY LenProperties
<1> QED
  BY <1>1, ExceptSeq

(***************************************************************************)
(* Both ways to add a large chunk keep the invariant                       *)
(* (rap_palloc.c:206-267).                                                 *)
(***************************************************************************)
LEMMA AddLargeKeeps ==
  ASSUME PoolInv, NEW c \in Chunks, AddLarge(c)
  PROVE  /\ ArenaOK(arena') /\ RegionsOK(arena', regions')
         /\ large' \in Seq(LargeEntry) /\ heap' \in SUBSET Chunks
<1>1. /\ ArenaOK(arena) /\ RegionsOK(arena, regions)
      /\ large \in Seq(LargeEntry) /\ heap \in SUBSET Chunks
  BY InvParts DEF TypeOK
<1>2. PICK o \in Small(arena, LargeRec, TRUE) :
        /\ arena' = o.arena
        /\ IF o.at = NULL
           THEN UNCHANGED <<large, heap, regions>>
           ELSE /\ large' = << [record |-> o.at, alloc |-> c] >> \o large
                /\ heap' = heap \cup {c}
                /\ regions' = Append(regions, RegionAt(o.at, LargeRec, "large"))
  BY DEF AddLarge
<1>3. CASE o.at = NULL
  <2>1. o.arena = arena
    BY <1>1, <1>3, SizesFit, SmallReserves
  <2> QED
    BY <2>1, <1>1, <1>2, <1>3
<1>4. CASE o.at # NULL
  <2>1. /\ ArenaOK(o.arena) /\ o.at \in Address
        /\ RegionsOK(o.arena, Append(regions, RegionAt(o.at, LargeRec, "large")))
    BY <1>4, SizesFit, InvAllocates DEF Uses
  <2>2. [record |-> o.at, alloc |-> c] \in LargeEntry
    BY <2>1 DEF LargeEntry
  <2>3. large' \in Seq(LargeEntry)
    BY <1>1, <1>2, <1>4, <2>2, FrontTyped
  <2> QED
    BY <1>1, <1>2, <1>4, <2>1, <2>3
<1> QED
  BY <1>3, <1>4

(***************************************************************************)
(* Every action keeps the invariant.                                       *)
(***************************************************************************)
LEMMA AllocateSmallKeeps ==
  ASSUME PoolInv, NEW size \in Sizes, NEW align \in BOOLEAN, AllocateSmall(size, align)
  PROVE  PoolInv'
<1>1. PICK o \in Small(arena, size, align) :
        /\ o.at # NULL
        /\ arena' = o.arena
        /\ regions' = Append(regions, RegionAt(o.at, size, "user"))
  BY DEF AllocateSmall
<1>2. size \in Nat /\ size <= PoolSize - PoolHdr
  BY SizesFit DEF AllocateSmall
<1>3. ArenaOK(arena') /\ RegionsOK(arena', regions')
  BY <1>1, <1>2, InvAllocates DEF Uses
<1>4. UNCHANGED <<state, large, cleanup, heap, openFiles, badClose, exposed>> /\ state = "live"
  BY DEF AllocateSmall, Allocates
<1> QED
  BY <1>3, <1>4 DEF PoolInv, TypeOK, AllocationsInBounds, AllocationsDisjoint, ArenaOK,
     RegionsOK, NothingYet

LEMMA PallocLargeKeeps ==
  ASSUME PoolInv, PallocLarge \/ Pmemalign
  PROVE  PoolInv'
<1>1. /\ UNCHANGED <<state, cleanup, openFiles, badClose, exposed>> /\ state = "live"
      /\ \E c \in Chunks : AddLarge(c) \/ ReuseSlot(c)
  BY DEF PallocLarge, Pmemalign, Allocates
<1>2. PICK c \in Chunks : AddLarge(c) \/ ReuseSlot(c)
  BY <1>1
<1>3. CASE AddLarge(c)
  BY <1>1, <1>3, AddLargeKeeps
     DEF PoolInv, TypeOK, AllocationsInBounds, AllocationsDisjoint, ArenaOK, RegionsOK,
         NothingYet
<1>4. CASE ReuseSlot(c)
  <2>1. PICK i \in FreeSlots :
          /\ large' = [large EXCEPT ![i] = [record |-> large[i].record, alloc |-> c]]
          /\ heap' = heap \cup {c}
          /\ UNCHANGED <<arena, regions>>
    BY <1>4 DEF ReuseSlot
  <2>2. large \in Seq(LargeEntry) /\ i \in DOMAIN large
    BY DEF FreeSlots, PoolInv, TypeOK
  <2>3. large[i] \in LargeEntry
    BY <2>2, LenProperties
  <2>4. [record |-> large[i].record, alloc |-> c] \in LargeEntry
    BY <2>3 DEF LargeEntry
  <2>5. large' \in Seq(LargeEntry)
    BY <2>1, <2>2, <2>4, EntryTyped
  <2>6. heap' \in SUBSET Chunks
    BY <2>1 DEF PoolInv, TypeOK
  <2> QED
    BY <1>1, <2>1, <2>5, <2>6
       DEF PoolInv, TypeOK, AllocationsInBounds, AllocationsDisjoint, NothingYet
<1> QED
  BY <1>2, <1>3, <1>4

LEMMA PfreeKeeps ==
  ASSUME PoolInv, NEW c \in Chunks, Pfree(c)
  PROVE  PoolInv'
<1>1. PICK i \in DOMAIN large :
        large' = [large EXCEPT ![i] = [record |-> large[i].record, alloc |-> NULL]]
  BY DEF Pfree
<1>2. large \in Seq(LargeEntry)
  BY DEF PoolInv, TypeOK
<1>3. large[i] \in LargeEntry
  BY <1>2, LenProperties
<1>4. [record |-> large[i].record, alloc |-> NULL] \in LargeEntry
  BY <1>3 DEF LargeEntry
<1>5. large' \in Seq(LargeEntry)
  BY <1>1, <1>2, <1>4, EntryTyped
<1>6. heap' \in SUBSET Chunks
  BY DEF Pfree, PoolInv, TypeOK
<1> QED
  BY <1>5, <1>6 DEF Pfree, PoolInv, TypeOK, AllocationsInBounds, AllocationsDisjoint, NothingYet

LEMMA ResetPoolKeeps ==
  ASSUME PoolInv, ResetPool
  PROVE  PoolInv'
<1>1. ArenaOK(arena) /\ TypeOK
  BY InvParts
<1>2. ArenaOK(arena') /\ RegionsOK(arena', regions')
  BY <1>1, ResetArenaOK, NewArenaOK, NothingHandedOut DEF ResetPool
<1>3. large' \in Seq(LargeEntry) /\ heap' \in SUBSET Chunks
  BY <1>1 DEF ResetPool, TypeOK
<1>4. exposed' \in BOOLEAN
  BY DEF ResetPool
<1>5. UNCHANGED <<state, cleanup, openFiles, badClose>> /\ regions' = << >>
  BY DEF ResetPool
<1> QED
  BY <1>1, <1>2, <1>3, <1>4, <1>5
     DEF PoolInv, TypeOK, AllocationsInBounds, AllocationsDisjoint, ArenaOK, RegionsOK, NothingYet

LEMMA CleanupAddKeeps ==
  ASSUME PoolInv, NEW f \in Files, NEW handler \in {"close", "delete"},
         CleanupAdd(f, handler)
  PROVE  PoolInv'
<1>1. ArenaOK(arena) /\ RegionsOK(arena, regions) /\ TypeOK
  BY InvParts
<1>2. PICK o \in Small(arena, CleanupRec, TRUE) :
         /\ o.at # NULL
         /\ \E q \in Small(o.arena, FileRec, TRUE) :
             /\ arena' = q.arena
             /\ IF q.at = NULL
                THEN /\ regions' = Append(regions, RegionAt(o.at, CleanupRec, "user"))
                     /\ UNCHANGED <<cleanup, openFiles>>
                ELSE /\ regions' = Append(Append(regions, RegionAt(o.at, CleanupRec, "cleanup")),
                                           RegionAt(q.at, FileRec, "file"))
                     /\ cleanup' = << [record |-> o.at, handler |-> handler, file |-> f] >>
                                     \o cleanup
                     /\ openFiles' = openFiles \cup {f}
  BY DEF CleanupAdd
<1>3. PICK q \in Small(o.arena, FileRec, TRUE) :
        /\ arena' = q.arena
        /\ IF q.at = NULL
           THEN /\ regions' = Append(regions, RegionAt(o.at, CleanupRec, "user"))
                /\ UNCHANGED <<cleanup, openFiles>>
           ELSE /\ regions' = Append(Append(regions, RegionAt(o.at, CleanupRec, "cleanup")),
                                      RegionAt(q.at, FileRec, "file"))
                /\ cleanup' = << [record |-> o.at, handler |-> handler, file |-> f] >>
                                \o cleanup
                /\ openFiles' = openFiles \cup {f}
  BY <1>2
<1>4. UNCHANGED <<state, large, heap, badClose, exposed>> /\ state = "live"
  BY DEF CleanupAdd, Allocates
<1>5. /\ ArenaOK(o.arena) /\ o.at \in Address
      /\ \A use \in Uses :
           RegionsOK(o.arena, Append(regions, RegionAt(o.at, CleanupRec, use)))
  <2>1. /\ CleanupRec \in Nat /\ CleanupRec <= PoolSize - PoolHdr
        /\ o \in Small(arena, CleanupRec, TRUE) /\ o.at # NULL
    BY <1>2, SizesFit
  <2>2. Reserves(arena, o, CleanupRec)
    BY <2>1, <1>1, SmallReserves
  <2> QED
    BY <2>1, <2>2, <1>1, RegionAdded DEF Reserves
<1>6. CASE q.at = NULL
  <2>1. q.arena = o.arena
    BY <1>5, <1>6, SizesFit, SmallReserves
  <2>2. ArenaOK(arena') /\ RegionsOK(arena', regions')
    BY <2>1, <1>3, <1>5, <1>6 DEF Uses
  <2>3. UNCHANGED <<cleanup, openFiles>>
    BY <1>3, <1>6
  <2> QED
    BY <2>2, <2>3, <1>1, <1>4
       DEF PoolInv, TypeOK, AllocationsInBounds, AllocationsDisjoint, ArenaOK, RegionsOK,
           NothingYet
<1>7. CASE q.at # NULL
  <2>1. Reserves(o.arena, q, FileRec)
    BY <1>5, <1>7, SizesFit, SmallReserves
  <2>2. RegionsOK(o.arena, Append(regions, RegionAt(o.at, CleanupRec, "cleanup")))
    BY <1>5 DEF Uses
  <2>3. ArenaOK(arena') /\ RegionsOK(arena', regions')
    BY <2>1, <2>2, <1>3, <1>5, <1>7, SizesFit, RegionAdded DEF Uses, Reserves
  <2>4. [record |-> o.at, handler |-> handler, file |-> f] \in CleanupEntry
    BY <1>5 DEF CleanupEntry
  <2>5. cleanup' \in Seq(CleanupEntry)
    BY <2>4, <1>1, <1>3, <1>7, FrontTyped DEF TypeOK
  <2>6. openFiles' \in SUBSET Files
    BY <1>1, <1>3, <1>7 DEF TypeOK
  <2> QED
    BY <2>3, <2>5, <2>6, <1>1, <1>4
       DEF PoolInv, TypeOK, AllocationsInBounds, AllocationsDisjoint, ArenaOK, RegionsOK,
           NothingYet
<1> QED
  BY <1>6, <1>7

LEMMA RunCleanupFileKeeps ==
  ASSUME PoolInv, NEW f \in Files, RunCleanupFile(f)
  PROVE  PoolInv'
<1>1. PICK i \in Closes(f) :
        cleanup' = [cleanup EXCEPT ![i] =
                      [record |-> cleanup[i].record, handler |-> "none", file |-> f]]
  BY DEF RunCleanupFile
<1>2. cleanup \in Seq(CleanupEntry) /\ i \in DOMAIN cleanup
  BY DEF Closes, PoolInv, TypeOK
<1>3. cleanup[i] \in CleanupEntry
  BY <1>2, LenProperties
<1>4. [record |-> cleanup[i].record, handler |-> "none", file |-> f] \in CleanupEntry
  BY <1>3 DEF CleanupEntry
<1>5. cleanup' \in Seq(CleanupEntry)
  BY <1>1, <1>2, <1>4, EntryTyped
<1>6. openFiles' \in SUBSET Files /\ badClose' \in BOOLEAN
  BY DEF RunCleanupFile, PoolInv, TypeOK
<1> QED
  BY <1>5, <1>6
     DEF RunCleanupFile, PoolInv, TypeOK, AllocationsInBounds, AllocationsDisjoint, NothingYet

LEMMA DestroyPoolKeeps ==
  ASSUME PoolInv, DestroyPool
  PROVE  PoolInv'
<1>1. ArenaOK(arena') /\ RegionsOK(arena', regions')
  BY NewArenaOK, NothingHandedOut DEF DestroyPool
<1>2. /\ state' = "destroyed" /\ cleanup' = << >> /\ large' = << >> /\ UNCHANGED exposed
      /\ regions' = << >>
  BY DEF DestroyPool
<1>3. heap' \in SUBSET Chunks /\ openFiles' \in SUBSET Files /\ badClose' \in BOOLEAN
  BY DEF DestroyPool, PoolInv, TypeOK
<1> QED
  BY <1>1, <1>2, <1>3
     DEF PoolInv, TypeOK, AllocationsInBounds, AllocationsDisjoint, ArenaOK, RegionsOK, NothingYet

LEMMA CreatePoolKeeps ==
  ASSUME PoolInv, CreatePool
  PROVE  PoolInv'
<1>1. regions' = << >>
  BY DEF CreatePool, PoolInv, NothingYet
<1>2. ArenaOK(arena') /\ RegionsOK(arena', regions')
  BY <1>1, NewArenaOK, NothingHandedOut DEF CreatePool
<1> QED
  BY <1>1, <1>2
     DEF CreatePool, PoolInv, TypeOK, AllocationsInBounds, AllocationsDisjoint, ArenaOK,
         RegionsOK, NothingYet

(***************************************************************************)
(* PoolInv holds in every reachable state of every pool.                   *)
(***************************************************************************)
THEOREM PoolInvariant == Spec => []PoolInv
<1>1. Init => PoolInv
  <2> SUFFICES ASSUME Init PROVE PoolInv
    OBVIOUS
  <2>1. ArenaOK(arena) /\ RegionsOK(arena, regions)
    BY NewArenaOK, NothingHandedOut DEF Init
  <2>2. TypeOK
    <3>1. /\ large \in Seq(LargeEntry) /\ cleanup \in Seq(CleanupEntry)
          /\ heap \in SUBSET Chunks /\ openFiles \in SUBSET Files
      BY DEF Init
    <3>2. state = "none" /\ badClose = FALSE /\ exposed = FALSE
      BY DEF Init
    <3> QED
      BY <3>1, <3>2, <2>1 DEF TypeOK, ArenaOK, RegionsOK
  <2> QED
    BY <2>1, <2>2, InvParts DEF Init, NothingYet
<1>2. PoolInv /\ [Next]_vars => PoolInv'
  <2> SUFFICES ASSUME PoolInv, [Next]_vars PROVE PoolInv'
    OBVIOUS
  <2>1. CASE CreatePool
    BY <2>1, CreatePoolKeeps
  <2>2. ASSUME NEW size \in Sizes, Palloc(size) \/ Pnalloc(size) PROVE PoolInv'
    BY <2>2, AllocateSmallKeeps DEF Palloc, Pnalloc
  <2>3. CASE PallocLarge \/ Pmemalign
    BY <2>3, PallocLargeKeeps
  <2>4. ASSUME NEW c \in Chunks, Pfree(c) PROVE PoolInv'
    BY <2>4, PfreeKeeps
  <2>5. CASE ResetPool
    BY <2>5, ResetPoolKeeps
  <2>6. ASSUME NEW f \in Files, NEW handler \in {"close", "delete"}, CleanupAdd(f, handler)
        PROVE  PoolInv'
    BY <2>6, CleanupAddKeeps
  <2>7. ASSUME NEW f \in Files, RunCleanupFile(f) PROVE PoolInv'
    BY <2>7, RunCleanupFileKeeps
  <2>8. CASE DestroyPool
    BY <2>8, DestroyPoolKeeps
  <2>9. CASE UNCHANGED vars
    BY <2>9 DEF vars, PoolInv, TypeOK, AllocationsInBounds, AllocationsDisjoint, NothingYet
  <2> QED
    BY <2>1, <2>2, <2>3, <2>4, <2>5, <2>6, <2>7, <2>8, <2>9 DEF Next
<1> QED
  BY <1>1, <1>2, PTL DEF Spec

(***************************************************************************)
(* Every reachable state has the declared types.                           *)
(***************************************************************************)
THEOREM PoolTypeCorrectness == Spec => []TypeOK
<1>1. PoolInv => TypeOK
  BY DEF PoolInv
<1> QED
  BY <1>1, PoolInvariant, PTL

(***************************************************************************)
(* Memory handed out lies inside its block and behind the block's header,  *)
(* and no block is filled past its end: the unsigned comparison of         *)
(* rap_palloc.c:156 is never given a start past the end of a block.        *)
(***************************************************************************)
THEOREM PoolAllocatesInBounds == Spec => []AllocationsInBounds
<1>1. PoolInv => AllocationsInBounds
  BY DEF PoolInv
<1> QED
  BY <1>1, PoolInvariant, PTL

(***************************************************************************)
(* No byte of the arena is handed out twice between two resets.            *)
(***************************************************************************)
THEOREM PoolAllocatesDisjoint == Spec => []AllocationsDisjoint
<1>1. PoolInv => AllocationsDisjoint
  BY DEF PoolInv
<1> QED
  BY <1>1, PoolInvariant, PTL

-----------------------------------------------------------------------------
(***************************************************************************)
(* The account of the large chunks.  A list with one more entry in front:  *)
(***************************************************************************)
LEMMA FrontEntries ==
  ASSUME NEW S, NEW q \in Seq(S), NEW x \in S
  PROVE  /\ Len(<< x >> \o q) = Len(q) + 1
         /\ (<< x >> \o q)[1] = x
         /\ \A k \in 1 .. Len(q) : (<< x >> \o q)[k + 1] = q[k]
         /\ DOMAIN (<< x >> \o q) = 1 .. Len(q) + 1
<1>1. << x >> \in Seq(S) /\ Len(<< x >>) = 1 /\ << x >>[1] = x
  OBVIOUS
<1>2. Len(q) \in Nat
  BY LenProperties
<1>3. << x >> \o q \in Seq(S) /\ Len(<< x >> \o q) = Len(q) + 1
  BY <1>1, <1>2, ConcatProperties
<1>4. \A k \in 1 .. 1 + Len(q) :
        (<< x >> \o q)[k] = IF k <= 1 THEN << x >>[k] ELSE q[k - 1]
  BY <1>1, ConcatProperties
<1>5. (<< x >> \o q)[1] = x
  BY <1>1, <1>2, <1>4
<1>6. \A k \in 1 .. Len(q) : (<< x >> \o q)[k + 1] = q[k]
  <2> SUFFICES ASSUME NEW k \in 1 .. Len(q) PROVE (<< x >> \o q)[k + 1] = q[k]
    OBVIOUS
  <2>1. k + 1 \in 1 .. 1 + Len(q) /\ ~ (k + 1 <= 1) /\ (k + 1) - 1 = k
    BY <1>2
  <2> QED
    BY <2>1, <1>4
<1> QED
  BY <1>3, <1>5, <1>6, LenProperties

(***************************************************************************)
(* A chunk that is not in the heap goes to the front of the list or to a   *)
(* free slot of it.                                                        *)
(***************************************************************************)
LEMMA LargeAdded ==
  ASSUME PoolInv, LargeListExact, NEW c \in Chunks \ heap, AddLarge(c) \/ ReuseSlot(c)
  PROVE  LargeListExact'
<1>1. large \in Seq(LargeEntry) /\ DOMAIN large = 1 .. Len(large) /\ Len(large) \in Nat
  BY LenProperties DEF PoolInv, TypeOK
<1>2. heap = Allocated /\ c # NULL /\ c \notin Allocated
  BY CallAssumption DEF LargeListExact
<1>3. CASE UNCHANGED <<large, heap>>
  BY <1>3 DEF LargeListExact, Allocated
<1>4. CASE AddLarge(c) /\ ~ UNCHANGED <<large, heap>>
  <2>1. PICK o \in Small(arena, LargeRec, TRUE) :
          /\ o.at # NULL
          /\ large' = << [record |-> o.at, alloc |-> c] >> \o large
          /\ heap' = heap \cup {c}
    BY <1>4 DEF AddLarge
  <2>2. o.at \in Address
    BY <2>1, SizesFit, InvAllocates DEF Uses
  <2> DEFINE x == [record |-> o.at, alloc |-> c]
  <2>3. x \in LargeEntry /\ x.alloc = c
    BY <2>2 DEF LargeEntry
  <2> HIDE DEF x
  <2>4. /\ DOMAIN large' = 1 .. Len(large) + 1 /\ large'[1] = x
        /\ \A k \in 1 .. Len(large) : large'[k + 1] = large[k]
    BY <2>1, <2>3, <1>1, FrontEntries DEF x
  <2>5. \A k \in DOMAIN large' : k = 1 \/ (k - 1 \in 1 .. Len(large) /\ large'[k] = large[k - 1])
    <3> SUFFICES ASSUME NEW k \in 1 .. Len(large) + 1, k # 1
                 PROVE  k - 1 \in 1 .. Len(large) /\ large'[k] = large[k - 1]
      BY <2>4
    <3>1. k - 1 \in 1 .. Len(large) /\ (k - 1) + 1 = k
      BY <1>1
    <3> QED
      BY <3>1, <2>4
  <2>6. Allocated' = Allocated \cup {c}
    <3>1. 1 \in DOMAIN large' /\ \A k \in 1 .. Len(large) : k + 1 \in DOMAIN large'
      BY <2>4, <1>1
    <3>2. {large'[i].alloc : i \in DOMAIN large'} = {large[i].alloc : i \in DOMAIN large} \cup {c}
      BY <3>1, <2>3, <2>4, <2>5, <1>1
    <3> QED
      BY <3>2, <1>2 DEF Allocated
  <2>7. \A i, j \in DOMAIN large' :
          i < j /\ large'[i].alloc = large'[j].alloc => large'[i].alloc = NULL
    <3> SUFFICES ASSUME NEW i \in DOMAIN large', NEW j \in DOMAIN large', i < j,
                        large'[i].alloc = large'[j].alloc
                 PROVE  large'[i].alloc = NULL
      OBVIOUS
    <3>1. j # 1 /\ j - 1 \in DOMAIN large /\ large'[j] = large[j - 1]
      BY <2>4, <2>5, <1>1
    <3>2. CASE i = 1
      <4>1. large[j - 1].alloc = c
        BY <3>1, <3>2, <2>3, <2>4
      <4> QED
        BY <4>1, <3>1, <1>2 DEF Allocated
    <3>3. CASE i # 1
      <4>1. i - 1 \in DOMAIN large /\ large'[i] = large[i - 1] /\ i - 1 < j - 1
        BY <3>1, <3>3, <2>4, <2>5, <1>1
      <4> QED
        BY <4>1, <3>1 DEF LargeListExact
    <3> QED
      BY <3>2, <3>3
  <2> QED
    BY <2>1, <2>6, <2>7, <1>2 DEF LargeListExact
<1>5. CASE ReuseSlot(c)
  <2>1. PICK s \in FreeSlots :
          /\ large' = [large EXCEPT ![s] = [record |-> large[s].record, alloc |-> c]]
          /\ heap' = heap \cup {c}
    BY <1>5 DEF ReuseSlot
  <2>2. s \in DOMAIN large /\ large[s].alloc = NULL
    BY DEF FreeSlots
  <2>3. /\ DOMAIN large' = DOMAIN large /\ large'[s].alloc = c
        /\ \A k \in DOMAIN large : k # s => large'[k] = large[k]
    BY <2>1, <2>2, <1>1
  <2>4. Allocated' = Allocated \cup {c}
    BY <2>2, <2>3, <1>2 DEF Allocated
  <2>5. ASSUME NEW i \in DOMAIN large', NEW j \in DOMAIN large', i < j,
               large'[i].alloc = large'[j].alloc
        PROVE  large'[i].alloc = NULL
    <3>1. i # j
      BY <2>5, <2>3, <1>1
    <3>2. CASE i = s
      BY <3>1, <3>2, <2>3, <2>5, <1>2 DEF Allocated
    <3>3. CASE j = s
      BY <3>1, <3>3, <2>3, <2>5, <1>2 DEF Allocated
    <3>4. CASE i # s /\ j # s
      BY <3>4, <2>3, <2>5 DEF LargeListExact
    <3> QED
      BY <3>2, <3>3, <3>4
  <2> QED
    BY <2>1, <2>4, <2>5, <1>2 DEF LargeListExact
<1> QED
  BY <1>3, <1>4, <1>5

(***************************************************************************)
(* The chunk that is freed is listed once.                                 *)
(***************************************************************************)
LEMMA LargeFreed ==
  ASSUME PoolInv, LargeListExact, NEW c \in Chunks, Pfree(c)
  PROVE  LargeListExact'
<1>1. DOMAIN large = 1 .. Len(large) /\ Len(large) \in Nat
  BY LenProperties DEF PoolInv, TypeOK
<1>2. PICK s \in DOMAIN large :
        /\ large[s].alloc = c
        /\ large' = [large EXCEPT ![s] = [record |-> large[s].record, alloc |-> NULL]]
  BY DEF Pfree
<1>3. heap' = heap \ {c} /\ heap = Allocated /\ c # NULL
  BY CallAssumption DEF Pfree, LargeListExact
<1>4. /\ DOMAIN large' = DOMAIN large /\ large'[s].alloc = NULL
      /\ \A k \in DOMAIN large : k # s => large'[k] = large[k]
  BY <1>1, <1>2
<1>5. \A k \in DOMAIN large : large[k].alloc = c => k = s
  <2> SUFFICES ASSUME NEW k \in DOMAIN large, large[k].alloc = c, k # s PROVE FALSE
    OBVIOUS
  <2>1. k < s \/ s < k
    BY <1>1
  <2> QED
    BY <2>1, <1>2, <1>3 DEF LargeListExact
<1>6. Allocated' = Allocated \ {c}
  BY <1>3, <1>4, <1>5, <1>2 DEF Allocated
<1>7. \A i, j \in DOMAIN large' :
        i < j /\ large'[i].alloc = large'[j].alloc => large'[i].alloc = NULL
  BY <1>4 DEF LargeListExact
<1> QED
  BY <1>3, <1>6, <1>7 DEF LargeListExact

(***************************************************************************)
(* Every chunk malloc gave is on the list once (rap_palloc.c:206-285), so  *)
(* reset and destruction free each exactly once and none is lost, however  *)
(* allocations fail.                                                       *)
(***************************************************************************)
THEOREM LargeListAccount == Spec => []LargeListExact
<1>1. Init => LargeListExact
  BY DEF Init, LargeListExact, Allocated
<1>2. PoolInv /\ LargeListExact /\ [Next]_vars => LargeListExact'
  <2> SUFFICES ASSUME PoolInv, LargeListExact, [Next]_vars PROVE LargeListExact'
    OBVIOUS
  <2>1. CASE UNCHANGED <<large, heap>>
    BY <2>1 DEF LargeListExact, Allocated
  <2>2. CASE PallocLarge \/ Pmemalign
    <3>1. \E c \in Chunks \ heap : AddLarge(c) \/ ReuseSlot(c)
      BY <2>2 DEF PallocLarge, Pmemalign
    <3> QED
      BY <3>1, LargeAdded
  <2>3. ASSUME NEW c \in Chunks, Pfree(c) PROVE LargeListExact'
    BY <2>3, LargeFreed
  <2>4. CASE ResetPool \/ DestroyPool
    <3>1. large' = << >> /\ heap' = {}
      BY <2>4 DEF ResetPool, DestroyPool, LargeListExact
    <3> QED
      BY <3>1 DEF LargeListExact, Allocated
  <2> QED
    BY <2>1, <2>2, <2>3, <2>4
       DEF Next, vars, CreatePool, Palloc, Pnalloc, AllocateSmall, CleanupAdd, RunCleanupFile
<1> QED
  BY <1>1, <1>2, PoolInvariant, PTL DEF Spec

-----------------------------------------------------------------------------
(***************************************************************************)
(* Files.  Registering a file, and closing it early.                       *)
(***************************************************************************)
LEMMA FileRegistered ==
  ASSUME PoolInv, FilesClosedOnce, NEW f \in Files, NEW handler \in {"close", "delete"},
         CleanupAdd(f, handler)
  PROVE  FilesClosedOnce'
<1>1. /\ cleanup \in Seq(CleanupEntry) /\ DOMAIN cleanup = 1 .. Len(cleanup)
      /\ Len(cleanup) \in Nat
  BY LenProperties DEF PoolInv, TypeOK
<1>2. UNCHANGED <<badClose, exposed>> /\ f \notin openFiles
  BY DEF CleanupAdd
<1>3. CASE UNCHANGED <<cleanup, openFiles>>
  BY <1>2, <1>3 DEF FilesClosedOnce, Armed
<1>4. CASE ~ UNCHANGED <<cleanup, openFiles>>
  <2>1. PICK o \in Small(arena, CleanupRec, TRUE) :
          /\ o.at # NULL
          /\ cleanup' = << [record |-> o.at, handler |-> handler, file |-> f] >> \o cleanup
          /\ openFiles' = openFiles \cup {f}
    BY <1>4 DEF CleanupAdd
  <2>2. o.at \in Address
    BY <2>1, SizesFit, InvAllocates DEF Uses
  <2> DEFINE x == [record |-> o.at, handler |-> handler, file |-> f]
  <2>3. x \in CleanupEntry /\ x.handler # "none" /\ x.file = f
    BY <2>2 DEF CleanupEntry
  <2> HIDE DEF x
  <2>4. /\ DOMAIN cleanup' = 1 .. Len(cleanup) + 1 /\ cleanup'[1] = x
        /\ \A k \in 1 .. Len(cleanup) : cleanup'[k + 1] = cleanup[k]
    BY <2>1, <2>3, <1>1, FrontEntries DEF x
  <2>5. \A k \in 1 .. Len(cleanup) + 1 :
          k # 1 => k - 1 \in 1 .. Len(cleanup) /\ cleanup'[k] = cleanup[k - 1]
    <3> SUFFICES ASSUME NEW k \in 1 .. Len(cleanup) + 1, k # 1
                 PROVE  k - 1 \in 1 .. Len(cleanup) /\ cleanup'[k] = cleanup[k - 1]
      OBVIOUS
    <3>1. k - 1 \in 1 .. Len(cleanup) /\ (k - 1) + 1 = k
      BY <1>1
    <3> QED
      BY <3>1, <2>4
  <2>6. \A k \in Armed' : k = 1 \/ (k - 1 \in Armed /\ cleanup'[k] = cleanup[k - 1])
    BY <2>4, <2>5, <1>1 DEF Armed
  <2>7. 1 \in Armed' /\ \A k \in Armed : k + 1 \in Armed' /\ cleanup'[k + 1] = cleanup[k]
    BY <2>3, <2>4, <1>1 DEF Armed
  <2>8. SUFFICES ASSUME ~ exposed
                 PROVE  /\ openFiles' = {cleanup'[k].file : k \in Armed'}
                        /\ \A j, k \in Armed' :
                             cleanup'[j].file = cleanup'[k].file => j = k
    BY <1>2 DEF FilesClosedOnce
  <2>9. openFiles' = {cleanup'[k].file : k \in Armed'}
    <3>1. openFiles = {cleanup[k].file : k \in Armed}
      BY <2>8, <1>2 DEF FilesClosedOnce
    <3>2. ASSUME NEW g \in openFiles' PROVE \E k \in Armed' : g = cleanup'[k].file
      <4>1. CASE g = f
        BY <4>1, <2>3, <2>4, <2>7
      <4>2. CASE g # f
        <5>1. PICK k \in Armed : g = cleanup[k].file
          BY <4>2, <3>1, <3>2, <2>1
        <5> QED
          BY <5>1, <2>7
      <4> QED
        BY <4>1, <4>2
    <3>3. ASSUME NEW k \in Armed' PROVE cleanup'[k].file \in openFiles'
      <4>1. CASE k = 1
        BY <4>1, <2>1, <2>3, <2>4
      <4>2. CASE k # 1
        <5>1. k - 1 \in Armed /\ cleanup'[k] = cleanup[k - 1]
          BY <4>2, <2>6
        <5>2. cleanup[k - 1].file \in openFiles
          BY <5>1, <3>1
        <5> QED
          BY <5>1, <5>2, <2>1
      <4> QED
        BY <4>1, <4>2
    <3> QED
      BY <3>2, <3>3
  <2>10. ASSUME NEW j \in Armed', NEW k \in Armed', cleanup'[j].file = cleanup'[k].file
         PROVE  j = k
    <3>1. \A i \in Armed' : i \in Int
      BY <2>4, <1>1 DEF Armed
    <3>2. \A i \in Armed' : i # 1 => cleanup'[i].file # f
      BY <2>6, <2>8, <1>2 DEF FilesClosedOnce
    <3>3. CASE j = 1 \/ k = 1
      BY <3>2, <3>3, <2>3, <2>4, <2>10
    <3>4. CASE j # 1 /\ k # 1
      <4>1. j - 1 = k - 1
        BY <3>4, <2>6, <2>8, <2>10 DEF FilesClosedOnce
      <4> QED
        BY <4>1, <3>1
    <3> QED
      BY <3>3, <3>4
  <2> QED
    BY <2>9, <2>10
<1> QED
  BY <1>3, <1>4

LEMMA FileClosedEarly ==
  ASSUME PoolInv, FilesClosedOnce, NEW f \in Files, RunCleanupFile(f)
  PROVE  FilesClosedOnce'
<1>1. DOMAIN cleanup = 1 .. Len(cleanup) /\ Len(cleanup) \in Nat
  BY LenProperties DEF PoolInv, TypeOK
<1>2. PICK s \in Closes(f) :
        cleanup' = [cleanup EXCEPT ![s] =
                      [record |-> cleanup[s].record, handler |-> "none", file |-> f]]
  BY DEF RunCleanupFile
<1>3. /\ ~ exposed /\ UNCHANGED exposed /\ openFiles' = openFiles \ {f}
      /\ badClose' = (badClose \/ f \notin openFiles)
  BY DEF RunCleanupFile
<1>4. s \in DOMAIN cleanup /\ s \in Armed /\ cleanup[s].file = f
  BY DEF Closes, Armed
<1>5. /\ DOMAIN cleanup' = DOMAIN cleanup /\ cleanup'[s].handler = "none"
      /\ \A k \in DOMAIN cleanup : k # s => cleanup'[k] = cleanup[k]
  BY <1>1, <1>2, <1>4
<1>6. Armed' = Armed \ {s}
  BY <1>4, <1>5 DEF Armed
<1>7. f \in openFiles
  BY <1>3, <1>4 DEF FilesClosedOnce
<1>8. \A k \in Armed' : cleanup'[k] = cleanup[k] /\ k \in Armed /\ cleanup[k].file # f
  BY <1>3, <1>4, <1>5, <1>6 DEF FilesClosedOnce, Armed
<1>9. openFiles' = {cleanup'[k].file : k \in Armed'}
  <2>1. openFiles = {cleanup[k].file : k \in Armed}
    BY <1>3 DEF FilesClosedOnce
  <2> QED
    BY <2>1, <1>3, <1>4, <1>6, <1>8
<1>10. \A j, k \in Armed' : cleanup'[j].file = cleanup'[k].file => j = k
  BY <1>3, <1>8 DEF FilesClosedOnce
<1> QED
  BY <1>3, <1>7, <1>9, <1>10 DEF FilesClosedOnce

(***************************************************************************)
(* A registered file is closed once, by its own handler                    *)
(* (rap_palloc.c:48-53,302-364), as long as no reset exposed the handlers. *)
(***************************************************************************)
THEOREM FilesAreClosedOnce == Spec => []FilesClosedOnce
<1>1. Init => FilesClosedOnce
  BY DEF Init, FilesClosedOnce, Armed
<1>2. PoolInv /\ FilesClosedOnce /\ [Next]_vars => FilesClosedOnce'
  <2> SUFFICES ASSUME PoolInv, FilesClosedOnce, [Next]_vars PROVE FilesClosedOnce'
    OBVIOUS
  <2>1. CASE UNCHANGED <<cleanup, openFiles, badClose, exposed>>
    BY <2>1 DEF FilesClosedOnce, Armed
  <2>2. CASE ResetPool
    <3>1. /\ UNCHANGED <<cleanup, openFiles, badClose>>
          /\ exposed' = (exposed \/ cleanup # << >>)
      BY <2>2 DEF ResetPool
    <3> QED
      BY <3>1 DEF FilesClosedOnce, Armed
  <2>3. ASSUME NEW f \in Files, NEW handler \in {"close", "delete"}, CleanupAdd(f, handler)
        PROVE  FilesClosedOnce'
    BY <2>3, FileRegistered
  <2>4. ASSUME NEW f \in Files, RunCleanupFile(f) PROVE FilesClosedOnce'
    BY <2>4, FileClosedEarly
  <2>5. CASE DestroyPool
    <3>1. ~ exposed /\ ~ badClose
      BY <2>5 DEF DestroyPool, FilesClosedOnce
    <3>2. /\ openFiles = {cleanup[i].file : i \in Armed}
          /\ \A i, j \in Armed : cleanup[i].file = cleanup[j].file => i = j
      BY <3>1 DEF FilesClosedOnce
    <3>3. badClose' = FALSE
      BY <2>5, <3>1, <3>2 DEF DestroyPool
    <3>4. openFiles' = {} /\ cleanup' = << >>
      BY <2>5, <3>2 DEF DestroyPool
    <3> QED
      BY <3>3, <3>4 DEF FilesClosedOnce, Armed
  <2> QED
    BY <2>1, <2>2, <2>3, <2>4, <2>5
       DEF Next, vars, CreatePool, Palloc, Pnalloc, AllocateSmall, PallocLarge, Pmemalign, Pfree
<1> QED
  BY <1>1, <1>2, PoolInvariant, PTL DEF Spec

-----------------------------------------------------------------------------
(***************************************************************************)
(* The pool's own records.  Memory that is owned stays so when more is     *)
(* handed out.                                                             *)
(***************************************************************************)
LEMMA OwnsMore ==
  ASSUME NEW rs \in Seq(Region), NEW r \in Region
  PROVE  /\ \A k \in DOMAIN rs : k \in DOMAIN Append(rs, r) /\ Append(rs, r)[k] = rs[k]
         /\ \E k \in DOMAIN Append(rs, r) : Append(rs, r)[k] = r
<1>1. DOMAIN rs = 1 .. Len(rs) /\ Len(rs) \in Nat
  BY LenProperties
<1>2. /\ DOMAIN Append(rs, r) = 1 .. Len(rs) + 1
      /\ \A k \in 1 .. Len(rs) : Append(rs, r)[k] = rs[k]
      /\ Append(rs, r)[Len(rs) + 1] = r
  BY <1>1, AppendProperties
<1>3. \A k \in 1 .. Len(rs) : k \in 1 .. Len(rs) + 1
  BY <1>1
<1>4. Len(rs) + 1 \in 1 .. Len(rs) + 1
  BY <1>1
<1> QED
  BY <1>1, <1>2, <1>3, <1>4

LEMMA RegionTyped ==
  ASSUME NEW address \in Address, NEW size \in Nat, NEW use \in Uses
  PROVE  RegionAt(address, size, use) \in Region
BY DEF RegionAt, Region, Address

RecordsOf(rs) ==
  /\ \A i \in DOMAIN large :
       \E k \in DOMAIN rs : rs[k] = RegionAt(large[i].record, LargeRec, "large")
  /\ ~ exposed => \A i \in DOMAIN cleanup :
       \E k \in DOMAIN rs : rs[k] = RegionAt(cleanup[i].record, CleanupRec, "cleanup")

LEMMA RecordsKept ==
  ASSUME NEW rs \in Seq(Region), RecordsOf(rs), NEW r \in Region
  PROVE  RecordsOf(Append(rs, r))
BY OwnsMore DEF RecordsOf

(***************************************************************************)
(* A new record of the large list, and one of the cleanup list.            *)
(***************************************************************************)
LEMMA LargeRecordIntact ==
  ASSUME PoolInv, RecordsIntact, NEW c \in Chunks, AddLarge(c), UNCHANGED <<cleanup, exposed>>
  PROVE  RecordsIntact'
<1>1. /\ large \in Seq(LargeEntry) /\ DOMAIN large = 1 .. Len(large) /\ Len(large) \in Nat
      /\ regions \in Seq(Region)
  BY LenProperties DEF PoolInv, TypeOK
<1>2. RecordsOf(regions)
  BY DEF RecordsIntact, Owns, RecordsOf
<1>3. CASE UNCHANGED <<large, regions>>
  BY <1>3 DEF RecordsIntact, Owns
<1>4. CASE ~ UNCHANGED <<large, regions>>
  <2>1. PICK o \in Small(arena, LargeRec, TRUE) :
          /\ o.at # NULL
          /\ large' = << [record |-> o.at, alloc |-> c] >> \o large
          /\ regions' = Append(regions, RegionAt(o.at, LargeRec, "large"))
    BY <1>4 DEF AddLarge
  <2>2. o.at \in Address
    BY <2>1, SizesFit, InvAllocates DEF Uses
  <2> DEFINE x == [record |-> o.at, alloc |-> c]
  <2> DEFINE r == RegionAt(o.at, LargeRec, "large")
  <2>3. x \in LargeEntry /\ x.record = o.at
    BY <2>2 DEF LargeEntry
  <2>4. r \in Region
    BY <2>2, SizesFit, RegionTyped DEF Uses
  <2> HIDE DEF x, r
  <2>5. /\ DOMAIN large' = 1 .. Len(large) + 1 /\ large'[1] = x
        /\ \A k \in 1 .. Len(large) : large'[k + 1] = large[k]
    BY <2>1, <2>3, <1>1, FrontEntries DEF x
  <2>6. regions' = Append(regions, r)
    BY <2>1 DEF r
  <2>7. RecordsOf(regions')
    BY <2>4, <2>6, <1>1, <1>2, RecordsKept
  <2>8. ASSUME NEW i \in DOMAIN large'
        PROVE  \E k \in DOMAIN regions' :
                 regions'[k] = RegionAt(large'[i].record, LargeRec, "large")
    <3>1. CASE i = 1
      <4>1. r = RegionAt(large'[i].record, LargeRec, "large")
        BY <3>1, <2>3, <2>5 DEF r
      <4> QED
        BY <4>1, <2>4, <2>6, <1>1, OwnsMore
    <3>2. CASE i # 1
      <4>1. i - 1 \in DOMAIN large /\ large'[(i - 1) + 1] = large[i - 1] /\ (i - 1) + 1 = i
        BY <3>2, <2>5, <1>1
      <4> QED
        BY <4>1, <2>7 DEF RecordsOf
    <3> QED
      BY <3>1, <3>2
  <2> QED
    BY <2>7, <2>8 DEF RecordsIntact, Owns, RecordsOf
<1> QED
  BY <1>3, <1>4

LEMMA CleanupRecordIntact ==
  ASSUME PoolInv, RecordsIntact, NEW f \in Files, NEW handler \in {"close", "delete"},
         CleanupAdd(f, handler)
  PROVE  RecordsIntact'
<1>1. /\ cleanup \in Seq(CleanupEntry) /\ DOMAIN cleanup = 1 .. Len(cleanup)
      /\ Len(cleanup) \in Nat /\ regions \in Seq(Region)
  BY LenProperties DEF PoolInv, TypeOK
<1>2. RecordsOf(regions) /\ UNCHANGED <<large, exposed>>
  BY DEF RecordsIntact, Owns, RecordsOf, CleanupAdd
<1>3. PICK o \in Small(arena, CleanupRec, TRUE) :
        /\ o.at # NULL
        /\ \E q \in Small(o.arena, FileRec, TRUE) :
             IF q.at = NULL
             THEN /\ regions' = Append(regions, RegionAt(o.at, CleanupRec, "user"))
                  /\ UNCHANGED cleanup
             ELSE /\ regions' = Append(Append(regions, RegionAt(o.at, CleanupRec, "cleanup")),
                                        RegionAt(q.at, FileRec, "file"))
                  /\ cleanup' = << [record |-> o.at, handler |-> handler, file |-> f] >>
                                  \o cleanup
  BY DEF CleanupAdd
<1>4. o.at \in Address /\ ArenaOK(o.arena)
  <2>1. ArenaOK(arena)
    BY InvParts
  <2>2. Reserves(arena, o, CleanupRec)
    BY <2>1, <1>3, SizesFit, SmallReserves
  <2> QED
    BY <2>2 DEF Reserves
<1>5. PICK q \in Small(o.arena, FileRec, TRUE) :
        IF q.at = NULL
        THEN /\ regions' = Append(regions, RegionAt(o.at, CleanupRec, "user"))
             /\ UNCHANGED cleanup
        ELSE /\ regions' = Append(Append(regions, RegionAt(o.at, CleanupRec, "cleanup")),
                                   RegionAt(q.at, FileRec, "file"))
             /\ cleanup' = << [record |-> o.at, handler |-> handler, file |-> f] >> \o cleanup
  BY <1>3
<1>6. \A use \in Uses : RegionAt(o.at, CleanupRec, use) \in Region
  BY <1>4, SizesFit, RegionTyped
<1>7. CASE q.at = NULL
  <2>1. RecordsOf(regions')
    BY <1>1, <1>2, <1>5, <1>6, <1>7, RecordsKept DEF Uses
  <2> QED
    BY <2>1, <1>2, <1>5, <1>7 DEF RecordsIntact, Owns, RecordsOf
<1>8. CASE q.at # NULL
  <2>1. q.at \in Address
    <3>1. Reserves(o.arena, q, FileRec)
      BY <1>4, <1>8, SizesFit, SmallReserves
    <3> QED
      BY <3>1 DEF Reserves
  <2> DEFINE x == [record |-> o.at, handler |-> handler, file |-> f]
  <2> DEFINE r == RegionAt(o.at, CleanupRec, "cleanup")
  <2> DEFINE s == RegionAt(q.at, FileRec, "file")
  <2>2. x \in CleanupEntry /\ x.record = o.at
    BY <1>4 DEF CleanupEntry
  <2>3. r \in Region /\ s \in Region
    BY <2>1, <1>6, SizesFit, RegionTyped DEF Uses
  <2>4. regions' = Append(Append(regions, r), s) /\ cleanup' = << x >> \o cleanup
    BY <1>5, <1>8
  <2>5. r = RegionAt(x.record, CleanupRec, "cleanup")
    BY <2>2
  <2> HIDE DEF x, r, s
  <2>6. Append(regions, r) \in Seq(Region)
    BY <2>3, <1>1, AppendProperties
  <2>7. RecordsOf(regions')
    BY <2>3, <2>4, <2>6, <1>1, <1>2, RecordsKept
  <2>8. \E k \in DOMAIN regions' : regions'[k] = r
    BY <2>3, <2>4, <2>6, <1>1, OwnsMore
  <2>9. /\ DOMAIN cleanup' = 1 .. Len(cleanup) + 1 /\ cleanup'[1] = x
        /\ \A k \in 1 .. Len(cleanup) : cleanup'[k + 1] = cleanup[k]
    BY <2>2, <2>4, <1>1, FrontEntries
  <2>10. ASSUME ~ exposed, NEW i \in DOMAIN cleanup'
         PROVE  \E k \in DOMAIN regions' :
                  regions'[k] = RegionAt(cleanup'[i].record, CleanupRec, "cleanup")
    <3>1. CASE i = 1
      BY <3>1, <2>5, <2>8, <2>9
    <3>2. CASE i # 1
      <4>1. i - 1 \in DOMAIN cleanup /\ cleanup'[(i - 1) + 1] = cleanup[i - 1]
            /\ (i - 1) + 1 = i
        BY <3>2, <2>9, <1>1
      <4> QED
        BY <4>1, <2>7, <2>10 DEF RecordsOf
    <3> QED
      BY <3>1, <3>2
  <2> QED
    BY <2>7, <2>10, <1>2 DEF RecordsIntact, Owns, RecordsOf
<1> QED
  BY <1>7, <1>8

(***************************************************************************)
(* An entry that is overwritten keeps its record.                          *)
(***************************************************************************)
LEMMA RecordsSame ==
  ASSUME PoolInv, RecordsIntact, UNCHANGED <<regions, exposed>>,
         DOMAIN large' = DOMAIN large, DOMAIN cleanup' = DOMAIN cleanup,
         \A i \in DOMAIN large : large'[i].record = large[i].record,
         \A i \in DOMAIN cleanup : cleanup'[i].record = cleanup[i].record
  PROVE  RecordsIntact'
BY DEF RecordsIntact, Owns

(***************************************************************************)
(* What the lists of the pool link is still allocated (rap_palloc.c:93-112 *)
(* is the exception: a reset leaves the cleanup list to records it freed). *)
(***************************************************************************)
THEOREM RecordsStayAllocated == Spec => []RecordsIntact
<1>1. Init => RecordsIntact
  BY DEF Init, RecordsIntact
<1>2. PoolInv /\ RecordsIntact /\ [Next]_vars => RecordsIntact'
  <2> SUFFICES ASSUME PoolInv, RecordsIntact, [Next]_vars PROVE RecordsIntact'
    OBVIOUS
  <2>1. CASE UNCHANGED <<large, cleanup, regions, exposed>>
    BY <2>1 DEF RecordsIntact, Owns
  <2>2. ASSUME NEW size \in Sizes, Palloc(size) \/ Pnalloc(size) PROVE RecordsIntact'
    <3>1. PICK align \in BOOLEAN : AllocateSmall(size, align)
      BY <2>2 DEF Palloc, Pnalloc
    <3>2. PICK o \in Small(arena, size, align) :
            o.at # NULL /\ regions' = Append(regions, RegionAt(o.at, size, "user"))
      BY <3>1 DEF AllocateSmall
    <3>3. size \in Nat /\ size <= PoolSize - PoolHdr
      BY <3>1, SizesFit DEF AllocateSmall
    <3>4. RegionAt(o.at, size, "user") \in Region
      BY <3>2, <3>3, InvAllocates, RegionTyped DEF Uses
    <3>5. RecordsOf(regions')
      BY <3>2, <3>4, RecordsKept DEF RecordsIntact, Owns, RecordsOf, PoolInv, TypeOK
    <3> QED
      BY <3>1, <3>5 DEF AllocateSmall, RecordsIntact, Owns, RecordsOf
  <2>3. CASE PallocLarge \/ Pmemalign
    <3>1. PICK c \in Chunks : AddLarge(c) \/ ReuseSlot(c)
      BY <2>3 DEF PallocLarge, Pmemalign
    <3>2. UNCHANGED <<cleanup, exposed>>
      BY <2>3 DEF PallocLarge, Pmemalign
    <3>3. CASE AddLarge(c)
      BY <3>2, <3>3, LargeRecordIntact
    <3>4. CASE ReuseSlot(c)
      <4>1. PICK s \in FreeSlots :
              large' = [large EXCEPT ![s] = [record |-> large[s].record, alloc |-> c]]
        BY <3>4 DEF ReuseSlot
      <4>2. /\ DOMAIN large' = DOMAIN large
            /\ \A i \in DOMAIN large : large'[i].record = large[i].record
        BY <4>1
      <4> QED
        BY <4>2, <3>2, <3>4, RecordsSame DEF ReuseSlot
    <3> QED
      BY <3>1, <3>3, <3>4
  <2>4. ASSUME NEW c \in Chunks, Pfree(c) PROVE RecordsIntact'
    <3>1. PICK s \in DOMAIN large :
            large' = [large EXCEPT ![s] = [record |-> large[s].record, alloc |-> NULL]]
      BY <2>4 DEF Pfree
    <3>2. /\ DOMAIN large' = DOMAIN large
          /\ \A i \in DOMAIN large : large'[i].record = large[i].record
      BY <3>1
    <3> QED
      BY <3>2, <2>4, RecordsSame DEF Pfree
  <2>5. CASE ResetPool
    <3>1. large' = << >> /\ cleanup' = cleanup /\ exposed' = (exposed \/ cleanup # << >>)
      BY <2>5 DEF ResetPool
    <3>2. ~ exposed' => cleanup' = << >>
      BY <3>1
    <3>3. \A i \in DOMAIN << >> : FALSE
      OBVIOUS
    <3> QED
      BY <3>1, <3>2, <3>3 DEF RecordsIntact
  <2>6. ASSUME NEW f \in Files, NEW handler \in {"close", "delete"}, CleanupAdd(f, handler)
        PROVE  RecordsIntact'
    BY <2>6, CleanupRecordIntact
  <2>7. ASSUME NEW f \in Files, RunCleanupFile(f) PROVE RecordsIntact'
    <3>1. PICK s \in Closes(f) :
            cleanup' = [cleanup EXCEPT ![s] =
                          [record |-> cleanup[s].record, handler |-> "none", file |-> f]]
      BY <2>7 DEF RunCleanupFile
    <3>2. /\ DOMAIN cleanup' = DOMAIN cleanup
          /\ \A i \in DOMAIN cleanup : cleanup'[i].record = cleanup[i].record
      BY <3>1
    <3> QED
      BY <3>2, <2>7, RecordsSame DEF RunCleanupFile
  <2>8. CASE DestroyPool
    BY <2>8 DEF DestroyPool, RecordsIntact
  <2>9. CASE CreatePool
    BY <2>9 DEF CreatePool, RecordsIntact, Owns
  <2> QED
    BY <2>1, <2>2, <2>3, <2>4, <2>5, <2>6, <2>7, <2>8, <2>9 DEF Next, vars
<1> QED
  BY <1>1, <1>2, PoolInvariant, PTL DEF Spec

-----------------------------------------------------------------------------
(***************************************************************************)
(* The failure counts.                                                     *)
(***************************************************************************)
FailuresOK(a) ==
  /\ \A b \in 1 .. Len(a.failed) : b < a.current => a.failed[b] > FailLimit + 1
  /\ \A b, c \in 1 .. Len(a.failed) :
       a.current <= b /\ b < c => a.failed[c] <= a.failed[b]

(***************************************************************************)
(* Blocks are searched in order, so the failures counted before a block is *)
(* skipped never increase along the list: the blocks before the last       *)
(* skipped one had failed as often and are skipped with it                 *)
(* (rap_palloc.c:194-198).                                                 *)
(***************************************************************************)
LEMMA GrowKeepsFailures ==
  ASSUME NEW a, ArenaOK(a), FailuresOK(a), NEW size, NEW o \in Grow(a, size)
  PROVE  FailuresOK(o.arena)
<1> DEFINE n == Len(a.last)
<1>1. /\ a.failed \in Seq(Nat) /\ Len(a.failed) = n /\ n \in Nat
      /\ a.current \in 1 .. n /\ DOMAIN a.failed = 1 .. n
      /\ \A b \in 1 .. n : a.failed[b] \in Nat
  BY LenProperties DEF ArenaOK, ArenaTyped, Arena
<1>2. PICK c \in NextCurrent(a) :
        o.arena.failed = Append(Failed(a), 0) /\ o.arena.current = c
  BY DEF Grow, Outcome
<1>3. /\ c \in a.current .. n
      /\ c = a.current \/ c - 1 \in Skipped(a)
      /\ \A j \in Skipped(a) : j < c
  BY DEF NextCurrent
<1> DEFINE after(b) == IF b \in a.current .. n - 1 THEN a.failed[b] + 1 ELSE a.failed[b]
<1>4. Failed(a) = [b \in 1 .. n |-> after(b)]
  BY <1>1 DEF Failed, Searched
<1>5. \A b \in 1 .. n : after(b) \in Nat
  BY <1>1
<1>6. Failed(a) \in Seq(Nat) /\ Len(Failed(a)) = n
  <2>1. [b \in 1 .. n |-> after(b)] \in [1 .. n -> Nat]
    BY <1>5
  <2> QED
    BY <2>1, <1>1, <1>4, SeqDef
<1> DEFINE failed == o.arena.failed
<1>7. /\ Len(failed) = n + 1 /\ failed[n + 1] = 0
      /\ \A b \in 1 .. n : failed[b] = after(b)
  <2>1. /\ Len(failed) = n + 1 /\ failed[n + 1] = 0
        /\ \A b \in 1 .. n : failed[b] = Failed(a)[b]
    BY <1>1, <1>2, <1>6, AppendProperties
  <2> QED
    BY <2>1, <1>4
<1> HIDE DEF failed
<1>8. FailLimit \in Nat
  BY LimitsAssumption
<1>9. ASSUME NEW b \in 1 .. n + 1, b < c
      PROVE  failed[b] > FailLimit + 1
  <2>1. b \in 1 .. n /\ failed[b] = after(b)
    <3>1. b \in Int /\ c \in Int /\ c <= n /\ 1 <= b
      BY <1>1, <1>3
    <3>2. b \in 1 .. n
      BY <3>1, <1>1, <1>9
    <3> QED
      BY <3>2, <1>7
  <2>2. CASE b < a.current
    <3>1. a.failed[b] > FailLimit + 1
      BY <2>1, <2>2, <1>1 DEF FailuresOK
    <3>2. after(b) = a.failed[b]
      BY <2>1, <2>2, <1>1
    <3> QED
      BY <2>1, <3>1, <3>2
  <2>3. CASE a.current <= b
    <3>1. c - 1 \in Skipped(a) /\ c # a.current
      BY <2>1, <2>3, <1>1, <1>3, <1>9
    <3>2. a.failed[c - 1] > FailLimit /\ c - 1 \in a.current .. n - 1
      BY <3>1 DEF Skipped, Searched
    <3> DEFINE s == c - 1
    <3>3. s \in Int /\ c \in Int /\ a.current \in Int /\ 1 <= a.current /\ b \in Int
      BY <1>1, <1>3
    <3>4. s \in 1 .. n /\ s <= n - 1 /\ a.current <= s /\ b <= s
      BY <3>2, <3>3, <1>1, <1>9
    <3> HIDE DEF s
    <3>5. a.failed[b] \in Nat /\ a.failed[s] \in Nat
      BY <2>1, <3>4, <1>1
    <3>6. a.failed[s] <= a.failed[b]
      <4>1. CASE b = s
        BY <4>1, <3>5
      <4>2. CASE b < s
        BY <4>2, <3>4, <2>1, <2>3, <1>1 DEF FailuresOK
      <4> QED
        BY <4>1, <4>2, <3>3, <3>4
    <3>7. after(b) = a.failed[b] + 1
      <4>1. b \in a.current .. n - 1
        BY <2>3, <3>3, <3>4, <1>1
      <4> QED
        BY <4>1
    <3>8. a.failed[s] > FailLimit
      BY <3>2 DEF s
    <3> QED
      BY <2>1, <3>6, <3>7, <3>5, <3>8, <1>8
  <2> QED
    BY <2>1, <2>2, <2>3, <1>1
<1>10. ASSUME NEW b \in 1 .. n + 1, NEW d \in 1 .. n + 1, c <= b, b < d
       PROVE  failed[d] <= failed[b]
  <2>1. b \in 1 .. n /\ failed[b] = after(b) /\ a.current <= b
    BY <1>1, <1>3, <1>7, <1>10
  <2>2. CASE d = n + 1
    BY <2>1, <2>2, <1>5, <1>7
  <2>3. CASE d # n + 1
    <3>1. d \in 1 .. n /\ failed[d] = after(d)
      BY <2>3, <1>1, <1>7
    <3>2. a.failed[d] <= a.failed[b] /\ a.failed[d] \in Nat /\ a.failed[b] \in Nat
      BY <3>1, <2>1, <1>1, <1>10 DEF FailuresOK
    <3>3. after(b) = a.failed[b] + 1
      BY <2>1, <3>1, <1>1, <1>10
    <3>4. after(d) = a.failed[d] + 1 \/ after(d) = a.failed[d]
      OBVIOUS
    <3> QED
      BY <2>1, <3>1, <3>2, <3>3, <3>4
  <2> QED
    BY <2>2, <2>3
<1> QED
  BY <1>2, <1>7, <1>9, <1>10 DEF FailuresOK, failed

LEMMA SmallKeepsFailures ==
  ASSUME NEW a, ArenaOK(a), FailuresOK(a), NEW size, NEW align, NEW o \in Small(a, size, align)
  PROVE  FailuresOK(o.arena)
<1>1. CASE \E i \in FirstFitting(a, size, align) : o = Take(a, i, size, align)
  <2>1. o.arena.failed = a.failed /\ o.arena.current = a.current
    BY <1>1 DEF Take, Outcome
  <2> QED
    BY <2>1 DEF FailuresOK
<1>2. CASE o = Outcome(a, NULL)
  BY <1>2 DEF Outcome
<1>3. CASE o \in Grow(a, size)
  BY <1>3, GrowKeepsFailures
<1> QED
  BY <1>1, <1>2, <1>3 DEF Small

(***************************************************************************)
(* A block the search skips failed more than FailLimit + 1 times since the *)
(* last reset, for any FailLimit.                                          *)
(***************************************************************************)
THEOREM SkippedBlocksAreFull == Spec => []SkippedBlocksFailedOften
<1>1. ASSUME ArenaOK(arena)
      PROVE  SkippedBlocksFailedOften <=> FailuresOK(arena)
  <2>1. DOMAIN arena.failed = 1 .. Len(arena.failed)
    BY <1>1, LenProperties DEF ArenaOK, ArenaTyped, Arena
  <2> QED
    BY <2>1 DEF SkippedBlocksFailedOften, FailuresOK
<1>2. ASSUME ArenaOK(arena')
      PROVE  SkippedBlocksFailedOften' <=> FailuresOK(arena')
  <2>1. DOMAIN arena'.failed = 1 .. Len(arena'.failed)
    BY <1>2, LenProperties DEF ArenaOK, ArenaTyped, Arena
  <2> QED
    BY <2>1 DEF SkippedBlocksFailedOften, FailuresOK
<1>3. FailuresOK(NewArena)
  <2>1. NewArena.failed = << 0 >> /\ NewArena.current = 1 /\ Len(<< 0 >>) = 1
    BY DEF NewArena
  <2> QED
    BY <2>1 DEF FailuresOK
<1>4. Init => SkippedBlocksFailedOften
  BY <1>1, <1>3, NewArenaOK, NothingHandedOut DEF Init
<1>5. PoolInv /\ PoolInv' /\ SkippedBlocksFailedOften /\ [Next]_vars
        => SkippedBlocksFailedOften'
  <2> SUFFICES ASSUME PoolInv, PoolInv', SkippedBlocksFailedOften, [Next]_vars
               PROVE  FailuresOK(arena')
    BY <1>2 DEF PoolInv, TypeOK, AllocationsInBounds, ArenaOK
  <2>1. ArenaOK(arena) /\ FailuresOK(arena)
    BY <1>1, InvParts
  <2>2. CASE UNCHANGED arena
    BY <2>1, <2>2
  <2>3. CASE arena' = NewArena
    BY <2>3, <1>3
  <2>4. ASSUME NEW size \in Sizes, Palloc(size) \/ Pnalloc(size) PROVE FailuresOK(arena')
    BY <2>4, <2>1, SmallKeepsFailures DEF Palloc, Pnalloc, AllocateSmall
  <2>5. CASE PallocLarge \/ Pmemalign
    <3>1. UNCHANGED arena \/ \E o \in Small(arena, LargeRec, TRUE) : arena' = o.arena
      BY <2>5 DEF PallocLarge, Pmemalign, AddLarge, ReuseSlot
    <3> QED
      BY <3>1, <2>1, SmallKeepsFailures
  <2>6. CASE ResetPool
    <3>1. DOMAIN arena.failed = 1 .. Len(arena.failed) /\ Len(arena.failed) \in Nat
      BY <2>1, LenProperties DEF ArenaOK, ArenaTyped, Arena
    <3>2. /\ arena'.failed = [b \in 1 .. Len(arena.failed) |-> 0]
          /\ arena'.current = 1
      BY <2>6, <3>1 DEF ResetPool, ResetArena
    <3>3. Len(arena'.failed) = Len(arena.failed)
      BY <3>1, <3>2
    <3> QED
      BY <3>2, <3>3 DEF FailuresOK
  <2>7. ASSUME NEW f \in Files, NEW handler \in {"close", "delete"}, CleanupAdd(f, handler)
        PROVE  FailuresOK(arena')
    <3>1. PICK o \in Small(arena, CleanupRec, TRUE) :
            o.at # NULL /\ \E q \in Small(o.arena, FileRec, TRUE) : arena' = q.arena
      BY <2>7 DEF CleanupAdd
    <3>2. FailuresOK(o.arena)
      BY <2>1, SmallKeepsFailures
    <3>3. ArenaOK(o.arena)
      BY <3>1, <2>1, SizesFit, SmallReserves DEF Reserves
    <3> QED
      BY <3>1, <3>2, <3>3, SmallKeepsFailures
  <2> QED
    BY <2>2, <2>3, <2>4, <2>5, <2>6, <2>7
       DEF Next, vars, CreatePool, DestroyPool, Pfree, RunCleanupFile
<1> QED
  BY <1>4, <1>5, PoolInvariant, PTL DEF Spec
=============================================================================
