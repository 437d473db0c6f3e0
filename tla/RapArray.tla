------------------------------ MODULE RapArray ------------------------------
(***************************************************************************)
(* Dynamic arrays in a pool, rap/compiler/rap_array.c and rap_array.h,     *)
(* with other allocations from the same pool in between.  An array grows   *)
(* in place when it ends where the free bytes of the pool's first block    *)
(* begin, moves otherwise, and hands its memory back to that block when it *)
(* is destroyed.                                                           *)
(*                                                                         *)
(* memory holds what was written to the units of the live arrays, so that  *)
(* an element that is overwritten, or left behind by a move, is seen when  *)
(* it is read back.  Any other unit holds Junk.                            *)
(***************************************************************************)
EXTENDS PoolArena

CONSTANTS
  Arrays,             \* arrays the program creates
  ArrayRec,           \* sizeof(rap_array_t)
  ElemSize,           \* size of an element
  InitialSizes,       \* element counts arrays are created with
  PushCounts,         \* element counts of rap_array_push_n
  OtherSizes,         \* sizes of the other allocations
  MaxElems,           \* bound: elements of an array
  MaxOthers,          \* bound: other allocations
  MaxChunks,          \* bound: arrays moved to a chunk of their own
  Absent, Junk

(***************************************************************************)
(* No size is zero (an empty region would not keep a rewind from passing   *)
(* below it), and the structures are small allocations.                    *)
(***************************************************************************)
ASSUME ArrayAssumption ==
  /\ ArrayRec \in 1 .. PoolMax /\ ElemSize \in Nat \ {0} /\ LargeRec \in Nat \ {0}
  /\ InitialSizes \subseteq Nat \ {0} /\ PushCounts \subseteq Nat \ {0}
  /\ OtherSizes \subseteq 1 .. PoolMax
  /\ MaxElems \in Nat /\ MaxOthers \in Nat /\ MaxChunks \in Nat

VARIABLES
  arena,
  chunks,             \* number of large chunks allocated so far
  arrays,             \* arrays[a]: the structure, or Absent
  memory,             \* what the written units hold
  others              \* regions handed out to the rest of the program

vars == <<arena, chunks, arrays, memory, others>>

Array == [at : [block : Nat, at : Nat], elts : [block : Nat, at : Nat],
          nelts : Nat, nalloc : Nat]

ASSUME AbsentAssumption == Absent \notin Array /\ Absent \notin Seq(Nat)

Init ==
  /\ arena = NewArena
  /\ chunks = 0
  /\ arrays = [a \in Arrays |-> Absent]
  /\ memory = << >>
  /\ others = << >>

Region(address, size) ==
  [block |-> address.block, from |-> address.at, to |-> address.at + size]

Units(address, size) ==
  [block : {address.block}, at : address.at .. address.at + size - 1]

Forgotten(mem, units) == [u \in DOMAIN mem \ units |-> mem[u]]

(***************************************************************************)
(* rap_palloc: a small allocation, or a chunk of its own (block number     *)
(* after the blocks) with a record in the arena.  No record is ever free   *)
(* here, for nothing calls rap_pfree.                                      *)
(***************************************************************************)
ChunkOutcome(o) ==
  IF o.at = NULL THEN [arena |-> o.arena, at |-> NULL, chunks |-> chunks, record |-> << >>]
  ELSE [arena |-> o.arena, at |-> [block |-> MaxBlocks + chunks + 1, at |-> 0],
        chunks |-> chunks + 1, record |-> << Region(o.at, LargeRec) >>]

PallocOutcomes(a, size) ==
  IF size <= PoolMax
  THEN {[arena |-> o.arena, at |-> o.at, chunks |-> chunks, record |-> << >>] :
          o \in Small(a, size, TRUE)}
  ELSE {[arena |-> a, at |-> NULL, chunks |-> chunks, record |-> << >>]}
         \cup (IF chunks < MaxChunks
               THEN {ChunkOutcome(o) : o \in Small(a, LargeRec, TRUE)} ELSE {})

(***************************************************************************)
(* The rest of the program takes memory from the pool and writes to it.    *)
(***************************************************************************)
OtherPalloc(size) ==
  /\ Len(others) < MaxOthers
  /\ \E o \in Small(arena, size, TRUE) :
       /\ o.at # NULL
       /\ arena' = o.arena
       /\ others' = Append(others, Region(o.at, size))
       /\ memory' = Forgotten(memory, Units(o.at, size))
  /\ UNCHANGED <<chunks, arrays>>

(***************************************************************************)
(* rap_array_create with rap_array_init.  When there is no memory for the  *)
(* elements the structure stays allocated and is lost.                     *)
(***************************************************************************)
ArrayCreate(a, n) ==
  /\ arrays[a] = Absent
  /\ \E o \in Small(arena, ArrayRec, TRUE) :
       /\ o.at # NULL
       /\ \E q \in PallocOutcomes(o.arena, n * ElemSize) :
            /\ arena' = q.arena
            /\ chunks' = q.chunks
            /\ others' = others \o q.record
            /\ arrays' = IF q.at = NULL THEN arrays
                         ELSE [arrays EXCEPT ![a] =
                                 [at |-> o.at, elts |-> q.at, nelts |-> 0, nalloc |-> n]]
  /\ UNCHANGED memory

Ends(address, size, block) ==
  address.block = 1 /\ address.at + size = block[1]

(***************************************************************************)
(* The array is the last allocation of the first block and that block has  *)
(* room for size more bytes.                                               *)
(***************************************************************************)
\* Variant: in place growth does not look at the end of the block.
GrowsPastTheEnd(x, size) == Ends(x.elts, ElemSize * x.nalloc, arena.last)

GrowsInPlace(x, size) ==
  /\ Ends(x.elts, ElemSize * x.nalloc, arena.last)
  /\ arena.last[1] + size <= PoolSize

(***************************************************************************)
(* memcpy of size bytes to the new elements.                               *)
(***************************************************************************)
Origin(u, from, to) == [block |-> from.block, at |-> from.at + (u.at - to.at)]

Copied(from, to, size) ==
  LET copies == {u \in Units(to, size) : Origin(u, from, to) \in DOMAIN memory}
      kept == DOMAIN memory \ (Units(from, size) \cup Units(to, size))
  IN  [u \in kept \cup copies |->
         IF u \in copies THEN memory[Origin(u, from, to)] ELSE memory[u]]

(***************************************************************************)
(* The caller writes elements from + 1 .. from + n of array x.             *)
(***************************************************************************)
Written(mem, x, from, n) ==
  LET start == [block |-> x.elts.block, at |-> x.elts.at + from * ElemSize]
      new == Units(start, n * ElemSize)
  IN  [u \in DOMAIN mem \cup new |->
         IF u \in new THEN from + ((u.at - start.at) \div ElemSize) + 1 ELSE mem[u]]

(***************************************************************************)
(* What becomes of array x when it has to grow: by more elements in place, *)
(* or by moving copy bytes to newly allocated room for nalloc elements.    *)
(***************************************************************************)
Resized(x, elts, nalloc) ==
  [at |-> x.at, elts |-> elts, nelts |-> x.nelts, nalloc |-> nalloc]

InPlace(x, more) ==
  [arena |-> [last |-> [arena.last EXCEPT ![1] = @ + more * ElemSize],
              failed |-> arena.failed, current |-> arena.current],
   chunks |-> chunks, record |-> << >>, memory |-> memory,
   array |-> Resized(x, x.elts, x.nalloc + more)]

Moved(x, q, nalloc, copy) ==
  [arena |-> q.arena, chunks |-> q.chunks, record |-> q.record,
   memory |-> Copied(x.elts, q.at, copy),
   array |-> Resized(x, q.at, nalloc)]

GrowthOutcomes(x, more, nalloc, copy) ==
  IF GrowsInPlace(x, more * ElemSize)
  THEN {InPlace(x, more)}
  ELSE {Moved(x, q, nalloc, copy) :
          q \in {r \in PallocOutcomes(arena, nalloc * ElemSize) : r.at # NULL}}

Unchanged(x) ==
  [arena |-> arena, chunks |-> chunks, record |-> << >>, memory |-> memory, array |-> x]

(***************************************************************************)
(* n elements of array a are taken after growth g, and the caller writes   *)
(* them.                                                                   *)
(***************************************************************************)
Pushed(a, n, g) ==
  /\ arena' = g.arena
  /\ chunks' = g.chunks
  /\ others' = others \o g.record
  /\ arrays' = [arrays EXCEPT ![a] =
       [at |-> g.array.at, elts |-> g.array.elts,
        nelts |-> g.array.nelts + n, nalloc |-> g.array.nalloc]]
  /\ memory' = Written(g.memory, g.array, g.array.nelts, n)

\* Variant: the move copies one element too few.
PushOutcomesShortCopy(x) ==
  IF x.nelts = x.nalloc
  THEN GrowthOutcomes(x, 1, 2 * x.nalloc, ElemSize * (x.nalloc - 1))
  ELSE {Unchanged(x)}

PushOutcomes(x) ==
  IF x.nelts = x.nalloc
  THEN GrowthOutcomes(x, 1, 2 * x.nalloc, ElemSize * x.nalloc)
  ELSE {Unchanged(x)}

ArrayPush(a) ==
  /\ arrays[a] # Absent
  /\ arrays[a].nelts < MaxElems
  /\ \E g \in PushOutcomes(arrays[a]) : Pushed(a, 1, g)

Larger(m, n) == IF m >= n THEN m ELSE n

PushNOutcomes(x, n) ==
  IF x.nelts + n > x.nalloc
  THEN GrowthOutcomes(x, n, 2 * Larger(n, x.nalloc), ElemSize * x.nelts)
  ELSE {Unchanged(x)}

ArrayPushN(a, n) ==
  /\ arrays[a] # Absent
  /\ arrays[a].nelts + n <= MaxElems
  /\ \E g \in PushNOutcomes(arrays[a], n) : Pushed(a, n, g)

(***************************************************************************)
(* rap_array_destroy: the elements, and then the structure, go back to the *)
(* first block when they are what was allocated last in it.                *)
(***************************************************************************)
\* Variant: the memory is taken back without comparing where it ends.
ReturnedAnyway(last, address, size) ==
  IF address.block = 1 THEN last - size ELSE last

Returned(last, address, size) ==
  IF address.block = 1 /\ address.at + size = last THEN last - size ELSE last

ArrayDestroy(a) ==
  /\ arrays[a] # Absent
  /\ LET x == arrays[a]
         last == Returned(Returned(arena.last[1], x.elts, ElemSize * x.nalloc),
                          x.at, ArrayRec)
     IN  arena' = [last |-> [arena.last EXCEPT ![1] = last],
                   failed |-> arena.failed, current |-> arena.current]
  /\ memory' = Forgotten(memory, Units(arrays[a].elts, ElemSize * arrays[a].nalloc))
  /\ arrays' = [arrays EXCEPT ![a] = Absent]
  /\ UNCHANGED <<chunks, others>>

Next ==
  \/ \E size \in OtherSizes : OtherPalloc(size)
  \/ \E a \in Arrays :
       \/ \E n \in InitialSizes : ArrayCreate(a, n)
       \/ ArrayPush(a)
       \/ \E n \in PushCounts : ArrayPushN(a, n)
       \/ ArrayDestroy(a)

Spec == Init /\ [][Next]_vars

-----------------------------------------------------------------------------
(***************************************************************************)
(* Types, and an array never holds more elements than it has room for      *)
(* (rap_array.c:56,106).                                                   *)
(***************************************************************************)
TypeOK ==
  /\ arena \in Arena
  /\ chunks \in 0 .. MaxChunks
  /\ \A a \in Arrays : arrays[a] # Absent =>
       arrays[a] \in Array /\ arrays[a].nelts <= arrays[a].nalloc
  /\ \A u \in DOMAIN memory : memory[u] \in 1 .. MaxElems

(***************************************************************************)
(* Who holds memory of the pool: the rest of the program, by the number of *)
(* its allocation, and every live array, its structure and its elements.   *)
(***************************************************************************)
Live(arr) == {a \in Arrays : arr[a] # Absent}

HeldBy(os, arr) ==
  [h \in ({"other"} \X DOMAIN os) \cup ({"structure", "elements"} \X Live(arr)) |->
     CASE h[1] = "other" -> os[h[2]]
       [] h[1] = "structure" -> Region(arr[h[2]].at, ArrayRec)
       [] h[1] = "elements" -> Region(arr[h[2]].elts, ElemSize * arr[h[2]].nalloc)]

Held == HeldBy(others, arrays)

Reserved(a, c, r) == InBounds(a, r) \/ r.block \in MaxBlocks + 1 .. MaxBlocks + c

(***************************************************************************)
(* Everything in use stays in use: no two holders share a byte, and what   *)
(* they hold lies below the free bytes of its block or in a chunk, through *)
(* growth in place, moves and the rewinding of rap_array_destroy           *)
(* (rap_array.c:39-45,64-73).                                              *)
(***************************************************************************)
InUseIsReserved ==
  LET held == Held
  IN  /\ \A h \in DOMAIN held : Reserved(arena, chunks, held[h])
      /\ \A h, k \in DOMAIN held : h # k => Disjoint(held[h], held[k])

(***************************************************************************)
(* An array is the sequence of what was pushed on it (the contract), as    *)
(* read back from memory.                                                  *)
(***************************************************************************)
Element(x, i) ==
  LET start == [block |-> x.elts.block, at |-> x.elts.at + (i - 1) * ElemSize]
      units == Units(start, ElemSize)
  IN  IF \E v \in 1 .. MaxElems : \A u \in units : u \in DOMAIN memory /\ memory[u] = v
      THEN memory[start]
      ELSE Junk

Items ==
  [a \in Arrays |->
     IF arrays[a] = Absent THEN Absent
     ELSE [i \in 1 .. arrays[a].nelts |-> Element(arrays[a], i)]]

Contract == INSTANCE SequenceContract WITH items <- Items, MaxPushed <- MaxElems

KeepsItsElements == Contract!Spec
=============================================================================
