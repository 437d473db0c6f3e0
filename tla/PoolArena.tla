----------------------------- MODULE PoolArena -----------------------------
(***************************************************************************)
(* The blocks of a memory pool and the bump allocation in them:            *)
(* rap_palloc_small and rap_palloc_block of rap/compiler/rap_palloc.c,     *)
(* with the sizes they depend on (rap_palloc.h).                           *)
(*                                                                         *)
(* A block is a number, the pool's own block being 1, and an address is a  *)
(* block and an offset in it.  malloc returns blocks aligned to            *)
(* RAP_POOL_ALIGNMENT, so offsets align as addresses do.  The sizes of the *)
(* structures are parameters.                                              *)
(***************************************************************************)
EXTENDS Integers, Sequences

CONSTANTS
  Align,              \* RAP_ALIGNMENT
  PoolHdr,            \* sizeof(rap_pool_t)
  DataHdr,            \* sizeof(rap_pool_data_t), all the header of a later block
  PoolSize,           \* the size given to rap_create_pool
  MaxFromPool,        \* RAP_MAX_ALLOC_FROM_POOL
  LargeRec,           \* sizeof(rap_pool_large_t)
  FailLimit,          \* a block is skipped when it failed more often than this
  MaxBlocks,          \* bound: blocks malloc has room for
  NULL

ASSUME AlignAssumption == Align \in Nat \ {0}

(***************************************************************************)
(* The pool is made of whole alignment units and has room for its header   *)
(* and for a record of a large allocation (RAP_MIN_POOL_SIZE asks for two).*)
(***************************************************************************)
ASSUME PoolSizeAssumption ==
  /\ PoolHdr \in Nat /\ DataHdr \in Nat /\ PoolSize \in Nat /\ LargeRec \in Nat
  /\ PoolHdr % Align = 0 /\ DataHdr % Align = 0 /\ PoolSize % Align = 0
  /\ DataHdr <= PoolHdr
  /\ PoolHdr + 2 * LargeRec <= PoolSize

ASSUME LimitsAssumption ==
  /\ MaxFromPool \in Nat /\ FailLimit \in Nat
  /\ MaxBlocks \in Nat \ {0}
  /\ NULL \notin [block : Nat, at : Nat]

(***************************************************************************)
(* The part of a pool that bump allocation uses: per block, the offset of  *)
(* the first free byte and how often it failed to serve an allocation, and *)
(* the block where the search starts.                                      *)
(***************************************************************************)
Address == [block : Nat, at : Nat]

Arena == [last : Seq(0 .. PoolSize), failed : Seq(Nat), current : Nat]

NewArena == [last |-> << PoolHdr >>, failed |-> << 0 >>, current |-> 1]

PoolMax == IF PoolSize - PoolHdr < MaxFromPool THEN PoolSize - PoolHdr ELSE MaxFromPool

AlignUp(m) == m + ((- m) % Align)

Start(last, align) == IF align THEN AlignUp(last) ELSE last

(***************************************************************************)
(* (size_t) (p->d.end - m) >= size: the difference is unsigned, so a start *)
(* past the end of the block would pass for plenty of room.                *)
(***************************************************************************)
\* Variant: the room is measured before the start is aligned.
FitsBeforeAligning(last, size, align) == PoolSize - last >= size

Fits(last, size, align) ==
  LET m == Start(last, align)
  IN  m > PoolSize \/ PoolSize - m >= size

Fitting(a, size, align) ==
  {i \in a.current .. Len(a.last) : Fits(a.last[i], size, align)}

(***************************************************************************)
(* An outcome of an allocation: the arena after it and the address, or     *)
(* NULL.                                                                   *)
(***************************************************************************)
Outcome(a, address) == [arena |-> a, at |-> address]

\* Variant: the bytes skipped to align the start are not accounted for.
TakeForgetsPadding(a, i, size, align) ==
  LET m == Start(a.last[i], align)
  IN  Outcome([last |-> [a.last EXCEPT ![i] = a.last[i] + size],
               failed |-> a.failed, current |-> a.current],
              [block |-> i, at |-> m])

Take(a, i, size, align) ==
  LET m == Start(a.last[i], align)
  IN  Outcome([last |-> [a.last EXCEPT ![i] = m + size],
               failed |-> a.failed, current |-> a.current],
              [block |-> i, at |-> m])

(***************************************************************************)
(* rap_palloc_block: every block searched but the last one counts a        *)
(* failure, and current moves past the last of those that had failed more  *)
(* than FailLimit times already (NextCurrent has one element).             *)
(***************************************************************************)
Searched(a) == a.current .. Len(a.last) - 1

\* Variant: a block is skipped one failure early.
SkippedEarly(a) == {i \in Searched(a) : a.failed[i] >= FailLimit}

Skipped(a) == {i \in Searched(a) : a.failed[i] > FailLimit}

NextCurrent(a) ==
  {i \in a.current .. Len(a.last) :
     /\ i = a.current \/ i - 1 \in Skipped(a)
     /\ \A j \in Skipped(a) : j < i}

Failed(a) ==
  [i \in DOMAIN a.failed |-> IF i \in Searched(a) THEN a.failed[i] + 1 ELSE a.failed[i]]

\* Variant: a new block is used from its first byte.
GrowOverHeader(a, size) ==
  {Outcome([last |-> Append(a.last, size), failed |-> Append(Failed(a), 0), current |-> c],
           [block |-> Len(a.last) + 1, at |-> 0]) : c \in NextCurrent(a)}

Grow(a, size) ==
  LET m == AlignUp(DataHdr)
  IN  {Outcome([last |-> Append(a.last, m + size), failed |-> Append(Failed(a), 0),
                current |-> c],
               [block |-> Len(a.last) + 1, at |-> m]) : c \in NextCurrent(a)}

(***************************************************************************)
(* rap_palloc_small: the first block from current on with room, or a new   *)
(* block, which malloc may refuse.                                         *)
(***************************************************************************)
FirstFitting(a, size, align) ==
  {i \in Fitting(a, size, align) : \A j \in Fitting(a, size, align) : i <= j}

Small(a, size, align) ==
  IF Fitting(a, size, align) # {}
  THEN {Take(a, i, size, align) : i \in FirstFitting(a, size, align)}
  ELSE {Outcome(a, NULL)}
         \cup (IF Len(a.last) < MaxBlocks THEN Grow(a, size) ELSE {})

-----------------------------------------------------------------------------
(***************************************************************************)
(* A well formed arena, and where memory handed out of it may lie: behind  *)
(* the header of its block (a later block has a shorter one) and before    *)
(* the bytes that are still free.                                          *)
(***************************************************************************)
ArenaTyped(a) ==
  /\ a \in Arena
  /\ Len(a.last) = Len(a.failed)
  /\ Len(a.last) <= MaxBlocks
  /\ a.current \in 1 .. Len(a.last)

Header(b) == IF b = 1 THEN PoolHdr ELSE DataHdr

BlocksInBounds(a) ==
  \A b \in 1 .. Len(a.last) : Header(b) <= a.last[b] /\ a.last[b] <= PoolSize

InBounds(a, r) ==
  /\ r.block \in 1 .. Len(a.last)
  /\ Header(r.block) <= r.from
  /\ r.from <= r.to
  /\ r.to <= a.last[r.block]

Disjoint(r, s) == r.block # s.block \/ r.to <= s.from \/ s.to <= r.from
=============================================================================
