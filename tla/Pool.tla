------------------------------- MODULE Pool -------------------------------
(***************************************************************************)
(* A memory pool and the calls on it, rap/compiler/rap_palloc.c: small     *)
(* allocations out of the arena, large ones from malloc kept on a list,    *)
(* cleanup handlers run when the pool is destroyed, reset and destruction. *)
(* Any malloc may fail.                                                    *)
(*                                                                         *)
(* regions is a history of what was handed out of the arena since the last *)
(* reset; heap and openFiles are the resources outside the arena that the  *)
(* pool has to give back.                                                  *)
(***************************************************************************)
EXTENDS PoolArena, FiniteSets

CONSTANTS
  CleanupRec,         \* sizeof(rap_pool_cleanup_t)
  FileRec,            \* sizeof(rap_pool_cleanup_file_t)
  ScanLimit,          \* records of the large list searched for reuse
  Sizes,              \* sizes callers ask for
  Chunks,             \* what malloc returns for large allocations
  Files,              \* file descriptors with a cleanup handler
  MaxRegions,         \* bound: live allocations from the arena
  MaxCleanups         \* bound: length of the cleanup list

ASSUME CallAssumption ==
  /\ CleanupRec \in Nat /\ CleanupRec <= 2 * LargeRec
  /\ FileRec \in Nat /\ FileRec <= 2 * LargeRec
  /\ 2 * LargeRec <= MaxFromPool
  /\ Sizes \subseteq Nat /\ ScanLimit \in Nat
  /\ MaxRegions \in Nat /\ MaxCleanups \in Nat
  /\ NULL \notin Chunks /\ NULL \notin Files

VARIABLES
  state,              \* none, live or destroyed
  arena,
  large,              \* the list of large allocations, pool->large first
  cleanup,            \* the list of cleanup handlers, pool->cleanup first
  heap,               \* chunks obtained from malloc and not freed
  openFiles,          \* registered files that are open
  badClose,           \* history: a file was closed that was not open
  exposed,            \* history: a reset left cleanup records in free memory
  regions             \* history: live allocations from the arena, in order

vars == <<state, arena, large, cleanup, heap, openFiles, badClose, exposed, regions>>

outside == <<heap, openFiles, badClose>>

Uses == {"user", "large", "cleanup", "file"}
Region == [block : Nat, from : Nat, to : Nat, use : Uses]
LargeEntry == [record : Address, alloc : Chunks \cup {NULL}]
CleanupEntry == [record : Address, handler : {"none", "close", "delete"},
                 file : Files]

Init ==
  /\ state = "none"
  /\ arena = NewArena
  /\ large = << >>
  /\ cleanup = << >>
  /\ heap = {}
  /\ openFiles = {}
  /\ badClose = FALSE
  /\ exposed = FALSE
  /\ regions = << >>

RegionAt(address, size, use) ==
  [block |-> address.block, from |-> address.at, to |-> address.at + size, use |-> use]

Allocates == state = "live" /\ Len(regions) < MaxRegions

CreatePool ==
  /\ state = "none"
  /\ state' = "live"
  /\ arena' = NewArena
  /\ UNCHANGED <<large, cleanup, heap, openFiles, badClose, exposed, regions>>

(***************************************************************************)
(* rap_palloc, rap_pcalloc (aligned) and rap_pnalloc (unaligned) of a size *)
(* that fits a block.  A NULL result changes nothing.                      *)
(***************************************************************************)
AllocateSmall(size, align) ==
  /\ Allocates
  /\ size <= PoolMax
  /\ \E o \in Small(arena, size, align) :
       /\ o.at # NULL
       /\ arena' = o.arena
       /\ regions' = Append(regions, RegionAt(o.at, size, "user"))
  /\ UNCHANGED <<state, large, cleanup, heap, openFiles, badClose, exposed>>

Palloc(size) == AllocateSmall(size, TRUE)
Pnalloc(size) == AllocateSmall(size, FALSE)

(***************************************************************************)
(* A large chunk c gets a new record at the head of the list; without room *)
(* for the record c is freed again.                                        *)
(***************************************************************************)
\* Variant: the chunk is not freed when there is no room for its record.
AddLargeLeaks(c) ==
  \E o \in Small(arena, LargeRec, TRUE) :
    /\ arena' = o.arena
    /\ heap' = heap \cup {c}
    /\ IF o.at = NULL
       THEN UNCHANGED <<large, regions>>
       ELSE /\ large' = << [record |-> o.at, alloc |-> c] >> \o large
            /\ regions' = Append(regions, RegionAt(o.at, LargeRec, "large"))

AddLarge(c) ==
  \E o \in Small(arena, LargeRec, TRUE) :
    /\ arena' = o.arena
    /\ IF o.at = NULL
       THEN UNCHANGED <<large, heap, regions>>
       ELSE /\ large' = << [record |-> o.at, alloc |-> c] >> \o large
            /\ heap' = heap \cup {c}
            /\ regions' = Append(regions, RegionAt(o.at, LargeRec, "large"))

(***************************************************************************)
(* rap_palloc_large: one of the first ScanLimit records may have been      *)
(* freed and is used again.                                                *)
(***************************************************************************)
FreeSlots ==
  {i \in DOMAIN large : i <= ScanLimit /\ large[i].alloc = NULL}

ReuseSlot(c) ==
  \E i \in FreeSlots :
    /\ \A j \in FreeSlots : i <= j
    /\ large' = [large EXCEPT ![i] = [record |-> large[i].record, alloc |-> c]]
    /\ heap' = heap \cup {c}
    /\ UNCHANGED <<arena, regions>>

PallocLarge ==
  /\ Allocates
  /\ \E c \in Chunks \ heap : IF FreeSlots # {} THEN ReuseSlot(c) ELSE AddLarge(c)
  /\ UNCHANGED <<state, cleanup, openFiles, badClose, exposed>>

Pmemalign ==
  /\ Allocates
  /\ \E c \in Chunks \ heap : AddLarge(c)
  /\ UNCHANGED <<state, cleanup, openFiles, badClose, exposed>>

(***************************************************************************)
(* rap_pfree of a chunk the pool handed out.                               *)
(***************************************************************************)
Pfree(c) ==
  /\ state = "live"
  /\ \E i \in DOMAIN large :
       /\ large[i].alloc = c
       /\ \A j \in 1 .. i - 1 : large[j].alloc # c
       /\ large' = [large EXCEPT ![i] = [record |-> large[i].record, alloc |-> NULL]]
  /\ heap' = heap \ {c}
  /\ UNCHANGED <<state, arena, cleanup, openFiles, badClose, exposed, regions>>

Allocated == {large[i].alloc : i \in DOMAIN large} \ {NULL}

(***************************************************************************)
(* rap_reset_pool: the large chunks are freed, every block starts again    *)
(* after a whole rap_pool_t, and the cleanup list stays as it is.          *)
(***************************************************************************)
ResetArena(a) ==
  [last |-> [i \in DOMAIN a.last |-> PoolHdr],
   failed |-> [i \in DOMAIN a.failed |-> 0],
   current |-> 1]

\* Variant: the list of large allocations is not emptied.
ResetPoolKeepsLarge ==
  /\ state = "live"
  /\ arena' = ResetArena(arena)
  /\ heap' = heap \ Allocated
  /\ regions' = << >>
  /\ exposed' = (exposed \/ cleanup # << >>)
  /\ UNCHANGED <<state, large, cleanup, openFiles, badClose>>

ResetPool ==
  /\ state = "live"
  /\ arena' = ResetArena(arena)
  /\ large' = << >>
  /\ heap' = heap \ Allocated
  /\ regions' = << >>
  /\ exposed' = (exposed \/ cleanup # << >>)
  /\ UNCHANGED <<state, cleanup, openFiles, badClose>>

(***************************************************************************)
(* rap_pool_cleanup_add by a caller that has opened file f, and then sets  *)
(* the handler: a record and the data of the handler come from the arena.  *)
(* When the second allocation fails the first is lost to the pool.         *)
(***************************************************************************)
CleanupAdd(f, handler) ==
  /\ Allocates
  /\ f \notin openFiles
  /\ Len(cleanup) < MaxCleanups
  /\ \E o \in Small(arena, CleanupRec, TRUE) :
       /\ o.at # NULL
       /\ \E q \in Small(o.arena, FileRec, TRUE) :
            /\ arena' = q.arena
            /\ IF q.at = NULL
               THEN /\ regions' = Append(regions, RegionAt(o.at, CleanupRec, "user"))
                    /\ UNCHANGED <<cleanup, openFiles>>
               ELSE /\ regions' = Append(Append(regions, RegionAt(o.at, CleanupRec, "cleanup")),
                                          RegionAt(q.at, FileRec, "file"))
                    /\ cleanup' = << [record |-> o.at, handler |-> handler, file |-> f] >>
                                    \o cleanup
                    /\ openFiles' = openFiles \cup {f}
  /\ UNCHANGED <<state, large, heap, badClose, exposed>>

(***************************************************************************)
(* rap_pool_run_cleanup_file: the first handler that closes f runs now and *)
(* is disarmed.  Once a reset has exposed the records, what they hold is   *)
(* not defined and neither this nor the destruction is modelled.           *)
(***************************************************************************)
Closes(f) == {i \in DOMAIN cleanup : cleanup[i].handler = "close" /\ cleanup[i].file = f}

\* Variant: the handler stays armed after it ran.
RunCleanupFileStaysArmed(f) ==
  /\ state = "live" /\ ~ exposed
  /\ Closes(f) # {}
  /\ badClose' = (badClose \/ f \notin openFiles)
  /\ openFiles' = openFiles \ {f}
  /\ UNCHANGED <<state, arena, large, cleanup, heap, exposed, regions>>

RunCleanupFile(f) ==
  /\ state = "live" /\ ~ exposed
  /\ \E i \in Closes(f) :
       /\ \A j \in Closes(f) : i <= j
       /\ cleanup' = [cleanup EXCEPT ![i] =
                        [record |-> cleanup[i].record, handler |-> "none", file |-> f]]
  /\ badClose' = (badClose \/ f \notin openFiles)
  /\ openFiles' = openFiles \ {f}
  /\ UNCHANGED <<state, arena, large, heap, exposed, regions>>

(***************************************************************************)
(* rap_destroy_pool: the armed handlers run, the large chunks and then the *)
(* blocks are freed.                                                       *)
(***************************************************************************)
Armed == {i \in DOMAIN cleanup : cleanup[i].handler # "none"}

DestroyPool ==
  /\ state = "live" /\ ~ exposed
  /\ badClose' = (badClose \/ \E i \in Armed :
                    \/ cleanup[i].file \notin openFiles
                    \/ \E j \in Armed : j # i /\ cleanup[j].file = cleanup[i].file)
  /\ openFiles' = openFiles \ {cleanup[i].file : i \in Armed}
  /\ heap' = heap \ Allocated
  /\ state' = "destroyed"
  /\ cleanup' = << >> /\ large' = << >> /\ regions' = << >> /\ arena' = NewArena
  /\ UNCHANGED exposed

Next ==
  \/ CreatePool
  \/ \E size \in Sizes : Palloc(size) \/ Pnalloc(size)
  \/ PallocLarge
  \/ Pmemalign
  \/ \E c \in Chunks : Pfree(c)
  \/ ResetPool
  \/ \E f \in Files, handler \in {"close", "delete"} : CleanupAdd(f, handler)
  \/ \E f \in Files : RunCleanupFile(f)
  \/ DestroyPool

Spec == Init /\ [][Next]_vars

-----------------------------------------------------------------------------
(***************************************************************************)
(* Types of the pool and of the histories (rap_palloc.h:102-142).          *)
(***************************************************************************)
TypeOK ==
  /\ state \in {"none", "live", "destroyed"}
  /\ ArenaTyped(arena)
  /\ large \in Seq(LargeEntry)
  /\ cleanup \in Seq(CleanupEntry)
  /\ heap \subseteq Chunks
  /\ openFiles \subseteq Files
  /\ badClose \in BOOLEAN
  /\ exposed \in BOOLEAN
  /\ regions \in Seq(Region)

(***************************************************************************)
(* Memory handed out lies between the header of its block and the bytes    *)
(* still free, so inside the block (rap_palloc.c:149-160,184-192), whatever*)
(* sizes were asked for, aligned or not, before or after a reset.          *)
(***************************************************************************)
AllocationsInBounds ==
  /\ BlocksInBounds(arena)
  /\ \A k \in 1 .. Len(regions) : InBounds(arena, regions[k])

(***************************************************************************)
(* No byte is handed out twice: live allocations, the pool's own records   *)
(* among them, are pairwise disjoint (rap_palloc.c:141-203).               *)
(***************************************************************************)
AllocationsDisjoint ==
  \A j, k \in 1 .. Len(regions) : j < k => Disjoint(regions[j], regions[k])

(***************************************************************************)
(* The large list is the account of what malloc gave (rap_palloc.c:206-285,*)
(* 77-81, 99-103): every chunk obtained is on the list once, so that reset *)
(* and destruction free each exactly once and leave none behind.           *)
(***************************************************************************)
LargeListExact ==
  /\ heap = Allocated
  /\ \A i, j \in DOMAIN large :
       i < j /\ large[i].alloc = large[j].alloc => large[i].alloc = NULL

(***************************************************************************)
(* A registered file is closed exactly once, by its own handler or by the  *)
(* destruction, and no handler closes another's (rap_palloc.c:48-53,       *)
(* 333-364).                                                               *)
(***************************************************************************)
FilesClosedOnce ==
  /\ ~ badClose
  /\ ~ exposed =>
       /\ openFiles = {cleanup[i].file : i \in Armed}
       /\ \A i, j \in Armed : cleanup[i].file = cleanup[j].file => i = j

(***************************************************************************)
(* The records the pool keeps in its own memory stay allocated as long as  *)
(* they are linked, except for cleanup records across a reset, which       *)
(* frees the blocks under a list it keeps (rap_palloc.c:93-112).           *)
(***************************************************************************)
Owns(address, size, use) ==
  \E k \in DOMAIN regions : regions[k] = RegionAt(address, size, use)

RecordsIntact ==
  /\ \A i \in DOMAIN large : Owns(large[i].record, LargeRec, "large")
  /\ ~ exposed => \A i \in DOMAIN cleanup : Owns(cleanup[i].record, CleanupRec, "cleanup")

(***************************************************************************)
(* The search gives up on a block only at the failure after it failed more *)
(* than FailLimit times since the last reset, and no block still searched  *)
(* failed more often than one before it (rap_palloc.c:194-198).            *)
(***************************************************************************)
SkippedBlocksFailedOften ==
  LET blocks == DOMAIN arena.failed
  IN  /\ \A b \in blocks : b < arena.current => arena.failed[b] > FailLimit + 1
      /\ \A b, c \in blocks :
           arena.current <= b /\ b < c => arena.failed[c] <= arena.failed[b]
=============================================================================
