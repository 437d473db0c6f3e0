------------------------------ MODULE MCPool ------------------------------
(***************************************************************************)
(* A small pool, its sizes scaled down: two units are aligned, blocks have *)
(* 10 units, 6 of them the header of the first block and 4 that of a later *)
(* one, so that three or four allocations, some of them unaligned, fill    *)
(* several blocks.  A block is skipped from its second failure on, instead *)
(* of its sixth, and one record of the large list is searched for reuse,   *)
(* instead of five, so that both happen.                                   *)
(***************************************************************************)
EXTENDS Pool, TLC

CONSTANTS c1, c2, f1

MCChunks == {c1, c2}
MCFiles == {f1}

\* One size that leaves a block unaligned, one that fills the first block.
MCSizes == {1, 4}

ChunkSymmetry == Permutations(MCChunks)
=============================================================================
