----------------------------- MODULE MCRapArray -----------------------------
(***************************************************************************)
(* Two arrays of one pool, sizes scaled down.  Behind the header the first *)
(* block has room for one structure and four elements or two               *)
(* structures, and an array of three elements that has to move takes a     *)
(* chunk of its own, so that every way to grow, and every order of         *)
(* destroying the arrays, happens next to memory that others hold.         *)
(***************************************************************************)
EXTENDS RapArray

CONSTANTS a1, a2

MCArrays == {a1, a2}
MCInitialSizes == {1, 2}
MCPushCounts == {2}
MCOtherSizes == {1}
=============================================================================
