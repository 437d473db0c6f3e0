-------------------------- MODULE OrderedContract --------------------------
(***************************************************************************)
(* What the users of the red-black tree rely on, without any tree: its     *)
(* nodes form a sequence sorted by rank.  A new node goes behind every     *)
(* node of the same rank, and nothing but its own removal moves a node.    *)
(***************************************************************************)
EXTENDS Naturals, SequencesExt

CONSTANT Nodes

VARIABLES
  rank,               \* the place each node asks for
  order               \* the nodes of the tree, first to last

Init ==
  /\ rank \in [Nodes -> Nat]
  /\ order = << >>

Place(old, n) == Cardinality({i \in DOMAIN old : rank[old[i]] <= rank[n]}) + 1

Inserts(old, n) == IF n \in ToSet(old) THEN {} ELSE {InsertAt(old, Place(old, n), n)}

Deletes(old, n) == {RemoveAt(old, i) : i \in {i \in DOMAIN old : old[i] = n}}

Next ==
  /\ LET old == order
     IN  order' \in UNION {Inserts(old, n) \cup Deletes(old, n) : n \in Nodes}
  /\ UNCHANGED rank

Spec == Init /\ [][Next]_<<rank, order>>
=============================================================================
