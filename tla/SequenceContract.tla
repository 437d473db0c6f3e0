-------------------------- MODULE SequenceContract --------------------------
(***************************************************************************)
(* What rap_array promises its caller: an array is a sequence of elements  *)
(* that only grows at its end and whose elements keep their values, until  *)
(* it is destroyed, whatever else is allocated from the same pool.         *)
(***************************************************************************)
EXTENDS Naturals, Sequences

CONSTANTS
  Arrays,
  MaxPushed,          \* elements pushed by one call, at most
  Absent              \* an array that was not created or is destroyed

VARIABLE items        \* items[a]: the elements of a, or Absent

Init == items = [a \in Arrays |-> Absent]

Create(a) == items[a] = Absent /\ items' = [items EXCEPT ![a] = << >>]

(***************************************************************************)
(* The caller's n-th element of an array has the value n.                  *)
(***************************************************************************)
Push(a, n) ==
  /\ items[a] # Absent
  /\ items' = [items EXCEPT ![a] = [i \in 1 .. Len(items[a]) + n |->
                                      IF i <= Len(items[a]) THEN items[a][i] ELSE i]]

Destroy(a) == items[a] # Absent /\ items' = [items EXCEPT ![a] = Absent]

Next ==
  \E a \in Arrays :
    \/ Create(a)
    \/ \E n \in 1 .. MaxPushed : Push(a, n)
    \/ Destroy(a)

Spec == Init /\ [][Next]_items
=============================================================================
