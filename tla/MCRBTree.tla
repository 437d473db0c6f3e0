------------------------------ MODULE MCRBTree ------------------------------
(***************************************************************************)
(* Trees over eight nodes for four callers: distinct keys, keys with       *)
(* duplicates, timers around the wrap of a 4 bit clock, and strings that   *)
(* share hashes and lengths.                                               *)
(***************************************************************************)
EXTENDS RBTree

MCNodes == 1 .. 8

Strings == << <<1, 1, 1>>, <<1, 1, 2>>, <<1, 2, 1>>, <<1, 2, 1>>,
              <<2, 1, 1>>, <<2, 1, 2>>, <<2, 2, 1>>, <<3, 1, 1>> >>

Deadlines == <<6, 9, 11, 14, 15, 17, 18, 22>>

MCCallers == {
  [kind |-> "value", key |-> [n \in MCNodes |-> n], rank |-> [n \in MCNodes |-> n]],
  [kind |-> "value", key |-> [n \in MCNodes |-> (n + 1) \div 3],
   rank |-> [n \in MCNodes |-> (n + 1) \div 3]],
  [kind |-> "timer", key |-> [n \in MCNodes |-> Deadlines[n] % 16],
   rank |-> [n \in MCNodes |-> Deadlines[n]]],
  [kind |-> "string",
   key |-> [n \in MCNodes |->
              [hash |-> Strings[n][1], len |-> Strings[n][2], data |-> Strings[n][3]]],
   rank |-> [n \in MCNodes |-> 100 * Strings[n][1] + 10 * Strings[n][2] + Strings[n][3]]] }
=============================================================================
