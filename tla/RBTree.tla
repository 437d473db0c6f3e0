------------------------------- MODULE RBTree -------------------------------
(***************************************************************************)
(* The red-black tree, rap/compiler/rap_rbtree.c and rap_rbtree.h, and the *)
(* tree of strings that rap/compiler/rap_string.c builds on it.            *)
(*                                                                         *)
(* The tree lives in the caller's nodes.  t.kid["left"], t.kid["right"],   *)
(* t.parent and t.red are their fields; left and right are one function of *)
(* the side, for the code treats them as mirror images.  All leaves are    *)
(* one shared sentinel: it is a node whose parent field every delete may   *)
(* write, and whose children nothing ever set.                             *)
(***************************************************************************)
EXTENDS Integers, FiniteSets, Sequences

CONSTANTS
  Nodes,              \* the caller's nodes
  Sentinel, NULL,
  KeyRange,           \* number of values of a key, 2^32 in the program
  Callers             \* what a caller stores: the kind of tree, each node's key,
                      \* and for the reader the rank that key stands for

ASSUME TreeAssumption ==
  /\ IsFiniteSet(Nodes)
  /\ Sentinel \notin Nodes /\ NULL \notin Nodes \cup {Sentinel}
  /\ KeyRange \in Nat \ {0}
  /\ \A c \in Callers : /\ c.kind \in {"value", "timer", "string"}
                        /\ DOMAIN c.key = Nodes /\ c.rank \in [Nodes -> Nat]

VARIABLES
  caller,             \* the caller using the tree, fixed
  t,                  \* the fields of the nodes and the root
  live,               \* the nodes in the tree
  walk                \* what a walk through the tree meets

vars == <<caller, t, live, walk>>

Sides == {"left", "right"}
Other(side) == IF side = "left" THEN "right" ELSE "left"

(***************************************************************************)
(* rap_rbtree_init: the root is the sentinel, which is black.  Its other   *)
(* fields, and the nodes', are whatever they were.                         *)
(***************************************************************************)
Init ==
  /\ caller \in Callers
  /\ t = [root |-> Sentinel,
          kid |-> [s \in Sides |-> [n \in Nodes \cup {Sentinel} |-> NULL]],
          parent |-> [n \in Nodes \cup {Sentinel} |-> NULL],
          red |-> [n \in Nodes \cup {Sentinel} |-> FALSE]]
  /\ live = {}
  /\ walk = << >>

Key(n) == caller.key[n]

SideOf(u, n) == IF n = u.kid["left"][u.parent[n]] THEN "left" ELSE "right"

(***************************************************************************)
(* One field of one node is written.                                       *)
(***************************************************************************)
MadeRed(u, n) == [u EXCEPT !.red[n] = TRUE]
MadeBlack(u, n) == [u EXCEPT !.red[n] = FALSE]
MadeLike(u, n, as) == [u EXCEPT !.red[n] = u.red[as]]
WithKid(u, side, n, kid) == [u EXCEPT !.kid[side][n] = kid]
WithParent(u, n, parent) == [u EXCEPT !.parent[n] = parent]

\* Both children of n.
WithKids(u, n, left, right) == WithKid(WithKid(u, "left", n, left), "right", n, right)

(***************************************************************************)
(* A loop from x on: a Step after the other until it is Done.  Most is     *)
(* more than the steps of any loop on a balanced tree.                     *)
(***************************************************************************)
Most == 2 * Cardinality(Nodes) + 2

Loop(Done(_), Step(_), x) ==
  LET after[k \in 0 .. Most] ==
        IF k = 0 THEN x
        ELSE LET y == after[k - 1] IN IF Done(y) THEN y ELSE Step(y)
  IN  after[Most]

(***************************************************************************)
(* What node was is now new, for the parent of node or for the root.       *)
(***************************************************************************)
Replaced(u, node, new) ==
  IF node = u.root THEN [u EXCEPT !.root = new]
  ELSE WithKid(u, SideOf(u, node), u.parent[node], new)

(***************************************************************************)
(* rap_rbtree_left_rotate and rap_rbtree_right_rotate.                     *)
(***************************************************************************)
\* Variant: the subtree that changes hands keeps its old parent.
RotatedForgetful(u, side, node) ==
  LET temp == u.kid[Other(side)][node]
      taken == WithKid(u, Other(side), node, u.kid[side][temp])
      up == Replaced(WithParent(taken, temp, u.parent[node]), node, temp)
  IN  WithParent(WithKid(up, side, temp, node), node, temp)

Rotated(u, side, node) ==
  LET temp == u.kid[Other(side)][node]
      inner == u.kid[side][temp]
      kept == IF inner = Sentinel THEN u ELSE WithParent(u, inner, node)
      taken == WithParent(WithKid(kept, Other(side), node, inner), temp, u.parent[node])
      up == Replaced(taken, node, temp)
  IN  WithParent(WithKid(up, side, temp, node), node, temp)

(***************************************************************************)
(* The three orders a tree is built with: rap_rbtree_insert_value,         *)
(* rap_rbtree_insert_timer_value (the sign of the difference of two 32 bit *)
(* keys) and rap_str_rbtree_insert_value (hash, then length, then bytes).  *)
(***************************************************************************)
StringBefore(a, b) ==
  IF a.hash # b.hash THEN a.hash < b.hash
  ELSE IF a.len # b.len THEN a.len < b.len
  ELSE a.data < b.data

(***************************************************************************)
(* What rank stands for: the numbers themselves, the times a timer's key   *)
(* is the low bits of, or the place of a string.                           *)
(***************************************************************************)
ASSUME CallerAssumption ==
  \A c \in Callers, n \in Nodes :
    /\ c.kind = "value" => \A m \in Nodes : c.key[n] < c.key[m] <=> c.rank[n] < c.rank[m]
    /\ c.kind = "timer" => c.key[n] = c.rank[n] % KeyRange
    /\ c.kind = "string" =>
         /\ c.key[n] \in [hash : Nat, len : Nat, data : Nat]
         /\ \A m \in Nodes : StringBefore(c.key[n], c.key[m]) <=> c.rank[n] < c.rank[m]

\* Variant: timers are compared as numbers.
GoesLeftUnwrapped(n, m) ==
  IF caller.kind = "string" THEN StringBefore(Key(n), Key(m)) ELSE Key(n) < Key(m)

GoesLeft(n, m) ==
  CASE caller.kind = "value"  -> Key(n) < Key(m)
    [] caller.kind = "timer"  -> (Key(n) - Key(m)) % KeyRange >= KeyRange \div 2
    [] caller.kind = "string" -> StringBefore(Key(n), Key(m))

Descended(u, node, temp) ==
  LET Side(m) == IF GoesLeft(node, m) THEN "left" ELSE "right"
      Below(m) == u.kid[Side(m)][m]
      AtLeaf(m) == Below(m) = Sentinel
      above == Loop(AtLeaf, Below, temp)
      below == WithParent(WithKid(u, Side(above), above, node), node, above)
  IN  MadeRed(WithKids(below, node, Sentinel, Sentinel), node)

(***************************************************************************)
(* The loop of rap_rbtree_insert.                                          *)
(***************************************************************************)
Balanced(y) == y.at = y.tree.root \/ ~y.tree.red[y.tree.parent[y.at]]

Rebalance(y) ==
  LET u == y.tree
      node == y.at
      up == u.parent[node]
      top == u.parent[up]
      side == SideOf(u, up)
      uncle == u.kid[Other(side)][top]
      outer == IF SideOf(u, node) = side THEN u ELSE Rotated(u, side, up)
      middle == IF SideOf(u, node) = side THEN up ELSE node
  IN  IF u.red[uncle]
      THEN [tree |-> MadeRed(MadeBlack(MadeBlack(u, up), uncle), top), at |-> top]
      ELSE [tree |-> Rotated(MadeRed(MadeBlack(outer, middle), top), Other(side), top),
            at |-> IF middle = up THEN node ELSE up]

Rebalanced(u, node) ==
  LET end == Loop(Balanced, Rebalance, [tree |-> u, at |-> node])
  IN  MadeBlack(end.tree, end.tree.root)

Inserted(u, node) ==
  IF u.root = Sentinel
  THEN LET alone == WithKids(WithParent(u, node, NULL), node, Sentinel, Sentinel)
       IN  [MadeBlack(alone, node) EXCEPT !.root = node]
  ELSE Rebalanced(Descended(u, node, u.root), node)

Least(u, node) ==
  LET Left(m) == u.kid["left"][m]
      NoLeft(m) == Left(m) = Sentinel
  IN  Loop(NoLeft, Left, node)

(***************************************************************************)
(* The fixup of rap_rbtree_delete: temp, on one side of up, carries a      *)
(* black too many.  A red brother of temp is rotated above up, so that     *)
(* the brother is black.  Then the brother's far child is made red.  Then  *)
(* up itself is rotated down to lend its black to temp.                    *)
(***************************************************************************)
BrotherBlack(u, side, up) ==
  LET w == u.kid[Other(side)][up]
  IN  IF u.red[w] THEN Rotated(MadeRed(MadeBlack(u, w), up), side, up) ELSE u

FarRed(u, side, up) ==
  LET w == u.kid[Other(side)][up]
      near == u.kid[side][w]
  IN  IF u.red[u.kid[Other(side)][w]] THEN u
      ELSE Rotated(MadeRed(MadeBlack(u, near), w), Other(side), w)

\* Variant: the far nephew is not painted black with the last rotation.
LentRed(u, side, up) ==
  LET w == u.kid[Other(side)][up]
  IN  Rotated(MadeBlack(MadeLike(u, w, up), up), side, up)

Lent(u, side, up) ==
  LET w == u.kid[Other(side)][up]
      lent == MadeBlack(MadeLike(u, w, up), up)
  IN  Rotated(MadeBlack(lent, u.kid[Other(side)][w]), side, up)

Fixed(y) == y.at = y.tree.root \/ y.tree.red[y.at]

FixUp(y) ==
  LET side == SideOf(y.tree, y.at)
      up == y.tree.parent[y.at]
      v == BrotherBlack(y.tree, side, up)
      w == v.kid[Other(side)][up]
      done == Lent(FarRed(v, side, up), side, up)
  IN  IF \A s \in Sides : ~v.red[v.kid[s][w]]
      THEN [tree |-> MadeRed(v, w), at |-> up]
      ELSE [tree |-> done, at |-> done.root]

FixedUp(u, temp) ==
  LET end == Loop(Fixed, FixUp, [tree |-> u, at |-> temp])
  IN  MadeBlack(end.tree, end.at)

(***************************************************************************)
(* rap_rbtree_delete: subst leaves its place to its only child, and takes  *)
(* the place of node when it is another.  The parent of that child is      *)
(* written even when it is the sentinel.                                   *)
(***************************************************************************)
TakesPlace(u, node, subst) ==
  LET held == WithKids(u, subst, u.kid["left"][node], u.kid["right"][node])
      moved == MadeLike(WithParent(held, subst, u.parent[node]), subst, node)
      placed == Replaced(moved, node, subst)
      kids == {placed.kid[s][subst] : s \in Sides} \ {Sentinel}
  IN  [placed EXCEPT !.parent = [n \in DOMAIN @ |-> IF n \in kids THEN subst ELSE @[n]]]

Unlinked(u, node, subst, temp) ==
  LET up == u.parent[subst]
      cut == WithKid(u, SideOf(u, subst), up, temp)
  IN  IF subst = node THEN WithParent(cut, temp, up)
      ELSE TakesPlace(WithParent(cut, temp, IF up = node THEN subst ELSE up), node, subst)

Cleared(u, node) == WithParent(WithKids(u, node, NULL, NULL), node, NULL)

Deleted(u, node) ==
  LET leaf == u.kid["left"][node] = Sentinel \/ u.kid["right"][node] = Sentinel
      subst == IF leaf THEN node ELSE Least(u, u.kid["right"][node])
      temp == IF u.kid["left"][subst] = Sentinel THEN u.kid["right"][subst]
              ELSE u.kid["left"][subst]
      gone == Cleared(Unlinked(u, node, subst, temp), node)
  IN  IF subst = u.root THEN Cleared(MadeBlack([u EXCEPT !.root = temp], temp), node)
      ELSE IF u.red[subst] THEN gone ELSE FixedUp(gone, temp)

(***************************************************************************)
(* rap_rbtree_next, and what a walk with it from the least node meets.     *)
(***************************************************************************)
Ascended(u, n) ==
  LET Up(m) == u.parent[m]
      FromLeft(m) == m = u.root \/ m = u.kid["left"][Up(m)]
      end == Loop(FromLeft, Up, n)
  IN  IF end = u.root THEN NULL ELSE Up(end)

Successor(u, n) ==
  IF u.kid["right"][n] # Sentinel THEN Least(u, u.kid["right"][n]) ELSE Ascended(u, n)

Walk(u) ==
  LET Ended(w) == w.at = NULL
      Onward(w) == [at |-> Successor(u, w.at), met |-> Append(w.met, w.at)]
  IN  IF u.root = Sentinel THEN << >>
      ELSE Loop(Ended, Onward, [at |-> Least(u, u.root), met |-> << >>]).met

(***************************************************************************)
(* What an operation leaves in fields that mean nothing is forgotten: the  *)
(* parents of the root and of the sentinel, the colour of a node outside.  *)
(* TLC stops with an error where a step follows a forgotten parent.        *)
(***************************************************************************)
Settled(u, inside) ==
  [u EXCEPT !.parent[u.root] = NULL, !.parent[Sentinel] = NULL,
            !.red = [n \in DOMAIN @ |-> @[n] /\ n \in inside \cup {Sentinel}]]

(***************************************************************************)
(* A caller inserts a node it does not have in the tree.  Callers keep     *)
(* timers "in small range, usually several minutes" (rap_rbtree.c:128).    *)
(***************************************************************************)
SmallRange(n) ==
  caller.kind = "timer" =>
    \A m \in live : caller.rank[n] - caller.rank[m] \in (1 - KeyRange \div 2) .. (KeyRange \div 2 - 1)

Insert(n) ==
  /\ n \notin live /\ SmallRange(n)
  /\ live' = live \cup {n}
  /\ t' = Settled(Inserted(t, n), live')
  /\ walk' = Walk(t')
  /\ UNCHANGED caller

Delete(n) ==
  /\ n \in live
  /\ live' = live \ {n}
  /\ t' = Settled(Deleted(t, n), live')
  /\ walk' = Walk(t')
  /\ UNCHANGED caller

Next == \E n \in Nodes : Insert(n) \/ Delete(n)

Spec == Init /\ [][Next]_vars

(***************************************************************************)
(* rap_str_rbtree_lookup.                                                  *)
(***************************************************************************)
\* Variant: a shorter string is looked for on the right.
LookupGoesLeftShort(val, n) ==
  IF val.hash = Key(n).hash /\ val.len # Key(n).len THEN val.len > Key(n).len
  ELSE StringBefore(val, Key(n))

LookupGoesLeft(val, n) ==
  IF val.hash # Key(n).hash THEN val.hash < Key(n).hash
  ELSE IF val.len # Key(n).len THEN val.len < Key(n).len
  ELSE val.data < Key(n).data

LookedUp(val, n) ==
  LET Below(m) == t.kid[IF LookupGoesLeft(val, m) THEN "left" ELSE "right"][m]
      Ended(m) == m = Sentinel \/ val = Key(m)
      end == Loop(Ended, Below, n)
  IN  IF end = Sentinel THEN NULL ELSE end

-----------------------------------------------------------------------------
(***************************************************************************)
(* The fields of the nodes in the tree agree: each but the root is a child *)
(* of its parent and of no other node, on one side.  Nodes outside are     *)
(* cleared, and the sentinel is black.                                     *)
(***************************************************************************)
Holds(p, n) == {s \in Sides : t.kid[s][p] = n}

LinksAgree ==
  /\ t.root \in live \/ (live = {} /\ t.root = Sentinel)
  /\ ~t.red[Sentinel]
  /\ \A n \in live \ {t.root} :
       {p \in live : Holds(p, n) # {}} = {t.parent[n]} /\ Cardinality(Holds(t.parent[n], n)) = 1
  /\ \A n \in live, s \in Sides : t.kid[s][n] \in (live \ {t.root}) \cup {Sentinel}
  /\ \A n \in Nodes \ live, s \in Sides : t.kid[s][n] = NULL

(***************************************************************************)
(* The tree is balanced: a red node has black children, and the paths down *)
(* from a node all meet as many black nodes.                               *)
(***************************************************************************)
Black(n) == IF t.red[n] THEN 0 ELSE 1

\* black nodes on the path that goes down from n to the left
BlackHeight[n \in live \cup {Sentinel}] ==
  IF n = Sentinel THEN 0 ELSE BlackHeight[t.kid["left"][n]] + Black(n)

RedBlack ==
  /\ ~t.red[t.root]
  /\ \A n \in live, s \in Sides : t.red[n] => ~t.red[t.kid[s][n]]
  /\ \A n \in live, s \in Sides : BlackHeight[n] = BlackHeight[t.kid[s][n]] + Black(n)

(***************************************************************************)
(* rap_str_rbtree_lookup finds a string exactly when the tree holds it.    *)
(***************************************************************************)
LookupFinds ==
  caller.kind = "string" =>
    \A n \in Nodes :
      LET found == LookedUp(Key(n), t.root)
      IN  IF \E m \in live : Key(m) = Key(n) THEN found \in live /\ Key(found) = Key(n)
          ELSE found = NULL

(***************************************************************************)
(* Walking from the least node with rap_rbtree_next meets the nodes in the *)
(* order of the contract, whatever was inserted and deleted before: the    *)
(* tree implements a sorted sequence, timers and strings included.         *)
(***************************************************************************)
Contract == INSTANCE OrderedContract WITH rank <- caller.rank, order <- walk

KeepsOrder == Contract!Spec
=============================================================================
