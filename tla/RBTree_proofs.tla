--------------------------- MODULE RBTree_proofs ---------------------------
(***************************************************************************)
(* A balanced tree stays balanced and in order when nodes are inserted and *)
(* deleted, for every set of nodes and whatever orders them.  First        *)
(* rap_rbtree_insert: the rotations and the strokes of paint, the loops    *)
(* and why they end, and the way down of rap_rbtree_insert_value and its   *)
(* relatives.  Then rap_rbtree_delete, and what follows for every state of *)
(* the tree: the links, the balance, the order of a walk and what a lookup *)
(* finds.                                                                  *)
(***************************************************************************)
EXTENDS RBTree, FiniteSetTheorems, SequenceTheorems, WellFoundedInduction, TLAPS

\* The nodes a tree is made of, the sentinel among them.
All == Nodes \cup {Sentinel}

(***************************************************************************)
(* The fields of a node, each read by one operator, so that a proof that   *)
(* has no use for how they are stored does not see it.                     *)
(***************************************************************************)
Kid(u, side, n) == u.kid[side][n]
Parent(u, n) == u.parent[n]
IsRed(u, n) == u.red[n]
At(h, n) == h[n]
Root(u) == u.root

\* h counts something at every node: heights, depths.
Counted(h) == \A n \in All : At(h, n) \in Nat

\* What v has in common with u.
SameKids(u, v) == \A s, n : Kid(v, s, n) = Kid(u, s, n)
SameParents(u, v) == \A n : Parent(v, n) = Parent(u, n)
SameReds(u, v) == \A n : IsRed(v, n) = IsRed(u, n)

\* The fields of the nodes and the root, of the right types.
Trees == [root : All, kid : [Sides -> [All -> All \cup {NULL}]],
          parent : [All -> All \cup {NULL}], red : [All -> BOOLEAN]]

\* The links of a tree u of the nodes V agree: children, parents, and the root.
Linked(u, V) ==
  /\ u \in Trees /\ V \subseteq Nodes
  /\ Root(u) \in V \/ (V = {} /\ Root(u) = Sentinel)
  /\ ~IsRed(u, Sentinel)
  /\ \A n \in V, s \in Sides : Kid(u, s, n) \in (V \ {Root(u)}) \cup {Sentinel}
  /\ \A n \in V, s \in Sides : Kid(u, s, n) # Sentinel => Parent(u, Kid(u, s, n)) = n
  /\ \A n \in V \ {Root(u)} : Parent(u, n) \in V /\ \E s \in Sides : Kid(u, s, Parent(u, n)) = n
  /\ \A n \in V : Kid(u, "left", n) = Kid(u, "right", n) => Kid(u, "left", n) = Sentinel

\* A number falls with every step down, so that the links make no circle.
Falls(u, V, mu) ==
  /\ Counted(mu)
  /\ \A n \in V, s \in Sides : Kid(u, s, n) # Sentinel => At(mu, Kid(u, s, n)) < At(mu, n)

\* u is a tree of the nodes V.
Tree(u, V) == Linked(u, V) /\ \E mu : Falls(u, V, mu)

\* What rap_rbtree_left_rotate and rap_rbtree_right_rotate make of u.
Turned(u, v, V, side, node) ==
  LET temp == Kid(u, Other(side), node)
      inner == Kid(u, side, temp)
  IN  /\ v \in Trees
      /\ Root(v) = IF node = Root(u) THEN temp ELSE Root(u)
      /\ \A m \in All :
           Parent(v, m) = IF m = node THEN temp
                         ELSE IF m = temp THEN Parent(u, node)
                         ELSE IF m = inner /\ inner # Sentinel THEN node
                         ELSE Parent(u, m)
      /\ \A m \in All, z \in Sides :
           Kid(v, z, m) = IF m = node /\ z = Other(side) THEN inner
                         ELSE IF m = temp /\ z = side THEN node
                         ELSE IF m \in V /\ Kid(u, z, m) = node THEN temp
                         ELSE Kid(u, z, m)
      /\ SameReds(u, v)

\* A rotation writes the fields of three different nodes.
LEMMA Distinct ==
  ASSUME NEW u, NEW V, NEW mu, Linked(u, V), Falls(u, V, mu),
         NEW side \in Sides, NEW node \in V, Kid(u, Other(side), node) \in V,
         NEW temp, temp = Kid(u, Other(side), node),
         NEW inner, inner = Kid(u, side, temp)
  PROVE  /\ node # temp /\ node # inner /\ temp # inner
         /\ Parent(u, temp) = node /\ temp # Root(u) /\ inner # Root(u)
         /\ inner \in V => Parent(u, inner) = temp
         /\ node # Root(u) => /\ Parent(u, node) \in V
                             /\ Parent(u, node) \notin {node, temp, inner}
         /\ Kid(u, side, node) # temp
         /\ \A z \in Sides : Kid(u, z, temp) # node /\ Kid(u, z, node) # node
<1>1. /\ Other(side) \in Sides /\ Other(side) # side /\ temp \in V
      /\ V \subseteq Nodes /\ Sentinel \notin V /\ inner \in V \cup {Sentinel}
  BY TreeAssumption DEF Linked, Sides, Other
<1>2. At(mu, temp) < At(mu, node) /\ (inner \in V => At(mu, inner) < At(mu, temp))
  BY <1>1, TreeAssumption DEF Falls
<1>3. \A m \in V : At(mu, m) \in Nat
  BY <1>1 DEF Falls, All, Counted
<1>4. Parent(u, temp) = node /\ temp # Root(u) /\ inner # Root(u)
  BY <1>1, TreeAssumption DEF Linked
<1>5. inner \in V => Parent(u, inner) = temp
  BY <1>1 DEF Linked
<1>6. node # Root(u) => Parent(u, node) \in V /\ At(mu, node) < At(mu, Parent(u, node))
  BY <1>1, TreeAssumption DEF Linked, Falls
<1>7. Kid(u, side, node) # temp
  <2>1. Kid(u, "left", node) # Kid(u, "right", node) \/ Kid(u, side, node) = Sentinel
    BY DEF Linked, Sides
  <2> QED
    BY <2>1, <1>1 DEF Sides, Other
<1>8. \A z \in Sides : Kid(u, z, temp) # node /\ Kid(u, z, node) # node
  BY <1>1, <1>2, <1>3 DEF Falls
<1> QED
  BY <1>1, <1>2, <1>3, <1>4, <1>5, <1>6, <1>7, <1>8

\* v is u with one field written
KidIs(u, v, s, n, x) ==
  /\ v \in Trees /\ Root(v) = Root(u) /\ SameParents(u, v) /\ SameReds(u, v)
  /\ \A m \in All, z \in Sides : Kid(v, z, m) = IF z = s /\ m = n THEN x ELSE Kid(u, z, m)

ParentIs(u, v, n, x) ==
  /\ v \in Trees /\ Root(v) = Root(u) /\ SameKids(u, v) /\ SameReds(u, v)
  /\ \A m \in All : Parent(v, m) = IF m = n THEN x ELSE Parent(u, m)

\* v is u with other colours
Repainted(u, v) == v \in Trees /\ Root(v) = Root(u) /\ SameKids(u, v) /\ SameParents(u, v)

RedIs(u, v, n) == Repainted(u, v) /\ \A m \in All : IsRed(v, m) <=> m = n \/ IsRed(u, m)
BlackIs(u, v, n) == Repainted(u, v) /\ \A m \in All : IsRed(v, m) <=> m # n /\ IsRed(u, m)
LikeIs(u, v, n, a) ==
  /\ Repainted(u, v)
  /\ \A m \in All : IsRed(v, m) <=> (m = n /\ IsRed(u, a)) \/ (m # n /\ IsRed(u, m))

\* v is u with another root.
RootIs(u, v, n) ==
  v \in Trees /\ Root(v) = n /\ SameReds(u, v) /\ SameKids(u, v) /\ SameParents(u, v)

\* One field written by the code, read back: a child.
LEMMA KidWritten ==
  ASSUME NEW u \in Trees, NEW s \in Sides, NEW n \in All, NEW x \in All \cup {NULL}
  PROVE  KidIs(u, WithKid(u, s, n, x), s, n, x)
  BY DEF Trees, WithKid, KidIs, SameParents, SameReds, Parent, IsRed, Root, Kid

\* A parent.
LEMMA ParentWritten ==
  ASSUME NEW u \in Trees, NEW n \in All, NEW x \in All \cup {NULL}
  PROVE  ParentIs(u, WithParent(u, n, x), n, x)
  BY DEF Trees, WithParent, ParentIs, SameKids, SameReds, Parent, IsRed, Root, Kid

\* A colour: rap_rbt_red, rap_rbt_black and rap_rbt_copy_color.
LEMMA ColourWritten ==
  ASSUME NEW u \in Trees, NEW n \in All
  PROVE  /\ RedIs(u, MadeRed(u, n), n) /\ BlackIs(u, MadeBlack(u, n), n)
         /\ \A a \in All : LikeIs(u, MadeLike(u, n, a), n, a)
<1>1. RedIs(u, MadeRed(u, n), n)
  BY DEF Trees, MadeRed, RedIs, Repainted, SameKids, SameParents, Parent, IsRed, Root, Kid
<1>2. BlackIs(u, MadeBlack(u, n), n)
  BY DEF Trees, MadeBlack, BlackIs, Repainted, SameKids, SameParents, Parent, IsRed, Root, Kid
<1>3. ASSUME NEW a \in All PROVE LikeIs(u, MadeLike(u, n, a), n, a)
  BY DEF Trees, MadeLike, LikeIs, Repainted, SameKids, SameParents, Parent, IsRed, Root, Kid
<1> QED
  BY <1>1, <1>2, <1>3

\* The root.
LEMMA RootWritten ==
  ASSUME NEW u \in Trees, NEW n \in All
  PROVE  RootIs(u, [u EXCEPT !.root = n], n)
  BY DEF Trees, RootIs, SameKids, SameParents, SameReds, Parent, IsRed, Root, Kid

(***************************************************************************)
(* The statements of rap_rbtree_left_rotate and rap_rbtree_right_rotate,   *)
(* one after the other, turn the tree.                                     *)
(***************************************************************************)
LEMMA RotatedAs ==
  ASSUME NEW u, NEW V, NEW mu, Linked(u, V), Falls(u, V, mu),
         NEW side \in Sides, NEW node \in V, Kid(u, Other(side), node) \in V
  PROVE  Turned(u, Rotated(u, side, node), V, side, node)
<1> PICK temp, inner : temp = Kid(u, Other(side), node) /\ inner = Kid(u, side, temp)
  OBVIOUS
<1>1. /\ u \in Trees /\ node \in All /\ temp \in V /\ temp \in All /\ inner \in All
      /\ Other(side) \in Sides /\ Other(side) # side /\ inner \in V \cup {Sentinel}
      /\ V \subseteq Nodes /\ Sentinel \notin V /\ Parent(u, node) \in All \cup {NULL}
      /\ \A m \in V : m \in All /\ Parent(u, m) \in All \cup {NULL}
      /\ Parent(u, inner) \in All \cup {NULL}
  BY TreeAssumption DEF Linked, All, Other, Sides, Trees, Parent, Kid
<1>2. /\ node # temp /\ node # inner /\ temp # inner /\ Parent(u, temp) = node
      /\ node # Root(u) => Parent(u, node) \in V /\ Parent(u, node) \notin {node, temp, inner}
      /\ temp # Root(u) /\ \A z \in Sides : Kid(u, z, temp) # node /\ Kid(u, z, node) # node
  BY Distinct
<1> DEFINE kept == IF inner = Sentinel THEN u ELSE WithParent(u, inner, node)
<1> DEFINE hung == WithKid(kept, Other(side), node, inner)
<1> DEFINE bent == WithParent(hung, temp, Parent(u, node))
<1> DEFINE up == Replaced(bent, node, temp)
<1> DEFINE put == WithKid(up, side, temp, node)
<1> DEFINE v == WithParent(put, node, temp)
<1>3. Rotated(u, side, node) = v
  BY DEF Rotated, Kid, Parent
<1>4. /\ kept \in Trees /\ Root(kept) = Root(u) /\ SameReds(u, kept) /\ SameKids(u, kept)
      /\ \A m \in All : Parent(kept, m) = IF m = inner /\ inner # Sentinel THEN node ELSE Parent(u, m)
  <2>1. inner # Sentinel => ParentIs(u, kept, inner, node)
    BY <1>1, ParentWritten
  <2> QED
    BY <1>1, <2>1 DEF ParentIs, SameReds, SameKids
<1> HIDE DEF kept
<1>5. /\ bent \in Trees /\ Root(bent) = Root(u) /\ SameReds(u, bent)
      /\ \A m \in All : Parent(bent, m) = IF m = temp THEN Parent(u, node) ELSE Parent(kept, m)
      /\ \A m \in All, z \in Sides :
           Kid(bent, z, m) = IF z = Other(side) /\ m = node THEN inner ELSE Kid(u, z, m)
  <2>1. KidIs(kept, hung, Other(side), node, inner)
    BY <1>1, <1>4, KidWritten
  <2>2. ParentIs(hung, bent, temp, Parent(u, node))
    <3>1. hung \in Trees
      BY <2>1 DEF KidIs
    <3> HIDE DEF hung
    <3> QED
      BY <1>1, <3>1, ParentWritten
  <2> HIDE DEF hung, bent
  <2> QED
    BY <1>1, <1>4, <2>1, <2>2 DEF KidIs, ParentIs, SameReds, SameKids, SameParents
<1> HIDE DEF hung, bent
<1>6. /\ up \in Trees /\ SameReds(u, up) /\ SameParents(bent, up)
      /\ Root(up) = IF node = Root(u) THEN temp ELSE Root(u)
      /\ \A m \in All, z \in Sides :
            Kid(up, z, m) = IF m \in V /\ Kid(u, z, m) = node THEN temp ELSE Kid(bent, z, m)
  <2>1. CASE node = Root(u)
    <3>1. up = [bent EXCEPT !.root = temp]
      BY <2>1, <1>5 DEF Replaced, Root
    <3>2. \A m \in V, z \in Sides : Kid(u, z, m) # node
      BY <2>1, <1>1 DEF Linked
    <3>3. RootIs(bent, up, temp)
      BY <3>1, <1>1, <1>5, RootWritten
    <3> QED
      BY <3>2, <3>3, <2>1, <1>5 DEF RootIs, SameReds, SameKids, SameParents
  <2>2. CASE node # Root(u)
    <3> PICK p, sp : p = Parent(u, node) /\ sp = SideOf(bent, node)
      OBVIOUS
    <3>1. Parent(bent, node) = p /\ p \in V /\ p \in All /\ p \notin {node, temp, inner}
      BY <1>1, <1>2, <1>4, <1>5, <2>2
    <3>2. sp \in Sides
      BY DEF SideOf, Sides, Kid, Parent
    <3>3. up = WithKid(bent, sp, p, temp)
      BY <3>1, <1>5, <2>2 DEF Replaced, Parent, Root
    <3>4. \A m \in V, z \in Sides : Kid(u, z, m) = node <=> m = p /\ z = sp
      <4>1. \A m \in V, z \in Sides : Kid(u, z, m) = node => m = p
        BY <1>1 DEF Linked
      <4>2. \A z \in Sides : Kid(bent, z, p) = Kid(u, z, p)
        BY <1>4, <1>5, <3>1
      <4>3. Kid(u, sp, p) = node
        <5>1. \E z \in Sides : Kid(u, z, p) = node
          BY <2>2 DEF Linked
        <5>2. Kid(u, "left", p) = node => sp = "left"
          BY <3>1, <4>2 DEF SideOf, Sides, Kid, Parent
        <5>3. Kid(u, "left", p) # node => sp = "right"
          BY <3>1, <4>2 DEF SideOf, Sides, Kid, Parent
        <5> QED
          BY <5>1, <5>2, <5>3 DEF Sides
      <4>4. Kid(u, "left", p) # Kid(u, "right", p)
        BY <3>1, <4>3, <3>2, <1>1 DEF Linked, Sides
      <4> QED
        BY <4>1, <4>3, <4>4, <3>1, <3>2 DEF Sides
    <3>5. KidIs(bent, up, sp, p, temp)
      BY <3>1, <3>2, <3>3, <1>1, <1>5, KidWritten
    <3> QED
      BY <3>1, <3>4, <3>5, <1>5, <2>2 DEF KidIs, SameReds, SameParents
  <2> QED
    BY <2>1, <2>2
<1> HIDE DEF up
<1>7. /\ v \in Trees /\ Root(v) = Root(up) /\ SameReds(up, v)
      /\ \A m \in All : Parent(v, m) = IF m = node THEN temp ELSE Parent(up, m)
      /\ \A m \in All, z \in Sides : Kid(v, z, m) = IF z = side /\ m = temp THEN node ELSE Kid(up, z, m)
  <2>1. KidIs(up, put, side, temp, node)
    BY <1>1, <1>6, KidWritten
  <2>2. ParentIs(put, v, node, temp)
    <3>1. put \in Trees
      BY <2>1 DEF KidIs
    <3> HIDE DEF put
    <3> QED
      BY <1>1, <3>1, ParentWritten
  <2> HIDE DEF put, v
  <2> QED
    BY <2>1, <2>2 DEF KidIs, ParentIs, SameReds, SameKids, SameParents
<1> HIDE DEF put, v
<1>8. /\ Root(v) = IF node = Root(u) THEN temp ELSE Root(u)
      /\ \A m \in All :
           Parent(v, m) = IF m = node THEN temp
                         ELSE IF m = temp THEN Parent(u, node)
                         ELSE IF m = inner /\ inner # Sentinel THEN node
                         ELSE Parent(u, m)
      /\ SameReds(u, v)
  BY <1>1, <1>2, <1>4, <1>5, <1>6, <1>7 DEF SameReds, SameParents
<1>9. \A m \in All, z \in Sides :
        Kid(v, z, m) = IF m = node /\ z = Other(side) THEN inner
                      ELSE IF m = temp /\ z = side THEN node
                      ELSE IF m \in V /\ Kid(u, z, m) = node THEN temp
                      ELSE Kid(u, z, m)
  BY <1>1, <1>2, <1>4, <1>5, <1>6, <1>7
<1> QED
  BY <1>3, <1>7, <1>8, <1>9 DEF Turned

\* a tree with other colours has the same links
LEMMA SameLinks ==
  ASSUME NEW u, NEW v, NEW V, Linked(u, V), v \in Trees,
         Root(v) = Root(u), SameKids(u, v), SameParents(u, v), ~IsRed(v, Sentinel)
  PROVE  Linked(v, V) /\ \A mu : Falls(u, V, mu) => Falls(v, V, mu)
  BY DEF Linked, Falls, SameKids, SameParents

\* A rotation of a tree leaves a tree of the same nodes.
LEMMA TurnedKeepsLinks ==
  ASSUME NEW u, NEW v, NEW V, NEW mu, Linked(u, V), Falls(u, V, mu),
         NEW side \in Sides, NEW node \in V, Kid(u, Other(side), node) \in V,
         Turned(u, v, V, side, node)
  PROVE  Tree(v, V)
<1> PICK temp, inner, outer, far, other :
      /\ temp = Kid(u, Other(side), node) /\ inner = Kid(u, side, temp)
      /\ outer = Kid(u, side, node) /\ far = Kid(u, Other(side), temp) /\ other = Other(side)
  OBVIOUS
<1>1. /\ u \in Trees /\ v \in Trees /\ node \in All /\ temp \in V /\ temp \in All /\ inner \in All
      /\ other \in Sides /\ other # side
      /\ V \subseteq Nodes /\ Sentinel \notin V /\ V \subseteq All
      /\ Sides = {side, other}
      /\ Root(u) \in V /\ ~ IsRed(u, Sentinel)
  BY TreeAssumption DEF Linked, All, Other, Sides, Turned
<1>2. /\ node # temp /\ node # inner /\ temp # inner /\ Parent(u, temp) = node
      /\ node # Root(u) => Parent(u, node) \in V /\ Parent(u, node) \notin {node, temp, inner}
      /\ temp # Root(u) /\ inner # Root(u) /\ (inner \in V => Parent(u, inner) = temp)
      /\ outer # temp
      /\ \A z \in Sides : Kid(u, z, temp) # node /\ Kid(u, z, node) # node
  BY Distinct
<1>3. /\ Root(v) = IF node = Root(u) THEN temp ELSE Root(u)
      /\ SameReds(u, v)
      /\ \A m \in All :
           Parent(v, m) = IF m = node THEN temp
                         ELSE IF m = temp THEN Parent(u, node)
                         ELSE IF m = inner /\ inner # Sentinel THEN node
                         ELSE Parent(u, m)
  BY DEF Turned
<1>4. \A m \in All, z \in Sides :
        Kid(v, z, m) = IF m = node /\ z = other THEN inner
                      ELSE IF m = temp /\ z = side THEN node
                      ELSE IF m \in V /\ Kid(u, z, m) = node THEN temp
                      ELSE Kid(u, z, m)
  BY DEF Turned
<1>5. \A m \in V, z \in Sides : /\ Kid(u, z, m) \in (V \ {Root(u)}) \cup {Sentinel}
                                /\ Kid(u, z, m) # Sentinel => Parent(u, Kid(u, z, m)) = m
  BY <1>1 DEF Linked
<1>6. \A m \in V \ {Root(u)} : Parent(u, m) \in V /\ \E z \in Sides : Kid(u, z, Parent(u, m)) = m
  BY <1>1 DEF Linked
<1>7. \A m \in V : Kid(u, side, m) = Kid(u, other, m) => Kid(u, side, m) = Sentinel
  BY <1>1 DEF Linked, Sides, Other
<1>8. /\ Kid(v, side, node) = outer /\ Kid(v, other, node) = inner
      /\ Kid(v, side, temp) = node /\ Kid(v, other, temp) = far
  BY <1>1, <1>2, <1>4
<1>9. \A m \in V \ {node, temp}, z \in Sides :
        Kid(v, z, m) = IF Kid(u, z, m) = node THEN temp ELSE Kid(u, z, m)
  BY <1>1, <1>4
<1>10. /\ {outer, inner, far} \subseteq (V \ {Root(u)}) \cup {Sentinel}
       /\ outer # Sentinel => Parent(u, outer) = node
       /\ far # Sentinel => Parent(u, far) = temp
       /\ inner # Sentinel => Parent(u, inner) = temp
       /\ far = inner => far = Sentinel
       /\ outer # node /\ far # node
       /\ far # temp
  BY <1>1, <1>2, <1>5, <1>7
<1>11. Root(v) \in V /\ ~ IsRed(v, Sentinel)
  BY <1>1, <1>3 DEF SameReds
<1>12. ASSUME NEW m \in V, NEW z \in Sides
       PROVE  /\ Kid(v, z, m) \in (V \ {Root(v)}) \cup {Sentinel}
              /\ Kid(v, z, m) # Sentinel => Parent(v, Kid(v, z, m)) = m
  <2>1. CASE m = node
    <3>1. Kid(v, z, m) \in {outer, inner}
      BY <2>1, <1>1, <1>8
    <3>2. outer # Sentinel => Parent(v, outer) = node /\ outer # Root(v)
      <4>1. outer # Sentinel => outer # inner
        BY <1>2, <1>10
      <4> QED
        BY <4>1, <1>1, <1>2, <1>3, <1>10
    <3>3. inner # Sentinel => Parent(v, inner) = node /\ inner # Root(v)
      BY <1>1, <1>2, <1>3, <1>10
    <3> QED
      BY <2>1, <3>1, <3>2, <3>3, <1>1, <1>10
  <2>2. CASE m = temp
    <3>1. Kid(v, z, m) \in {far, node}
      BY <2>2, <1>1, <1>8
    <3>2. far # Sentinel => Parent(v, far) = temp /\ far # Root(v)
      <4>1. far # Sentinel => far # inner
        BY <1>10
      <4> QED
        BY <4>1, <1>1, <1>2, <1>3, <1>10
    <3>3. Parent(v, node) = temp /\ node # Root(v)
      BY <1>1, <1>2, <1>3
    <3> QED
      BY <2>2, <3>1, <3>2, <3>3, <1>1, <1>10
  <2>3. CASE m # node /\ m # temp /\ Kid(u, z, m) = node
    <3>1. Kid(v, z, m) = temp /\ Parent(u, node) = m /\ node # Root(u)
      BY <2>3, <1>1, <1>5, <1>9
    <3> QED
      BY <3>1, <1>1, <1>2, <1>3
  <2>4. CASE m # node /\ m # temp /\ Kid(u, z, m) # node
    <3> PICK k : k = Kid(u, z, m)
      OBVIOUS
    <3>1. Kid(v, z, m) = k /\ k # node /\ k \in (V \ {Root(u)}) \cup {Sentinel}
          /\ (k # Sentinel => Parent(u, k) = m)
      BY <2>4, <1>1, <1>5, <1>9
    <3>2. k # Sentinel => k # temp /\ k # inner
      BY <3>1, <2>4, <1>2, <1>10
    <3> QED
      BY <3>1, <3>2, <1>1, <1>3
  <2> QED
    BY <2>1, <2>2, <2>3, <2>4
<1>13. ASSUME NEW m \in V \ {Root(v)}
       PROVE  Parent(v, m) \in V /\ \E z \in Sides : Kid(v, z, Parent(v, m)) = m
  <2>1. CASE m = node
    BY <2>1, <1>1, <1>2, <1>3, <1>8
  <2>2. CASE m = temp
    <3> PICK p : p = Parent(u, node)
      OBVIOUS
    <3>1. node # Root(u) /\ Parent(v, m) = p /\ p \in V \ {node, temp}
      BY <2>2, <1>1, <1>2, <1>3
    <3>2. PICK z \in Sides : Kid(u, z, p) = node
      BY <3>1, <1>6
    <3> QED
      BY <2>2, <3>1, <3>2, <1>9
  <2>3. CASE m = inner
    BY <2>3, <1>1, <1>2, <1>3, <1>8
  <2>4. CASE m \notin {node, temp, inner}
    <3> PICK p : p = Parent(u, m)
      OBVIOUS
    <3>1. m # Root(u) /\ Parent(v, m) = p /\ p \in V
      BY <2>4, <1>1, <1>2, <1>3, <1>6
    <3>2. PICK z \in Sides : Kid(u, z, p) = m
      BY <3>1, <2>4, <1>6
    <3>3. CASE p = node
      <4>1. z = side
        BY <3>2, <3>3, <2>4, <1>1
      <4> QED
        BY <3>1, <3>2, <3>3, <4>1, <1>8
    <3>4. CASE p = temp
      <4>1. z = other
        BY <3>2, <3>4, <2>4, <1>1
      <4> QED
        BY <3>1, <3>2, <3>4, <4>1, <1>1, <1>8
    <3>5. CASE p # node /\ p # temp
      BY <3>1, <3>2, <3>5, <2>4, <1>9
    <3> QED
      BY <3>3, <3>4, <3>5
  <2> QED
    BY <2>1, <2>2, <2>3, <2>4
<1>14. ASSUME NEW m \in V, Kid(v, side, m) = Kid(v, other, m)
       PROVE  Kid(v, side, m) = Sentinel
  <2>1. CASE m = node
    <3>1. outer = inner
      BY <1>8, <1>14, <2>1
    <3> QED
      BY <2>1, <3>1, <1>2, <1>8, <1>10
  <2>2. CASE m = temp
    BY <2>2, <1>14, <1>8, <1>10
  <2>3. CASE m # node /\ m # temp
    <3> PICK a, b : a = Kid(u, side, m) /\ b = Kid(u, other, m)
      OBVIOUS
    <3>1. /\ Kid(v, side, m) = IF a = node THEN temp ELSE a
          /\ Kid(v, other, m) = IF b = node THEN temp ELSE b
      BY <2>3, <1>1, <1>9
    <3>2. /\ a = b => a = Sentinel
          /\ a # temp /\ b # temp
      BY <2>3, <1>1, <1>2, <1>5, <1>7
    <3> QED
      BY <3>1, <3>2, <1>1, <1>14
  <2> QED
    BY <2>1, <2>2, <2>3
<1>15. Linked(v, V)
  <2>1. \A m \in V : Kid(v, "left", m) = Kid(v, "right", m) => Kid(v, "left", m) = Sentinel
    BY <1>1, <1>14 DEF Sides
  <2> QED
    BY <1>1, <1>11, <1>12, <1>13, <2>1 DEF Linked
<1> DEFINE nu == [m \in All |-> IF m = temp THEN 2 * At(mu, node)
                                ELSE IF m = node THEN 2 * At(mu, node) - 1 ELSE 2 * At(mu, m)]
<1>16. Falls(v, V, nu)
  <2>1. /\ \A m \in All : At(mu, m) \in Nat
        /\ \A m \in V, z \in Sides : Kid(u, z, m) # Sentinel => At(mu, Kid(u, z, m)) < At(mu, m)
    BY <1>1 DEF Falls, Counted
  <2>2. /\ At(mu, temp) < At(mu, node) /\ (inner \in V => At(mu, inner) < At(mu, temp))
        /\ outer \in V => At(mu, outer) < At(mu, node)
        /\ far \in V => At(mu, far) < At(mu, temp)
    BY <2>1, <1>1
  <2>3. Counted(nu)
    BY <2>1, <2>2, <1>1 DEF Counted, At
  <2>4. /\ At(nu, temp) = 2 * At(mu, node) /\ At(nu, node) = 2 * At(mu, node) - 1
        /\ \A m \in All \ {temp, node} : At(nu, m) = 2 * At(mu, m)
    BY <1>1, <1>2 DEF At
  <2> HIDE DEF nu
  <2>5. ASSUME NEW m \in V, NEW z \in Sides, Kid(v, z, m) # Sentinel
        PROVE  At(nu, Kid(v, z, m)) < At(nu, m)
    <3> PICK k : k = Kid(v, z, m)
      OBVIOUS
    <3>1. k \in V /\ k \in All /\ m \in All
      BY <1>12, <2>5, <1>1
    <3>2. CASE m = node
      <4>1. k \in {outer, inner} /\ k # temp /\ k # node
        BY <3>2, <1>1, <1>2, <1>8, <1>10
      <4>2. At(mu, k) < At(mu, node)
        BY <4>1, <2>1, <2>2, <1>1, <3>1
      <4> QED
        BY <4>1, <4>2, <3>1, <3>2, <2>1, <2>4
    <3>3. CASE m = temp
      <4>1. k \in {far, node} /\ k # temp
        BY <3>3, <1>1, <1>2, <1>8, <1>10
      <4>2. k # node => At(mu, k) < At(mu, temp) /\ At(nu, k) = 2 * At(mu, k)
        BY <4>1, <2>1, <2>2, <2>4, <1>1, <3>1
      <4>3. CASE k = node
        BY <4>3, <3>3, <1>1, <2>1, <2>4
      <4>4. CASE k # node
        <5>1. At(mu, k) \in Nat /\ At(mu, temp) \in Nat /\ At(mu, node) \in Nat
          BY <3>1, <1>1, <2>1
        <5> QED
          BY <4>2, <4>4, <5>1, <3>3, <2>2, <2>4
      <4> QED
        BY <4>3, <4>4
    <3>4. CASE m # node /\ m # temp /\ Kid(u, z, m) = node
      <4>1. k = temp /\ At(mu, node) < At(mu, m)
        BY <3>4, <1>1, <1>9, <2>1
      <4> QED
        BY <4>1, <3>1, <3>4, <1>1, <2>1, <2>4
    <3>5. CASE m # node /\ m # temp /\ Kid(u, z, m) # node
      <4>1. k = Kid(u, z, m) /\ k # temp
        BY <3>5, <1>1, <1>2, <1>5, <1>9
      <4>2. At(mu, k) < At(mu, m)
        BY <4>1, <3>1, <2>1, <1>1
      <4> QED
        BY <4>1, <4>2, <3>5, <3>1, <2>1, <2>4
    <3> QED
      BY <3>2, <3>3, <3>4, <3>5
  <2> QED
    BY <2>3, <2>5 DEF Falls
<1> QED
  BY <1>15, <1>16 DEF Tree

\* Nodes outside the tree have been cleared.
Clean(u, V) == \A n \in Nodes \ V, s \in Sides : Kid(u, s, n) = NULL

\* What a node adds to the black height.
Weight(u, n) == IF IsRed(u, n) THEN 0 ELSE 1

\* The one path that is a black short, if there is one.
Gap(p, s, n, z) == IF n = p /\ z = s THEN 1 ELSE 0

(***************************************************************************)
(* h is the black height of the nodes, where the paths through the side s  *)
(* of p may be a black short.                                              *)
(***************************************************************************)
Balances(u, V, h, p, s) ==
  /\ Counted(h) /\ At(h, Sentinel) = 0
  /\ \A n \in V, z \in Sides : At(h, n) = At(h, Kid(u, z, n)) + Weight(u, n) + Gap(p, s, n, z)

\* h is the black height of the nodes.
Level(u, V, h) ==
  /\ Counted(h) /\ At(h, Sentinel) = 0
  /\ \A n \in V, z \in Sides : At(h, n) = At(h, Kid(u, z, n)) + Weight(u, n)

\* a red child of a red node is x, or the child of x
RedsAbove(u, V, x) == \A n \in V, z \in Sides : IsRed(u, n) /\ IsRed(u, Kid(u, z, n)) => Kid(u, z, n) = x
RedsAt(u, V, x) == \A n \in V, z \in Sides : IsRed(u, n) /\ IsRed(u, Kid(u, z, n)) => x \in {n, Kid(u, z, n)}
RedsApart(u, V) == \A n \in V, z \in Sides : IsRed(u, n) => ~IsRed(u, Kid(u, z, n))

\* how the children of v, which is u rotated, are those of u
Edges(u, v, V, side, node, temp) ==
  /\ Kid(v, side, node) = Kid(u, side, node) /\ Kid(v, Other(side), node) = Kid(u, side, temp)
  /\ Kid(v, side, temp) = node /\ Kid(v, Other(side), temp) = Kid(u, Other(side), temp)
  /\ \A m \in V \ {node, temp}, z \in Sides :
       Kid(v, z, m) = IF Kid(u, z, m) = node THEN temp ELSE Kid(u, z, m)

\* which of them are different
Unlike(u, V, side, node, temp) ==
  LET inner == Kid(u, side, temp)
  IN  /\ node # temp /\ Kid(u, side, node) # temp
      /\ \A m \in V \ {node}, z \in Sides : Kid(u, z, m) # temp
      /\ \A m \in V \ {temp}, z \in Sides : Kid(u, z, m) # inner \/ inner = Sentinel
      /\ Kid(u, Other(side), temp) # inner \/ inner = Sentinel
      /\ \A z \in Sides : Kid(u, z, temp) # node /\ Kid(u, z, node) # node
      /\ inner # temp /\ Kid(u, Other(side), temp) # temp

\* How a rotation changes the children of each node.
LEMMA TurnedEdges ==
  ASSUME NEW u, NEW v, NEW V, NEW mu, Linked(u, V), Falls(u, V, mu),
         NEW side \in Sides, NEW node \in V, Kid(u, Other(side), node) \in V,
         Turned(u, v, V, side, node),
         NEW temp, temp = Kid(u, Other(side), node)
  PROVE  /\ Edges(u, v, V, side, node, temp) /\ Unlike(u, V, side, node, temp)
         /\ Clean(u, V) => Clean(v, V)
<1> PICK other, inner : other = Other(side) /\ inner = Kid(u, side, temp)
  OBVIOUS
<1>1. /\ node \in All /\ temp \in V /\ temp \in All
      /\ other \in Sides /\ other # side
      /\ V \subseteq Nodes /\ Sentinel \notin V /\ V \subseteq All /\ Nodes \subseteq All
      /\ Sides = {side, other}
  BY TreeAssumption DEF Linked, All, Other, Sides
<1>2. /\ node # temp /\ inner # node
      /\ \A z \in Sides : Kid(u, z, temp) # node /\ Kid(u, z, node) # node
      /\ Parent(u, temp) = node
      /\ Kid(u, side, node) # temp
      /\ inner # Sentinel => Parent(u, inner) = temp
  <2>1. inner \in V \cup {Sentinel}
    BY <1>1 DEF Linked
  <2> QED
    BY <2>1, Distinct
<1>3. \A m \in All, z \in Sides :
        Kid(v, z, m) = IF m = node /\ z = other THEN inner
                      ELSE IF m = temp /\ z = side THEN node
                      ELSE IF m \in V /\ Kid(u, z, m) = node THEN temp
                      ELSE Kid(u, z, m)
  BY DEF Turned
<1>4. /\ Kid(v, side, node) = Kid(u, side, node) /\ Kid(v, other, node) = inner
      /\ Kid(v, side, temp) = node /\ Kid(v, other, temp) = Kid(u, other, temp)
  BY <1>1, <1>2, <1>3
<1>5. \A m \in V \ {node, temp}, z \in Sides :
        Kid(v, z, m) = IF Kid(u, z, m) = node THEN temp ELSE Kid(u, z, m)
  BY <1>1, <1>3
<1>6. \A m \in V, z \in Sides : Kid(u, z, m) # Sentinel => Parent(u, Kid(u, z, m)) = m
  BY DEF Linked
<1>7. /\ \A m \in V \ {node}, z \in Sides : Kid(u, z, m) # temp
      /\ \A m \in V \ {temp}, z \in Sides : Kid(u, z, m) # inner \/ inner = Sentinel
  BY <1>1, <1>2, <1>6
<1>8. Kid(u, other, temp) # inner \/ inner = Sentinel
  BY <1>1 DEF Linked, Sides, Other
<1>9. Clean(u, V) => Clean(v, V)
  BY <1>1, <1>3 DEF Clean
<1>10. inner # temp /\ Kid(u, other, temp) # temp
  BY <1>1, <1>2, <1>7
<1>11. Edges(u, v, V, side, node, temp)
  BY <1>4, <1>5 DEF Edges
<1>12. Unlike(u, V, side, node, temp)
  BY <1>1, <1>2, <1>7, <1>8, <1>10 DEF Unlike
<1> QED
  BY <1>9, <1>11, <1>12

\* g is a function of heights for u rotated
Levelled(u, V, g, p, s, side, node, temp) ==
  /\ Counted(g) /\ At(g, Sentinel) = 0
  /\ \A m \in V \ {node, temp}, z \in Sides :
       At(g, m) = (IF Kid(u, z, m) = node THEN At(g, temp) ELSE At(g, Kid(u, z, m)))
                + Weight(u, m) + Gap(p, s, m, z)
  /\ At(g, node) = At(g, Kid(u, side, node)) + Weight(u, node) + Gap(p, s, node, side)
  /\ At(g, node) = At(g, Kid(u, side, temp)) + Weight(u, node) + Gap(p, s, node, Other(side))
  /\ At(g, temp) = At(g, node) + Weight(u, temp) + Gap(p, s, temp, side)
  /\ At(g, temp) = At(g, Kid(u, Other(side), temp)) + Weight(u, temp) + Gap(p, s, temp, Other(side))

\* Heights of the rotated tree, when a path may be a black short.
LEMMA TurnedBalances ==
  ASSUME NEW u, NEW v, NEW V, NEW side \in Sides, NEW node \in V, NEW temp, NEW p, NEW s, NEW g,
         Turned(u, v, V, side, node), Edges(u, v, V, side, node, temp),
         Levelled(u, V, g, p, s, side, node, temp)
  PROVE  Balances(v, V, g, p, s)
<1>1. \A m : Weight(v, m) = Weight(u, m)
  BY DEF Turned, Weight, SameReds
<1>2. \A z \in Sides : z = side \/ z = Other(side)
  BY DEF Sides, Other
<1>3. \A m \in V, z \in Sides : At(g, m) = At(g, Kid(v, z, m)) + Weight(u, m) + Gap(p, s, m, z)
  <2> TAKE m \in V, z \in Sides
  <2>1. CASE m = node
    BY <1>2, <2>1 DEF Edges, Levelled
  <2>2. CASE m = temp
    BY <1>2, <2>2 DEF Edges, Levelled
  <2>3. CASE m \notin {node, temp}
    <3>1. Kid(v, z, m) = IF Kid(u, z, m) = node THEN temp ELSE Kid(u, z, m)
      BY <2>3 DEF Edges
    <3>2. At(g, m) = (IF Kid(u, z, m) = node THEN At(g, temp) ELSE At(g, Kid(u, z, m)))
                   + Weight(u, m) + Gap(p, s, m, z)
      BY <2>3 DEF Levelled
    <3> QED
      BY <3>1, <3>2
  <2> QED
    BY <2>1, <2>2, <2>3
<1> QED
  BY <1>1, <1>3 DEF Balances, Levelled

\* Heights of the rotated tree, when all paths have as many blacks.
LEMMA TurnedLevel ==
  ASSUME NEW u, NEW v, NEW V, NEW side \in Sides, NEW node \in V, NEW temp, NEW g,
         Turned(u, v, V, side, node), Edges(u, v, V, side, node, temp),
         Counted(g), At(g, Sentinel) = 0,
         \A m \in V \ {node, temp}, z \in Sides :
           At(g, m) = (IF Kid(u, z, m) = node THEN At(g, temp) ELSE At(g, Kid(u, z, m))) + Weight(u, m),
         At(g, node) = At(g, Kid(u, side, node)) + Weight(u, node),
         At(g, node) = At(g, Kid(u, side, temp)) + Weight(u, node),
         At(g, temp) = At(g, node) + Weight(u, temp),
         At(g, temp) = At(g, Kid(u, Other(side), temp)) + Weight(u, temp)
  PROVE  Level(v, V, g)
<1>1. \A m : Weight(v, m) = Weight(u, m)
  BY DEF Turned, Weight, SameReds
<1>2. \A z \in Sides : z = side \/ z = Other(side)
  BY DEF Sides, Other
<1>3. \A m \in V, z \in Sides : At(g, m) = At(g, Kid(v, z, m)) + Weight(u, m)
  <2> TAKE m \in V, z \in Sides
  <2>1. CASE m = node
    BY <1>2, <2>1 DEF Edges
  <2>2. CASE m = temp
    BY <1>2, <2>2 DEF Edges
  <2>3. CASE m \notin {node, temp}
    <3>1. Kid(v, z, m) = IF Kid(u, z, m) = node THEN temp ELSE Kid(u, z, m)
      BY <2>3 DEF Edges
    <3> QED
      BY <3>1, <2>3
  <2> QED
    BY <2>1, <2>2, <2>3
<1> QED
  BY <1>1, <1>3 DEF Level

\* The two sides.
LEMMA SideFacts ==
  /\ \A side \in Sides : /\ Other(side) \in Sides /\ Other(side) # side
                         /\ Other(Other(side)) = side /\ Sides = {side, Other(side)}
  /\ Sides = {"left", "right"}
  BY DEF Sides, Other

\* The code finds the side a node is on by comparing it with the left child of its parent.
LEMMA SideTrue ==
  ASSUME NEW u, NEW V, Linked(u, V), NEW n \in V \ {Root(u)}
  PROVE  SideOf(u, n) \in Sides /\ Kid(u, SideOf(u, n), Parent(u, n)) = n
<1>1. PICK z \in Sides : Kid(u, z, Parent(u, n)) = n
  BY DEF Linked
<1> QED
  BY <1>1 DEF SideOf, Sides, Kid, Parent

\* what is cited of Linked and Falls
Sane(u, V) ==
  /\ u \in Trees /\ V \subseteq Nodes /\ V \subseteq All /\ Sentinel \notin V /\ NULL \notin V
  /\ NULL \notin All /\ Sentinel \in All /\ Root(u) \in All
  /\ ~ IsRed(u, Sentinel)
  /\ \A n \in V, z \in Sides :
       /\ Kid(u, z, n) \in (V \ {Root(u)}) \cup {Sentinel}
       /\ Kid(u, z, n) \in All
       /\ Kid(u, z, n) # n
       /\ Kid(u, z, n) # Sentinel => Parent(u, Kid(u, z, n)) = n
  /\ \A n \in V \ {Root(u)} : Parent(u, n) \in V /\ Parent(u, n) # n
  /\ \A n \in V, z \in Sides : Kid(u, z, n) = Kid(u, Other(z), n) => Kid(u, z, n) = Sentinel
  /\ V # {} => Root(u) \in V

\* The facts about a tree that most steps need, in one place.
LEMMA LinkedFacts ==
  ASSUME NEW u, NEW V, NEW mu, Linked(u, V), Falls(u, V, mu)
  PROVE  Sane(u, V)
<1>1. /\ u \in Trees /\ V \subseteq Nodes /\ V \subseteq All /\ Sentinel \notin V /\ NULL \notin V
      /\ NULL \notin All /\ Sentinel \in All /\ ~ IsRed(u, Sentinel) /\ (V # {} => Root(u) \in V)
  BY TreeAssumption DEF Linked, All
<1>2. Root(u) \in All
  BY <1>1 DEF Trees, Root
<1>3. \A n \in V, z \in Sides :
        /\ Kid(u, z, n) \in (V \ {Root(u)}) \cup {Sentinel}
        /\ Kid(u, z, n) # Sentinel => Parent(u, Kid(u, z, n)) = n
  BY DEF Linked
<1>4. \A n \in V, z \in Sides : Kid(u, z, n) # n
  BY <1>1 DEF Falls, Counted
<1>5. \A n \in V \ {Root(u)} : Parent(u, n) \in V /\ Parent(u, n) # n
  <2> TAKE n \in V \ {Root(u)}
  <2>1. Parent(u, n) \in V /\ \E z \in Sides : Kid(u, z, Parent(u, n)) = n
    BY DEF Linked
  <2> QED
    BY <2>1, <1>4
<1>6. \A n \in V, z \in Sides : Kid(u, z, n) = Kid(u, Other(z), n) => Kid(u, z, n) = Sentinel
  BY DEF Linked, Sides, Other
<1> QED
  BY <1>1, <1>2, <1>3, <1>4, <1>5, <1>6 DEF Sane

\* the colours after the strokes of the code
LEMMA PaintedTwice ==
  ASSUME NEW u \in Trees, NEW a \in All, NEW b \in All, NEW v, v = MadeRed(MadeBlack(u, a), b)
  PROVE  /\ Repainted(u, v)
         /\ \A m \in All : IsRed(v, m) <=> m = b \/ (m # a /\ IsRed(u, m))
<1> PICK w : w = MadeBlack(u, a)
  OBVIOUS
<1>1. BlackIs(u, w, a)
  BY ColourWritten
<1>2. w \in Trees
  BY <1>1 DEF BlackIs, Repainted
<1>3. RedIs(w, v, b)
  BY <1>2, ColourWritten
<1> QED
  BY <1>1, <1>3 DEF RedIs, BlackIs, Repainted, SameKids, SameParents

\* A red uncle: three strokes of the code.
LEMMA PaintedThrice ==
  ASSUME NEW u \in Trees, NEW a \in All, NEW b \in All, NEW c \in All,
         NEW v, v = MadeRed(MadeBlack(MadeBlack(u, a), b), c)
  PROVE  /\ Repainted(u, v)
         /\ \A m \in All : IsRed(v, m) <=> m = c \/ (m # a /\ m # b /\ IsRed(u, m))
<1> PICK w : w = MadeBlack(u, a)
  OBVIOUS
<1>1. BlackIs(u, w, a)
  BY ColourWritten
<1>2. w \in Trees
  BY <1>1 DEF BlackIs, Repainted
<1>3. /\ Repainted(w, v)
      /\ \A m \in All : IsRed(v, m) <=> m = c \/ (m # b /\ IsRed(w, m))
  BY <1>2, PaintedTwice
<1> QED
  BY <1>1, <1>3 DEF BlackIs, Repainted, SameKids, SameParents

\* The strokes before the last rotation of a delete.
LEMMA PaintedForLoan ==
  ASSUME NEW u \in Trees, NEW w \in All, NEW up \in All, NEW far \in All,
         NEW v, v = MadeBlack(MadeBlack(MadeLike(u, w, up), up), far)
  PROVE  /\ Repainted(u, v)
         /\ \A m \in All : IsRed(v, m) <=> /\ m # up /\ m # far
                                            /\ ((m = w /\ IsRed(u, up)) \/ (m # w /\ IsRed(u, m)))
<1> PICK a : a = MadeLike(u, w, up)
  OBVIOUS
<1> PICK b : b = MadeBlack(a, up)
  OBVIOUS
<1>1. LikeIs(u, a, w, up)
  BY ColourWritten
<1>2. a \in Trees
  BY <1>1 DEF LikeIs, Repainted
<1>3. BlackIs(a, b, up)
  BY <1>2, ColourWritten
<1>4. b \in Trees
  BY <1>3 DEF BlackIs, Repainted
<1>5. BlackIs(b, v, far)
  BY <1>4, ColourWritten
<1>6. Repainted(u, v)
  BY <1>1, <1>3, <1>5 DEF LikeIs, BlackIs, Repainted, SameKids, SameParents
<1>7. ASSUME NEW m \in All
      PROVE  IsRed(v, m) <=> /\ m # up /\ m # far
                             /\ ((m = w /\ IsRed(u, up)) \/ (m # w /\ IsRed(u, m)))
  <2>1. IsRed(v, m) <=> m # far /\ IsRed(b, m)
    BY <1>5 DEF BlackIs
  <2>2. IsRed(b, m) <=> m # up /\ IsRed(a, m)
    BY <1>3 DEF BlackIs
  <2>3. IsRed(a, m) <=> (m = w /\ IsRed(u, up)) \/ (m # w /\ IsRed(u, m))
    BY <1>1 DEF LikeIs
  <2> QED
    BY <2>1, <2>2, <2>3
<1> QED
  BY <1>6, <1>7

\* Painting nodes changes no link.
LEMMA RepaintedKeeps ==
  ASSUME NEW u, NEW v, NEW V, Repainted(u, v), ~ IsRed(v, Sentinel)
  PROVE  /\ Linked(u, V) => Linked(v, V)
         /\ \A mu : Falls(u, V, mu) => Falls(v, V, mu)
         /\ Tree(u, V) => Tree(v, V)
         /\ Clean(u, V) => Clean(v, V)
<1>1. Linked(u, V) => Linked(v, V)
  BY DEF Linked, Repainted, SameKids, SameParents
<1>2. \A mu : Falls(u, V, mu) => Falls(v, V, mu)
  BY DEF Falls, Repainted, SameKids, SameParents
<1>3. Clean(u, V) => Clean(v, V)
  BY DEF Clean, Repainted, SameKids
<1> QED
  BY <1>1, <1>2, <1>3 DEF Tree

(***************************************************************************)
(* The order of the nodes: pos numbers them from 1 to N, and the numbers   *)
(* of the nodes from n down are those between the edges of n.  The edges   *)
(* of a child are an edge of n and the number of n.                        *)
(***************************************************************************)
Edge(b, side, n) == b[side][n]

\* The number next to k on a side.
Toward(side, k) == IF side = "left" THEN k - 1 ELSE k + 1

\* pos numbers the nodes of V, from 1 to N.
Numbered(V, pos, N) ==
  /\ N \in Nat
  /\ \A n \in V : At(pos, n) \in 1 .. N
  /\ \A n, m \in V : At(pos, n) = At(pos, m) => n = m

(***************************************************************************)
(* b has the edges of every node: the numbers between them are those of    *)
(* the nodes from it down.                                                 *)
(***************************************************************************)
Framed(u, V, pos, N, b) ==
  /\ \A n \in V, z \in Sides : Edge(b, z, n) \in Nat
  /\ V # {} => Edge(b, "left", Root(u)) = 0 /\ Edge(b, "right", Root(u)) = N + 1
  /\ \A n \in V, z \in Sides : Kid(u, z, n) # Sentinel =>
       Edge(b, z, Kid(u, z, n)) = Edge(b, z, n) /\ Edge(b, Other(z), Kid(u, z, n)) = At(pos, n)
  /\ \A n \in V, z \in Sides : Kid(u, z, n) = Sentinel => Edge(b, z, n) = Toward(z, At(pos, n))

\* of two neighbours in the order, one has the other below it
Meets(u, V, pos) ==
  \A n, m \in V, z \in Sides :
    At(pos, m) = Toward(z, At(pos, n)) => Kid(u, z, n) # Sentinel \/ Kid(u, Other(z), m) # Sentinel

InOrder(u, V, pos, N) == Numbered(V, pos, N) /\ Meets(u, V, pos) /\ \E b : Framed(u, V, pos, N, b)

\* whatever the order in u, it is the one in v
Moves(u, v, V) == \A pos, N : InOrder(u, V, pos, N) => InOrder(v, V, pos, N)

\* The order is in the children and the root alone.
LEMMA StillMoves ==
  ASSUME NEW u, NEW v, NEW V, Root(v) = Root(u), \A m \in V, z \in Sides : Kid(v, z, m) = Kid(u, z, m)
  PROVE  Moves(u, v, V)
<1> SUFFICES ASSUME NEW pos, NEW N, NEW b, Meets(u, V, pos), Framed(u, V, pos, N, b)
             PROVE  Meets(v, V, pos) /\ Framed(v, V, pos, N, b)
  BY DEF Moves, InOrder
<1> QED
  BY SideFacts DEF Meets, Framed

\* Painting nodes keeps the order.
LEMMA RepaintedMoves ==
  ASSUME NEW u, NEW v, NEW V, Root(v) = Root(u), SameKids(u, v)
  PROVE  Moves(u, v, V)
<1>1. \A m \in V, z \in Sides : Kid(v, z, m) = Kid(u, z, m)
  BY DEF SameKids
<1> QED
  BY <1>1, StillMoves

\* A rotation keeps the order.
LEMMA TurnedMoves ==
  ASSUME NEW u, NEW v, NEW V, NEW mu, Linked(u, V), Falls(u, V, mu),
         NEW side \in Sides, NEW node \in V, Kid(u, Other(side), node) \in V,
         Turned(u, v, V, side, node)
  PROVE  Moves(u, v, V)
<1> SUFFICES ASSUME NEW pos, NEW N, NEW b, Numbered(V, pos, N), Meets(u, V, pos), Framed(u, V, pos, N, b)
             PROVE  Meets(v, V, pos) /\ \E c : Framed(v, V, pos, N, c)
  BY DEF Moves, InOrder
<1> PICK temp, inner, other : /\ temp = Kid(u, Other(side), node) /\ inner = Kid(u, side, temp)
                              /\ other = Other(side)
  OBVIOUS
<1>1. Sane(u, V) /\ V \subseteq All /\ Sentinel \notin V /\ node \in All /\ temp \in V /\ temp \in All
  <2>1. Sane(u, V)
    BY LinkedFacts
  <2> QED
    BY <2>1 DEF Sane
<1>2. other \in Sides /\ other # side /\ Sides = {side, other} /\ Other(other) = side
  BY SideFacts
<1>3. Edges(u, v, V, side, node, temp) /\ Unlike(u, V, side, node, temp)
  BY TurnedEdges
<1>4. /\ Kid(v, side, node) = Kid(u, side, node) /\ Kid(v, other, node) = inner
      /\ Kid(v, side, temp) = node /\ Kid(v, other, temp) = Kid(u, other, temp)
      /\ \A m \in V \ {node, temp}, z \in Sides :
           Kid(v, z, m) = IF Kid(u, z, m) = node THEN temp ELSE Kid(u, z, m)
  BY <1>3 DEF Edges
<1>5. /\ node # temp /\ Kid(u, side, node) # temp
      /\ \A m \in V \ {node}, z \in Sides : Kid(u, z, m) # temp
      /\ \A z \in Sides : Kid(u, z, temp) # node /\ Kid(u, z, node) # node
      /\ inner # temp /\ Kid(u, other, temp) # temp
  BY <1>3 DEF Unlike
<1>6. /\ \A n \in V, z \in Sides : Kid(u, z, n) \in V \cup {Sentinel}
      /\ Root(v) = IF node = Root(u) THEN temp ELSE Root(u)
      /\ Root(u) \in V /\ Root(u) # temp
  <2>1. Root(v) = IF node = Root(u) THEN temp ELSE Root(u)
    BY DEF Turned
  <2>2. Root(u) \in V /\ Root(u) # temp
    BY <1>1, <1>2 DEF Sane
  <2> QED
    BY <2>1, <2>2, <1>1 DEF Sane
<1>7. /\ \A n \in V : At(pos, n) \in Nat
      /\ \A n \in V, z \in Sides : Edge(b, z, n) \in Nat
      /\ Edge(b, "left", Root(u)) = 0 /\ Edge(b, "right", Root(u)) = N + 1
      /\ \A n \in V, z \in Sides : Kid(u, z, n) # Sentinel =>
           Edge(b, z, Kid(u, z, n)) = Edge(b, z, n) /\ Edge(b, Other(z), Kid(u, z, n)) = At(pos, n)
      /\ \A n \in V, z \in Sides : Kid(u, z, n) = Sentinel => Edge(b, z, n) = Toward(z, At(pos, n))
  BY <1>6 DEF Framed, Numbered
<1>8. Meets(v, V, pos)
  <2> SUFFICES ASSUME NEW n \in V, NEW m \in V, NEW z \in Sides, At(pos, m) = Toward(z, At(pos, n)),
                      Kid(v, z, n) = Sentinel, Kid(v, Other(z), m) = Sentinel
               PROVE  FALSE
    BY DEF Meets
  <2>1. Other(z) \in Sides
    BY SideFacts
  <2>2. ASSUME NEW k \in V, NEW y \in Sides, Kid(v, y, k) = Sentinel
        PROVE  Kid(u, y, k) = Sentinel \/ (k = node /\ y = other)
    BY <2>2, <1>1, <1>2, <1>4
  <2>3. (n = node /\ z = other) \/ (m = node /\ Other(z) = other)
    BY <2>1, <2>2 DEF Meets
  <2>4. inner = Sentinel
    BY <2>3, <1>4
  <2>5. At(pos, temp) = Toward(other, At(pos, node))
    <3>1. Edge(b, side, temp) = At(pos, node) /\ Edge(b, side, temp) = Toward(side, At(pos, temp))
      BY <1>1, <1>2, <1>7, <2>4
    <3> QED
      BY <3>1, <1>1, <1>2, <1>7 DEF Toward, Sides
  <2>6. \A k \in V : At(pos, k) = Toward(other, At(pos, node)) => k = temp
    BY <2>5, <1>1 DEF Numbered
  <2>7. CASE n = node /\ z = other
    BY <2>6, <2>7, <1>1, <1>2, <1>4
  <2>8. CASE m = node /\ Other(z) = other
    <3>1. z = side
      BY <2>8, <1>2, SideFacts
    <3>2. At(pos, n) = Toward(other, At(pos, node))
      BY <2>8, <3>1, <1>1, <1>2, <1>7 DEF Toward, Sides
    <3> QED
      BY <3>1, <3>2, <2>6, <2>8, <1>1, <1>4
  <2> QED
    BY <2>3, <2>7, <2>8
<1>9. PICK c : c = [z \in Sides |-> [m \in All |-> IF m = temp THEN Edge(b, z, node)
                                                  ELSE IF m = node /\ z = other THEN At(pos, temp)
                                                  ELSE Edge(b, z, m)]]
  OBVIOUS
<1>10. \A z \in Sides, m \in All : Edge(c, z, m) = IF m = temp THEN Edge(b, z, node)
                                                   ELSE IF m = node /\ z = other THEN At(pos, temp)
                                                   ELSE Edge(b, z, m)
  BY <1>9 DEF Edge
<1>11. \A n \in V, z \in Sides : Edge(c, z, n) \in Nat
  BY <1>1, <1>7, <1>10
<1>12. Edge(c, "left", Root(v)) = 0 /\ Edge(c, "right", Root(v)) = N + 1
  <2>1. "left" \in Sides /\ "right" \in Sides
    BY DEF Sides
  <2> QED
    BY <2>1, <1>1, <1>6, <1>7, <1>10
<1>13. Edge(b, other, temp) = Edge(b, other, node) /\ Edge(b, side, temp) = At(pos, node)
  BY <1>1, <1>2, <1>7
<1>14. ASSUME NEW n \in V, NEW z \in Sides
       PROVE  /\ Kid(v, z, n) # Sentinel =>
                   /\ Edge(c, z, Kid(v, z, n)) = Edge(c, z, n)
                   /\ Edge(c, Other(z), Kid(v, z, n)) = At(pos, n)
              /\ Kid(v, z, n) = Sentinel => Edge(c, z, n) = Toward(z, At(pos, n))
  <2>1. Other(z) \in Sides /\ n \in All /\ Kid(u, z, n) \in V \cup {Sentinel}
    BY <1>1, <1>6, SideFacts
  <2>2. Kid(u, z, n) \in V => Kid(u, z, n) \in All
    BY <1>1
  <2>3. CASE n = node /\ z = side
    BY <2>1, <2>2, <2>3, <1>1, <1>2, <1>4, <1>5, <1>7, <1>10
  <2>4. CASE n = node /\ z = other
    <3>1. inner \in V \cup {Sentinel} /\ inner # node
      BY <1>1, <1>5, <1>6
    <3>2. CASE inner # Sentinel
      <4>1. Edge(b, side, inner) = Edge(b, side, temp) /\ Edge(b, other, inner) = At(pos, temp)
        BY <3>2, <1>1, <1>2, <1>7
      <4>2. Edge(c, other, inner) = At(pos, temp) /\ Edge(c, side, inner) = At(pos, node)
        BY <4>1, <3>1, <3>2, <1>1, <1>2, <1>5, <1>10, <1>13
      <4> QED
        BY <4>2, <3>2, <2>4, <1>1, <1>2, <1>4, <1>5, <1>10
    <3>3. CASE inner = Sentinel
      <4>1. At(pos, node) = Toward(side, At(pos, temp))
        BY <3>3, <1>1, <1>7, <1>13
      <4>2. At(pos, temp) = Toward(other, At(pos, node))
        BY <4>1, <1>1, <1>2, <1>7 DEF Toward, Sides
      <4> QED
        BY <4>2, <3>3, <2>4, <1>1, <1>2, <1>4, <1>5, <1>10
    <3> QED
      BY <3>2, <3>3
  <2>5. CASE n = temp /\ z = side
    BY <2>5, <1>1, <1>2, <1>4, <1>5, <1>10
  <2>6. CASE n = temp /\ z = other
    BY <2>1, <2>2, <2>6, <1>1, <1>2, <1>4, <1>5, <1>7, <1>10, <1>13
  <2>7. CASE n \notin {node, temp}
    <3>1. Kid(v, z, n) = IF Kid(u, z, n) = node THEN temp ELSE Kid(u, z, n)
      BY <2>7, <1>4
    <3>2. Kid(u, z, n) # temp
      BY <2>7, <1>5
    <3>3. Edge(c, z, n) = Edge(b, z, n)
      BY <2>1, <2>7, <1>10
    <3>4. CASE Kid(u, z, n) = node
      BY <3>1, <3>3, <3>4, <2>1, <1>1, <1>7, <1>10
    <3>5. CASE Kid(u, z, n) # node
      BY <3>1, <3>2, <3>3, <3>5, <2>1, <2>2, <1>1, <1>7, <1>10
    <3> QED
      BY <3>4, <3>5
  <2> QED
    BY <2>3, <2>4, <2>5, <2>6, <2>7, <1>2
<1>15. Framed(v, V, pos, N, c)
  BY <1>11, <1>12, <1>14 DEF Framed
<1> QED
  BY <1>8, <1>15

\* Two changes that keep the order, one after the other.
LEMMA MovesOn ==
  ASSUME NEW u, NEW v, NEW w, NEW V, Moves(u, v, V), Moves(v, w, V)
  PROVE  Moves(u, w, V)
  BY DEF Moves

(***************************************************************************)
(* The loop of an insert.                                                  *)
(***************************************************************************)
Risen(u, V, x, h) ==
  /\ Tree(u, V) /\ Clean(u, V) /\ Level(u, V, h)
  /\ x \in V /\ IsRed(u, x) /\ RedsAbove(u, V, x)
  /\ IsRed(u, Root(u)) => Root(u) = x

\* mid and low are red and on the same side of top
Skew(u, V, h, top, mid, low, side) ==
  /\ Tree(u, V) /\ Clean(u, V) /\ Level(u, V, h)
  /\ top \in V /\ mid \in V /\ low \in V
  /\ Kid(u, side, top) = mid /\ Kid(u, side, mid) = low
  /\ IsRed(u, mid) /\ IsRed(u, low) /\ ~ IsRed(u, top) /\ ~ IsRed(u, Kid(u, Other(side), top))
  /\ RedsAbove(u, V, low) /\ ~ IsRed(u, Root(u))

\* the parent of x is red
Above(u, V, x, up, top, side, uncle) ==
  /\ x # Root(u) /\ up = Parent(u, x) /\ IsRed(u, up) /\ top = Parent(u, up)
  /\ side \in Sides /\ Kid(u, side, top) = up
  /\ uncle = Kid(u, Other(side), top)
  /\ up \in V /\ top \in V

(***************************************************************************)
(* A red uncle: the colours of three nodes change, and the red node that   *)
(* may have a red parent is two levels up, where the black height is one   *)
(* more.                                                                   *)
(***************************************************************************)
LEMMA RebalanceRecolours ==
  ASSUME NEW u, NEW V, NEW x, NEW h, Risen(u, V, x, h),
         NEW up, NEW top, NEW side, NEW uncle, Above(u, V, x, up, top, side, uncle), IsRed(u, uncle),
         NEW v, v = MadeRed(MadeBlack(MadeBlack(u, up), uncle), top)
  PROVE  Moves(u, v, V) /\ \E g : Risen(v, V, top, g) /\ At(g, top) = At(h, x) + 1
<1> PICK mu : Linked(u, V) /\ Falls(u, V, mu)
  BY DEF Risen, Tree
<1>s. Sane(u, V)
  BY LinkedFacts
<1>a. /\ x # Root(u) /\ up = Parent(u, x) /\ IsRed(u, up) /\ top = Parent(u, up)
      /\ side \in Sides /\ Kid(u, side, top) = up
      /\ uncle = Kid(u, Other(side), top)
      /\ up \in V /\ top \in V
  BY DEF Above
<1>1. /\ u \in Trees /\ V \subseteq All /\ Sentinel \notin V /\ Sentinel \in All /\ ~ IsRed(u, Sentinel)
      /\ Root(u) \in All
      /\ \A n \in V, z \in Sides : Kid(u, z, n) # Sentinel => Parent(u, Kid(u, z, n)) = n /\ Kid(u, z, n) \in V
      /\ \A n \in V, z \in Sides : Kid(u, z, n) \in All /\ Kid(u, z, n) # n
  BY <1>s DEF Sane
<1>b. Sides = {side, Other(side)} /\ Other(side) \in Sides
  BY <1>a, SideFacts
<1>2. /\ x \in V /\ IsRed(u, x) /\ Counted(h) /\ At(h, Sentinel) = 0
      /\ \A n \in V, z \in Sides : At(h, n) = At(h, Kid(u, z, n)) + Weight(u, n)
      /\ \A n \in V, z \in Sides : IsRed(u, n) /\ IsRed(u, Kid(u, z, n)) => Kid(u, z, n) = x
      /\ IsRed(u, Root(u)) => Root(u) = x
  BY DEF Risen, Level, RedsAbove
<1>3. /\ uncle \in V /\ up # top /\ uncle # top /\ Parent(u, uncle) = top /\ up # uncle /\ up # x
      /\ Parent(u, up) = top
  <2>1. uncle \in V /\ Parent(u, uncle) = top /\ up # top /\ uncle # top
    BY <1>1, <1>a, <1>b
  <2>2. up # uncle
    BY <1>a, <1>s, <2>1 DEF Sane
  <2>3. Parent(u, x) # x
    BY <1>a, <1>2, <1>s DEF Sane
  <2> QED
    BY <1>1, <1>a, <2>1, <2>2, <2>3
<1>4. PICK k \in Sides : Kid(u, k, up) = x
  BY <1>2, <1>a DEF Linked
<1>5. ~ IsRed(u, top)
  BY <1>2, <1>3, <1>a
<1>6. /\ Repainted(u, v)
      /\ \A m \in All : IsRed(v, m) <=> m = top \/ (m # up /\ m # uncle /\ IsRed(u, m))
  <2>1. up \in All /\ uncle \in All /\ top \in All
    BY <1>1, <1>a, <1>b, <1>3
  <2> QED
    BY <1>1, <1>a, <1>b, <2>1, PaintedThrice
<1>7. v \in Trees /\ Root(v) = Root(u) /\ SameKids(u, v)
  BY <1>6 DEF Repainted
<1>8. ~ IsRed(v, Sentinel)
  BY <1>1, <1>a, <1>b, <1>3, <1>6
<1>9. Tree(v, V) /\ Clean(v, V)
  BY <1>6, <1>8, RepaintedKeeps DEF Risen
<1> DEFINE g == [m \in All |-> IF m \in {up, uncle} THEN At(h, m) + 1 ELSE At(h, m)]
<1>10. /\ Counted(g) /\ At(g, up) = At(h, up) + 1 /\ At(g, uncle) = At(h, uncle) + 1
       /\ \A m \in All \ {up, uncle} : At(g, m) = At(h, m)
  BY <1>1, <1>a, <1>b, <1>2, <1>3 DEF At, Counted
<1> HIDE DEF g
<1>11. Level(v, V, g)
  <2>1. ASSUME NEW m \in V, NEW z \in Sides
        PROVE  At(g, m) = At(g, Kid(u, z, m)) + Weight(v, m)
    <3> PICK c : c = Kid(u, z, m)
      OBVIOUS
    <3>1. c \in All /\ m \in All /\ c # m /\ At(h, m) = At(h, c) + Weight(u, m)
      BY <1>1, <1>a, <1>b, <1>2
    <3>2. At(h, c) \in Nat /\ At(h, m) \in Nat
      BY <1>2, <3>1 DEF Counted
    <3>3. CASE m = top
      <4>1. c \in {up, uncle} /\ At(g, m) = At(h, m) /\ At(g, c) = At(h, c) + 1
        BY <3>1, <3>3, <1>1, <1>a, <1>b, <1>3, <1>10
      <4>2. Weight(u, m) = 1 /\ Weight(v, m) = 0
        BY <3>1, <3>3, <1>5, <1>6 DEF Weight
      <4> QED
        BY <4>1, <4>2, <3>1, <3>2
    <3>4. CASE m \in {up, uncle}
      <4>1. c \notin {up, uncle}
        BY <3>4, <1>1, <1>a, <1>b, <1>3
      <4>2. Weight(u, m) = 0 /\ Weight(v, m) = 1
        BY <3>1, <3>4, <1>a, <1>3, <1>6 DEF Weight
      <4> QED
        BY <4>1, <4>2, <3>1, <3>2, <3>4, <1>10
    <3>5. CASE m \notin {top, up, uncle}
      <4>1. c \notin {up, uncle}
        BY <3>5, <1>1, <1>a, <1>b, <1>3
      <4>2. Weight(u, m) = Weight(v, m)
        BY <3>1, <3>5, <1>6 DEF Weight
      <4> QED
        BY <4>1, <4>2, <3>1, <3>5, <1>10
    <3> QED
      BY <3>3, <3>4, <3>5
  <2>2. At(g, Sentinel) = 0
    BY <1>1, <1>a, <1>b, <1>2, <1>3, <1>10
  <2> QED
    BY <2>1, <2>2, <1>7, <1>10 DEF Level, SameKids
<1>12. RedsAbove(v, V, top)
  <2> SUFFICES ASSUME NEW m \in V, NEW z \in Sides, IsRed(v, m), IsRed(v, Kid(u, z, m))
               PROVE  Kid(u, z, m) = top
    BY <1>7 DEF RedsAbove, SameKids
  <2> PICK c : c = Kid(u, z, m)
    OBVIOUS
  <2>1. c \in All /\ m \in All
    BY <1>1, <1>a, <1>b
  <2>2. CASE m = top
    BY <2>1, <2>2, <1>1, <1>a, <1>b, <1>3, <1>6
  <2>3. CASE m # top /\ c # top
    <3>1. IsRed(u, m) /\ IsRed(u, c) /\ m # up
      BY <2>1, <2>3, <1>6
    <3> QED
      BY <3>1, <1>1, <1>a, <1>b, <1>2, <1>4
  <2> QED
    BY <2>2, <2>3
<1>13. IsRed(v, Root(v)) => Root(v) = top
  <2>1. Root(v) # top /\ IsRed(v, Root(v)) => IsRed(u, Root(u))
    BY <1>1, <1>a, <1>b, <1>6, <1>7
  <2> QED
    BY <2>1, <1>2, <1>a, <1>7
<1>14. IsRed(v, top)
  BY <1>1, <1>a, <1>b, <1>6
<1>15. At(g, top) = At(h, x) + 1
  <2>1. At(h, top) = At(h, up) + 1 /\ At(h, up) = At(h, x) + 0
    BY <1>a, <1>2, <1>4, <1>5 DEF Weight
  <2>2. At(h, x) \in Nat /\ top \notin {up, uncle} /\ top \in All
    BY <1>1, <1>a, <1>2, <1>3 DEF Counted
  <2> QED
    BY <2>1, <2>2, <1>10
<1>16. Moves(u, v, V)
  BY <1>7, RepaintedMoves
<1> QED
  BY <1>9, <1>11, <1>12, <1>13, <1>14, <1>15, <1>16, <1>a DEF Risen

\* A red node with a red parent has a grandparent, for the root is black.
LEMMA AboveHolds ==
  ASSUME NEW u, NEW V, NEW x, NEW h, Risen(u, V, x, h), x # Root(u), IsRed(u, Parent(u, x)),
         NEW up, up = Parent(u, x), NEW top, top = Parent(u, up), NEW side, side = SideOf(u, up),
         NEW uncle, uncle = Kid(u, Other(side), top)
  PROVE  Above(u, V, x, up, top, side, uncle) /\ up # Root(u)
<1>1. Linked(u, V) /\ x \in V /\ (IsRed(u, Root(u)) => Root(u) = x)
  BY DEF Risen, Tree
<1>2. up \in V /\ up # Root(u)
  BY <1>1 DEF Linked
<1>3. top \in V /\ side \in Sides /\ Kid(u, side, top) = up
  BY <1>1, <1>2, SideTrue DEF Linked
<1> QED
  BY <1>2, <1>3 DEF Above

\* A black uncle, and the node on the outer side: nothing is rotated yet.
LEMMA SkewStraight ==
  ASSUME NEW u, NEW V, NEW x, NEW h, Risen(u, V, x, h),
         NEW up, NEW top, NEW side, NEW uncle, Above(u, V, x, up, top, side, uncle),
         ~ IsRed(u, uncle), Kid(u, side, up) = x
  PROVE  Skew(u, V, h, top, up, x, side)
<1>1. /\ Tree(u, V) /\ Clean(u, V) /\ Level(u, V, h)
      /\ x \in V /\ IsRed(u, x) /\ RedsAbove(u, V, x) /\ (IsRed(u, Root(u)) => Root(u) = x)
  BY DEF Risen
<1>2. /\ x # Root(u) /\ up = Parent(u, x) /\ IsRed(u, up) /\ top = Parent(u, up)
      /\ side \in Sides /\ Kid(u, side, top) = up
      /\ uncle = Kid(u, Other(side), top) /\ up \in V /\ top \in V
  BY DEF Above
<1> PICK mu : Linked(u, V) /\ Falls(u, V, mu)
  BY <1>1 DEF Tree
<1>3. Sane(u, V)
  BY LinkedFacts
<1>4. up # x
  BY <1>1, <1>2, <1>3 DEF Sane
<1>5. ~ IsRed(u, top)
  BY <1>1, <1>2, <1>4 DEF RedsAbove
<1> QED
  BY <1>1, <1>2, <1>5 DEF Skew

(***************************************************************************)
(* A black uncle, and the node on the inner side: the first rotation moves *)
(* it to the outer side.                                                   *)
(***************************************************************************)
LEMMA SkewBent ==
  ASSUME NEW u, NEW V, NEW x, NEW h, Risen(u, V, x, h),
         NEW up, NEW top, NEW side, NEW uncle, Above(u, V, x, up, top, side, uncle),
         ~ IsRed(u, uncle), Kid(u, Other(side), up) = x,
         NEW o, o = Rotated(u, side, up)
  PROVE  Skew(o, V, h, top, x, up, side) /\ Moves(u, o, V)
<1>1. /\ Tree(u, V) /\ Clean(u, V) /\ Level(u, V, h)
      /\ x \in V /\ IsRed(u, x) /\ RedsAbove(u, V, x) /\ (IsRed(u, Root(u)) => Root(u) = x)
  BY DEF Risen
<1>2. /\ x # Root(u) /\ up = Parent(u, x) /\ IsRed(u, up) /\ top = Parent(u, up)
      /\ side \in Sides /\ Kid(u, side, top) = up
      /\ uncle = Kid(u, Other(side), top) /\ up \in V /\ top \in V
  BY DEF Above
<1> PICK other : other = Other(side)
  OBVIOUS
<1>3. other \in Sides /\ other # side /\ Sides = {side, other}
  BY <1>2, SideFacts
<1> PICK mu : Linked(u, V) /\ Falls(u, V, mu)
  BY <1>1 DEF Tree
<1>4. Sane(u, V)
  BY LinkedFacts
<1>5. Turned(u, o, V, side, up)
  BY <1>1, <1>2, RotatedAs
<1>6. Tree(o, V)
  BY <1>1, <1>2, <1>5, TurnedKeepsLinks
<1>7. Edges(u, o, V, side, up, x) /\ Unlike(u, V, side, up, x) /\ Clean(o, V)
  BY <1>1, <1>2, <1>5, TurnedEdges
<1>8. up # x /\ top # up /\ top # x /\ Kid(u, other, top) # up
  <2>1. up # x /\ top # up
    BY <1>1, <1>2, <1>4 DEF Sane
  <2>2. top # x
    BY <1>2, <1>7 DEF Unlike
  <2>3. Kid(u, other, top) # up
    BY <1>2, <1>4 DEF Sane
  <2> QED
    BY <2>1, <2>2, <2>3
<1>9. ~ IsRed(u, top) /\ ~ IsRed(u, Root(u)) /\ up # Root(u)
  BY <1>1, <1>2, <1>8 DEF RedsAbove
<1>10. SameReds(u, o) /\ Root(o) = Root(u)
  BY <1>5, <1>9 DEF Turned
<1>11. Kid(o, side, top) = x /\ Kid(o, side, x) = up /\ Kid(o, other, top) = uncle
  BY <1>2, <1>3, <1>7, <1>8 DEF Edges
<1>12. Level(o, V, h)
  <2>1. /\ Counted(h) /\ At(h, Sentinel) = 0
        /\ \A m \in V, z \in Sides : At(h, m) = At(h, Kid(u, z, m)) + Weight(u, m)
    BY <1>1 DEF Level
  <2>2. Weight(u, up) = 0 /\ Weight(u, x) = 0
    BY <1>1, <1>2 DEF Weight
  <2>3. At(h, x) \in Nat /\ At(h, up) \in Nat
    BY <1>1, <1>2, <1>4, <2>1 DEF Counted, Sane
  <2>4. /\ At(h, up) = At(h, x) + 0
        /\ At(h, up) = At(h, Kid(u, side, up)) + 0
        /\ At(h, x) = At(h, Kid(u, side, x)) + 0
        /\ At(h, x) = At(h, Kid(u, other, x)) + 0
    BY <1>1, <1>2, <1>3, <2>1, <2>2
  <2>5. At(h, up) = At(h, x)
    BY <2>3, <2>4
  <2>6. \A m \in V \ {up, x}, z \in Sides :
          At(h, m) = (IF Kid(u, z, m) = up THEN At(h, x) ELSE At(h, Kid(u, z, m))) + Weight(u, m)
    BY <2>1, <2>5
  <2> QED
    BY <1>1, <1>2, <1>5, <1>7, <2>1, <2>2, <2>4, <2>5, <2>6, TurnedLevel
<1>13. RedsAbove(o, V, up)
  <2> SUFFICES ASSUME NEW m \in V, NEW z \in Sides, IsRed(o, m), IsRed(o, Kid(o, z, m))
               PROVE  Kid(o, z, m) = up
    BY DEF RedsAbove
  <2>1. \A n \in V, s \in Sides : IsRed(u, n) /\ IsRed(u, Kid(u, s, n)) => Kid(u, s, n) = x
    BY <1>1 DEF RedsAbove
  <2>2. IsRed(u, m) /\ IsRed(u, Kid(o, z, m))
    BY <1>10 DEF SameReds
  <2>3. CASE m = up
    <3>1. Kid(o, z, m) \in {Kid(u, side, up), Kid(u, side, x)}
      BY <2>3, <1>3, <1>7 DEF Edges
    <3>2. Kid(u, side, up) # x /\ Kid(u, side, x) # x
      BY <1>1, <1>2, <1>4, <1>7 DEF Unlike, Sane
    <3> QED
      BY <2>1, <2>2, <2>3, <3>1, <3>2, <1>1, <1>2
  <2>4. CASE m = x
    <3>1. Kid(o, z, m) \in {up, Kid(u, other, x)}
      BY <2>4, <1>3, <1>7 DEF Edges
    <3>2. Kid(u, other, x) # x
      BY <1>1, <1>3, <1>4 DEF Sane
    <3> QED
      BY <2>1, <2>2, <2>4, <3>1, <3>2, <1>1, <1>3
  <2>5. CASE m \notin {up, x}
    <3>1. Kid(o, z, m) = IF Kid(u, z, m) = up THEN x ELSE Kid(u, z, m)
      BY <2>5, <1>7 DEF Edges
    <3>2. Kid(u, z, m) # x
      BY <2>5, <1>7 DEF Unlike
    <3> QED
      BY <2>1, <2>2, <3>1, <3>2, <1>2, <1>8
  <2> QED
    BY <2>3, <2>4, <2>5
<1>14. IsRed(o, x) /\ IsRed(o, up) /\ ~ IsRed(o, top) /\ ~ IsRed(o, uncle) /\ ~ IsRed(o, Root(o))
  BY <1>1, <1>2, <1>9, <1>10 DEF SameReds
<1>15. Moves(u, o, V)
  BY <1>1, <1>2, <1>5, TurnedMoves
<1> QED
  BY <1>1, <1>2, <1>6, <1>7, <1>11, <1>12, <1>13, <1>14, <1>15 DEF Skew

\* The last rotation of an insert: no red node has a red parent any more.
LEMMA SkewEnds ==
  ASSUME NEW u, NEW V, NEW h, NEW top, NEW mid, NEW low, NEW side \in Sides,
         Skew(u, V, h, top, mid, low, side),
         NEW p, p = MadeRed(MadeBlack(u, mid), top), NEW v, v = Rotated(p, Other(side), top)
  PROVE  /\ \E g : Risen(v, V, low, g)
         /\ low # Root(v) /\ ~ IsRed(v, Parent(v, low)) /\ Moves(u, v, V)
<1> PICK turn : turn = Other(side)
  OBVIOUS
<1>1. turn \in Sides /\ turn # side /\ Sides = {side, turn} /\ Other(turn) = side
  BY SideFacts
<1>2. /\ Tree(u, V) /\ Clean(u, V) /\ Level(u, V, h)
      /\ top \in V /\ mid \in V /\ low \in V
      /\ Kid(u, side, top) = mid /\ Kid(u, side, mid) = low
      /\ IsRed(u, mid) /\ IsRed(u, low) /\ ~ IsRed(u, top) /\ ~ IsRed(u, Kid(u, turn, top))
      /\ RedsAbove(u, V, low) /\ ~ IsRed(u, Root(u))
  BY DEF Skew
<1> PICK mu : Linked(u, V) /\ Falls(u, V, mu)
  BY <1>2 DEF Tree
<1>3. Sane(u, V)
  BY LinkedFacts
<1>4. u \in Trees /\ mid \in All /\ top \in All /\ low \in All /\ V \subseteq All
  BY <1>2, <1>3 DEF Sane
<1>5. /\ Repainted(u, p)
      /\ \A m \in All : IsRed(p, m) <=> m = top \/ (m # mid /\ IsRed(u, m))
  BY <1>4, PaintedTwice
<1>6. Sentinel \in All /\ Sentinel \notin V /\ ~ IsRed(u, Sentinel)
  BY <1>3 DEF Sane
<1>7. ~ IsRed(p, Sentinel)
  BY <1>2, <1>5, <1>6
<1>8. Linked(p, V) /\ Falls(p, V, mu) /\ Clean(p, V)
  BY <1>2, <1>5, <1>7, RepaintedKeeps
<1>9. /\ \A z, n : Kid(p, z, n) = Kid(u, z, n)
      /\ \A n : Parent(p, n) = Parent(u, n)
      /\ Root(p) = Root(u) /\ p \in Trees
  BY <1>5 DEF Repainted, SameKids, SameParents
<1>10. Kid(p, Other(turn), top) = mid
  BY <1>1, <1>2, <1>9
<1>11. Turned(p, v, V, turn, top)
  BY <1>1, <1>2, <1>8, <1>10, RotatedAs
<1>12. Tree(v, V)
  BY <1>1, <1>2, <1>8, <1>10, <1>11, TurnedKeepsLinks
<1>13. Edges(p, v, V, turn, top, mid) /\ Unlike(p, V, turn, top, mid) /\ Clean(v, V)
  BY <1>1, <1>2, <1>8, <1>10, <1>11, TurnedEdges
<1> PICK uncle, inner : uncle = Kid(u, turn, top) /\ inner = Kid(u, turn, mid)
  OBVIOUS
<1>14. /\ Kid(v, turn, top) = uncle /\ Kid(v, side, top) = inner
       /\ Kid(v, turn, mid) = top /\ Kid(v, side, mid) = low
       /\ \A m \in V \ {top, mid}, z \in Sides :
            Kid(v, z, m) = IF Kid(u, z, m) = top THEN mid ELSE Kid(u, z, m)
  BY <1>1, <1>2, <1>9, <1>13 DEF Edges
<1>15. /\ top # mid /\ mid # low /\ uncle \notin {top, mid} /\ low # top
       /\ inner \notin {top, mid}
       /\ \A m \in V \ {top}, z \in Sides : Kid(u, z, m) # mid
       /\ \A m \in V \ {mid}, z \in Sides : Kid(u, z, m) # low
       /\ uncle \in All /\ inner \in All
  <2>1. /\ top # mid /\ uncle # mid
        /\ \A m \in V \ {top}, z \in Sides : Kid(u, z, m) # mid
        /\ \A z \in Sides : Kid(u, z, mid) # top /\ Kid(u, z, top) # top
    BY <1>9, <1>13 DEF Unlike
  <2>2. mid # low /\ inner # mid /\ uncle \in All /\ inner \in All
    BY <1>1, <1>2, <1>3 DEF Sane
  <2>3. Parent(u, low) = mid
    BY <1>1, <1>2, <1>3 DEF Sane
  <2>4. \A m \in V \ {mid}, z \in Sides : Kid(u, z, m) # low
    BY <1>1, <1>2, <1>3, <2>3 DEF Sane
  <2> QED
    BY <1>1, <1>2, <2>1, <2>2, <2>4
<1>16. ~ IsRed(u, inner)
  <2>1. inner # low
    BY <1>1, <1>2, <1>3, <1>6 DEF Sane
  <2> QED
    BY <1>1, <1>2, <2>1 DEF RedsAbove
<1>17. \A m \in All : IsRed(v, m) <=> m = top \/ (m # mid /\ IsRed(u, m))
  BY <1>5, <1>11 DEF Turned, SameReds
<1> DEFINE g == [m \in All |-> IF m = mid THEN At(h, top) ELSE IF m = top THEN At(h, mid) ELSE At(h, m)]
<1>18. /\ Counted(h) /\ At(h, Sentinel) = 0
       /\ \A m \in V, z \in Sides : At(h, m) = At(h, Kid(u, z, m)) + Weight(u, m)
  BY <1>2 DEF Level
<1>19. /\ Counted(g) /\ At(g, mid) = At(h, top) /\ At(g, top) = At(h, mid)
       /\ \A m \in All \ {mid, top} : At(g, m) = At(h, m)
  BY <1>4, <1>15, <1>18 DEF At, Counted
<1> HIDE DEF g
<1>20. Level(v, V, g)
  <2>1. At(h, top) \in Nat /\ At(h, mid) \in Nat /\ At(h, low) \in Nat
        /\ At(h, uncle) \in Nat /\ At(h, inner) \in Nat
    BY <1>4, <1>15, <1>18 DEF Counted
  <2>2. Weight(u, top) = 1 /\ Weight(u, mid) = 0 /\ Weight(p, top) = 0 /\ Weight(p, mid) = 1
    BY <1>2, <1>4, <1>5, <1>15 DEF Weight
  <2>3. /\ At(h, top) = At(h, mid) + 1 /\ At(h, top) = At(h, uncle) + 1
        /\ At(h, mid) = At(h, low) + 0 /\ At(h, mid) = At(h, inner) + 0
    BY <1>1, <1>2, <1>18, <2>2
  <2>4. /\ At(g, top) = At(g, uncle) + 0 /\ At(g, top) = At(g, inner) + 0
        /\ At(g, mid) = At(g, top) + 1 /\ At(g, mid) = At(g, low) + 1
    BY <1>4, <1>15, <1>19, <2>1, <2>3
  <2>5. At(g, Sentinel) = 0
    BY <1>2, <1>6, <1>18, <1>19
  <2>6. ASSUME NEW m \in V \ {top, mid}, NEW z \in Sides
        PROVE  At(g, m) = (IF Kid(p, z, m) = top THEN At(g, mid) ELSE At(g, Kid(p, z, m))) + Weight(p, m)
    <3>1. Weight(p, m) = Weight(u, m)
      BY <1>4, <1>5 DEF Weight
    <3>2. At(h, m) = At(h, Kid(u, z, m)) + Weight(u, m) /\ At(g, m) = At(h, m)
      BY <1>4, <1>18, <1>19
    <3>3. Kid(u, z, m) # mid /\ Kid(u, z, m) \in All
      BY <1>3, <1>15 DEF Sane
    <3>4. CASE Kid(u, z, m) = top
      BY <3>1, <3>2, <3>4, <1>9, <1>19
    <3>5. CASE Kid(u, z, m) # top
      BY <3>1, <3>2, <3>3, <3>5, <1>9, <1>19
    <3> QED
      BY <3>4, <3>5
  <2> QED
    BY <1>1, <1>2, <1>9, <1>11, <1>13, <1>19, <2>2, <2>4, <2>5, <2>6, TurnedLevel
<1>21. RedsAbove(v, V, low)
  <2> SUFFICES ASSUME NEW m \in V, NEW z \in Sides, IsRed(v, m), IsRed(v, Kid(v, z, m))
               PROVE  Kid(v, z, m) = low
    BY DEF RedsAbove
  <2>1. CASE m = top
    <3>1. Kid(v, z, m) \in {uncle, inner}
      BY <2>1, <1>1, <1>14
    <3> QED
      BY <3>1, <1>2, <1>15, <1>16, <1>17
  <2>2. CASE m = mid
    BY <2>2, <1>4, <1>15, <1>17
  <2>3. CASE m \notin {top, mid}
    <3>1. Kid(v, z, m) = IF Kid(u, z, m) = top THEN mid ELSE Kid(u, z, m)
      BY <2>3, <1>14
    <3>2. Kid(u, z, m) \in All /\ IsRed(u, m)
      BY <2>3, <1>3, <1>4, <1>17 DEF Sane
    <3>3. Kid(v, z, m) # mid
      BY <1>4, <1>15, <1>17
    <3>4. Kid(v, z, m) = Kid(u, z, m) /\ IsRed(u, Kid(u, z, m))
      BY <2>3, <3>1, <3>2, <3>3, <1>15, <1>17
    <3> QED
      BY <3>2, <3>4, <1>2 DEF RedsAbove
  <2> QED
    BY <2>1, <2>2, <2>3
<1>22. ~ IsRed(v, Root(v)) /\ Root(v) # low
  <2>1. Root(v) = IF top = Root(u) THEN mid ELSE Root(u)
    BY <1>9, <1>10, <1>11 DEF Turned
  <2>2. Root(u) \in All /\ Root(u) # low
    BY <1>2, <1>3 DEF Sane
  <2> QED
    BY <2>1, <2>2, <1>2, <1>4, <1>15, <1>17
<1>23. IsRed(v, low)
  BY <1>2, <1>4, <1>15, <1>17
<1>24. ~ IsRed(v, Parent(v, low))
  <2> PICK nu : Linked(v, V) /\ Falls(v, V, nu)
    BY <1>12 DEF Tree
  <2>1. Sane(v, V)
    BY LinkedFacts
  <2>2. Parent(v, low) = mid
    BY <1>2, <1>6, <1>14, <2>1 DEF Sane
  <2> QED
    BY <2>2, <1>4, <1>15, <1>17
<1>25. Moves(u, v, V)
  <2>1. Moves(u, p, V)
    BY <1>5, RepaintedMoves DEF Repainted
  <2>2. Moves(p, v, V)
    BY <1>1, <1>2, <1>8, <1>10, <1>11, TurnedMoves
  <2> QED
    BY <2>1, <2>2, MovesOn
<1> QED
  BY <1>2, <1>12, <1>13, <1>20, <1>21, <1>22, <1>23, <1>24, <1>25 DEF Risen

\* The state of a loop through a tree: the tree and where the loop is.
TreeOf(y) == y.tree
Place(y) == y.at

\* The branches of the loop of rap_rbtree_insert.
LEMMA RebalanceCases ==
  ASSUME NEW y, NEW u, u = TreeOf(y), NEW x, x = Place(y), NEW up, up = Parent(u, x),
         NEW top, top = Parent(u, up), NEW side, side = SideOf(u, up),
         NEW uncle, uncle = Kid(u, Other(side), top)
  PROVE  /\ IsRed(u, uncle) => /\ TreeOf(Rebalance(y)) = MadeRed(MadeBlack(MadeBlack(u, up), uncle), top)
                               /\ Place(Rebalance(y)) = top
         /\ ~ IsRed(u, uncle) /\ SideOf(u, x) = side =>
              /\ TreeOf(Rebalance(y)) = Rotated(MadeRed(MadeBlack(u, up), top), Other(side), top)
              /\ Place(Rebalance(y)) = x
         /\ ~ IsRed(u, uncle) /\ SideOf(u, x) # side =>
              /\ TreeOf(Rebalance(y)) = Rotated(MadeRed(MadeBlack(Rotated(u, side, up), x), top), Other(side), top)
              /\ Place(Rebalance(y)) = up
<1>1. IsRed(u, uncle) => Rebalance(y) = [tree |-> MadeRed(MadeBlack(MadeBlack(u, up), uncle), top), at |-> top]
  BY DEF Rebalance, IsRed, Kid, Parent, TreeOf, Place
<1>2. ~ IsRed(u, uncle) /\ SideOf(u, x) = side =>
        Rebalance(y) = [tree |-> Rotated(MadeRed(MadeBlack(u, up), top), Other(side), top), at |-> x]
  BY DEF Rebalance, IsRed, Kid, Parent, TreeOf, Place
<1>3. ~ IsRed(u, uncle) /\ SideOf(u, x) # side =>
        Rebalance(y) = [tree |-> Rotated(MadeRed(MadeBlack(Rotated(u, side, up), x), top), Other(side), top),
                        at |-> up]
  BY DEF Rebalance, IsRed, Kid, Parent, TreeOf, Place
<1> QED
  BY <1>1, <1>2, <1>3 DEF TreeOf, Place

(***************************************************************************)
(* A turn of the loop of rap_rbtree_insert keeps the tree but for one red  *)
(* node, and ends the loop or gets a level of black higher.                *)
(***************************************************************************)
LEMMA RebalanceRises ==
  ASSUME NEW V, NEW y, NEW h, Risen(TreeOf(y), V, Place(y), h), ~ Balanced(y)
  PROVE  /\ \E g : /\ Risen(TreeOf(Rebalance(y)), V, Place(Rebalance(y)), g)
                   /\ Balanced(Rebalance(y)) \/ At(g, Place(Rebalance(y))) = At(h, Place(y)) + 1
         /\ Moves(TreeOf(y), TreeOf(Rebalance(y)), V)
<1> PICK u, x, r : u = TreeOf(y) /\ x = Place(y) /\ r = Rebalance(y)
  OBVIOUS
<1> PICK up : up = Parent(u, x)
  OBVIOUS
<1> PICK top, side : top = Parent(u, up) /\ side = SideOf(u, up)
  OBVIOUS
<1> PICK uncle : uncle = Kid(u, Other(side), top)
  OBVIOUS
<1>1. \A z : Balanced(z) <=> Place(z) = Root(TreeOf(z)) \/ ~ IsRed(TreeOf(z), Parent(TreeOf(z), Place(z)))
  BY DEF Balanced, Place, TreeOf, Root, IsRed, Parent
<1>2. x # Root(u) /\ IsRed(u, Parent(u, x)) /\ Risen(u, V, x, h)
  BY <1>1
<1>3. Above(u, V, x, up, top, side, uncle) /\ up # Root(u)
  BY <1>2, AboveHolds
<1>4. CASE IsRed(u, uncle)
  <2>1. TreeOf(r) = MadeRed(MadeBlack(MadeBlack(u, up), uncle), top) /\ Place(r) = top
    BY <1>4, RebalanceCases
  <2>2. /\ \E g : Risen(TreeOf(r), V, top, g) /\ At(g, top) = At(h, x) + 1
        /\ Moves(u, TreeOf(r), V)
    BY <2>1, <1>2, <1>3, <1>4, RebalanceRecolours
  <2> QED
    BY <2>1, <2>2
<1>5. CASE ~ IsRed(u, uncle)
  <2>1. \E o, mid, low : /\ TreeOf(r) = Rotated(MadeRed(MadeBlack(o, mid), top), Other(side), top)
                         /\ Place(r) = low /\ Skew(o, V, h, top, mid, low, side)
                         /\ Moves(u, o, V)
    <3>1. SideOf(u, x) \in Sides /\ Kid(u, SideOf(u, x), up) = x
      BY <1>2, SideTrue DEF Risen, Tree
    <3>2. CASE SideOf(u, x) = side
      <4>1. TreeOf(r) = Rotated(MadeRed(MadeBlack(u, up), top), Other(side), top) /\ Place(r) = x
        BY <1>5, <3>2, RebalanceCases
      <4>2. Skew(u, V, h, top, up, x, side)
        BY <1>2, <1>3, <1>5, <3>1, <3>2, SkewStraight
      <4>3. Moves(u, u, V)
        BY DEF Moves
      <4> QED
        BY <4>1, <4>2, <4>3
    <3>3. CASE SideOf(u, x) # side
      <4>1. /\ TreeOf(r) = Rotated(MadeRed(MadeBlack(Rotated(u, side, up), x), top), Other(side), top)
            /\ Place(r) = up
        BY <1>5, <3>3, RebalanceCases
      <4>2. side \in Sides
        BY <1>3 DEF Above
      <4>3. Kid(u, Other(side), up) = x
        BY <3>1, <3>3, <4>2, SideFacts
      <4>4. Skew(Rotated(u, side, up), V, h, top, x, up, side) /\ Moves(u, Rotated(u, side, up), V)
        BY <1>2, <1>3, <1>5, <4>3, SkewBent
      <4> QED
        BY <4>1, <4>4
    <3> QED
      BY <3>2, <3>3
  <2>2. PICK o, mid, low : /\ TreeOf(r) = Rotated(MadeRed(MadeBlack(o, mid), top), Other(side), top)
                           /\ Place(r) = low /\ Skew(o, V, h, top, mid, low, side)
                           /\ Moves(u, o, V)
    BY <2>1
  <2>3. side \in Sides
    BY <1>3 DEF Above
  <2>4. /\ \E g : Risen(TreeOf(r), V, low, g)
        /\ low # Root(TreeOf(r)) /\ ~ IsRed(TreeOf(r), Parent(TreeOf(r), low))
        /\ Moves(o, TreeOf(r), V)
    BY <2>2, <2>3, SkewEnds
  <2>5. Balanced(r)
    BY <1>1, <2>2, <2>4
  <2>6. Moves(u, TreeOf(r), V)
    BY <2>2, <2>4, MovesOn
  <2> QED
    BY <2>2, <2>4, <2>5, <2>6
<1> QED
  BY <1>4, <1>5

\* A set of numbers has a least one.
LEMMA LeastElement == ASSUME NEW T, T \subseteq Nat, T # {} PROVE \E m \in T : \A k \in T : m <= k
<1> DEFINE R == OpToRel(<, Nat)
<1>1. IsWellFoundedOn(R, Nat)
  BY NatLessThanWellFounded
<1> HIDE DEF R
<1>2. PICK m \in T : \A k \in T : ~ (<<k, m>> \in R)
  BY <1>1, WFMin
<1>3. \A k \in T : ~ (k < m)
  BY <1>2 DEF R, OpToRel
<1> QED
  BY <1>3

\* a child of n in V \cup {Sentinel} is at most one lower than n
Steps(V, h, mu) ==
  /\ V \subseteq All /\ Sentinel \notin V /\ Counted(h) /\ Counted(mu) /\ At(h, Sentinel) = 0
  /\ \A n \in V : \E c \in V \cup {Sentinel} :
       At(h, n) <= At(h, c) + 1 /\ (c \in V => At(mu, c) < At(mu, n))

(***************************************************************************)
(* Heights that fall by one at most are bounded by the number of nodes, so *)
(* that the loops up the tree end.                                         *)
(***************************************************************************)
LEMMA HeightBound ==
  ASSUME NEW V, IsFiniteSet(V), NEW h, NEW mu, Steps(V, h, mu)
  PROVE  \A n \in V : At(h, n) <= Cardinality(V)
<1> SUFFICES ASSUME NEW n \in V PROVE At(h, n) <= Cardinality(V)
  OBVIOUS
<1>1. /\ \A m \in V : At(h, m) \in Nat /\ At(mu, m) \in Nat
      /\ At(h, Sentinel) = 0 /\ Sentinel \notin V
      /\ \A m \in V : \E c \in V \cup {Sentinel} :
           At(h, m) <= At(h, c) + 1 /\ (c \in V => At(mu, c) < At(mu, m))
  BY DEF Steps, Counted
<1> PICK k : k = At(h, n)
  OBVIOUS
<1>2. k \in Nat
  BY <1>1
<1>3. ASSUME NEW j \in 1 .. k PROVE \E m \in V : At(h, m) = j
  <2> DEFINE High == {m \in V : At(h, m) >= j}
  <2> DEFINE T == {At(mu, m) : m \in High}
  <2>1. T \subseteq Nat /\ T # {}
    BY <1>1, <1>2
  <2> HIDE DEF T
  <2>2. PICK a \in T : \A b \in T : a <= b
    BY <2>1, LeastElement
  <2>3. PICK m \in High : At(mu, m) = a
    BY DEF T
  <2>4. PICK c \in V \cup {Sentinel} : At(h, m) <= At(h, c) + 1 /\ (c \in V => At(mu, c) < At(mu, m))
    BY <1>1
  <2>5. c \notin High
    <3> SUFFICES ASSUME c \in High PROVE FALSE
      OBVIOUS
    <3>1. At(mu, c) \in T /\ c \in V
      BY DEF T
    <3> QED
      BY <3>1, <2>2, <2>3, <2>4, <1>1
  <2>6. At(h, c) \in Nat /\ At(h, c) < j
    BY <1>1, <2>5
  <2>7. At(h, m) = j
    BY <2>4, <2>6, <1>1
  <2> QED
    BY <2>7
<1> DEFINE W == {m \in V : At(h, m) \in 1 .. k}
<1>4. IsFiniteSet(W) /\ Cardinality(W) <= Cardinality(V)
  BY FS_Subset
<1>5. [m \in W |-> At(h, m)] \in Surjection(W, 1 .. k)
  <2>1. \A j \in 1 .. k : \E m \in W : At(h, m) = j
    BY <1>3
  <2> QED
    BY <2>1 DEF Surjection
<1>6. Cardinality(1 .. k) <= Cardinality(W)
  BY <1>4, <1>5, FS_Surjection
<1>7. Cardinality(1 .. k) = k
  BY <1>2, FS_Interval
<1>8. Cardinality(V) \in Nat /\ Cardinality(W) \in Nat
  BY <1>4, FS_CardinalityType
<1> HIDE DEF W
<1> QED
  BY <1>2, <1>4, <1>6, <1>7, <1>8

\* f is the run of n steps from x on
Runs(f, S, x, next, n) ==
  f \in [0 .. n -> S] /\ f[0] = x /\ \A k \in 1 .. n : f[k] = next[f[k - 1]]

\* A loop has a run: the sequence of its states is a function.
LEMMA LoopExists ==
  ASSUME NEW S, NEW x \in S, NEW next \in [S -> S], NEW n \in Nat
  PROVE  \E f : Runs(f, S, x, next, n)
<1> DEFINE Ok(m) == \E f : Runs(f, S, x, next, m)
<1> DEFINE T == {m \in Nat : ~ Ok(m)}
<1> SUFFICES ASSUME T # {} PROVE FALSE
  OBVIOUS
<1>1. PICK m \in T : \A k \in T : m <= k
  <2> HIDE DEF Ok
  <2>1. T \subseteq Nat
    OBVIOUS
  <2> HIDE DEF T
  <2> QED
    BY <2>1, LeastElement
<1>2. Ok(0)
  <2>1. Runs([k \in 0 .. 0 |-> x], S, x, next, 0)
    BY DEF Runs
  <2> QED
    BY <2>1
<1>3. ASSUME m # 0 PROVE Ok(m)
  <2>1. m \in Nat /\ m - 1 \in Nat /\ m - 1 \notin T
    <3> HIDE DEF Ok
    <3>1. m \in Nat
      OBVIOUS
    <3>2. m - 1 \in Nat /\ m - 1 < m
      BY <3>1, <1>3
    <3> HIDE DEF T
    <3> QED
      BY <3>1, <3>2, <1>1
  <2>2. Ok(m - 1)
    <3> HIDE DEF Ok
    <3> QED
      BY <2>1
  <2>3. PICK f : f \in [0 .. m - 1 -> S] /\ f[0] = x /\ \A k \in 1 .. m - 1 : f[k] = next[f[k - 1]]
    BY <2>2 DEF Runs
  <2> DEFINE g == [k \in 0 .. m |-> IF k = m THEN next[f[m - 1]] ELSE f[k]]
  <2>4. g \in [0 .. m -> S]
    BY <2>1, <2>3
  <2>5. g[0] = x
    BY <2>1, <2>3, <1>3
  <2>6. \A k \in 1 .. m : g[k] = next[g[k - 1]]
    BY <2>1, <2>3
  <2> HIDE DEF g
  <2> QED
    BY <2>4, <2>5, <2>6 DEF Runs
<1> HIDE DEF Ok
<1> QED
  BY <1>1, <1>2, <1>3

\* What a loop meets when its k-th state is in R[k].
Reached(R) == UNION {R[k] : k \in Nat}

(***************************************************************************)
(* A loop whose steps lead from R[k] to R[k + 1] has one, and the k-th     *)
(* state of any run is in R[k].                                            *)
(***************************************************************************)
LEMMA LoopRuns ==
  ASSUME NEW R, NEW x \in R[0], NEW next, NEW n \in Nat,
         \A k \in Nat : \A y \in R[k] : next[y] \in R[k + 1]
  PROVE  /\ \E f : Runs(f, Reached(R), x, next, n)
         /\ \A c : c[0] = x /\ (\A k \in 1 .. n : c[k - 1] \in Reached(R) => c[k] = next[c[k - 1]])
                     => \A k \in 0 .. n : c[k] \in R[k]
<1>1. \A k \in Nat : R[k] \subseteq Reached(R)
  BY DEF Reached
<1>2. \A y \in Reached(R) : next[y] \in Reached(R)
  <2> TAKE y \in Reached(R)
  <2>1. PICK k \in Nat : y \in R[k]
    BY DEF Reached
  <2>2. next[y] \in R[k + 1] /\ k + 1 \in Nat
    BY <2>1
  <2> QED
    BY <2>2, <1>1
<1>3. \E f : Runs(f, Reached(R), x, next, n)
  <2>a. PICK on : on = [y \in Reached(R) |-> next[y]]
    OBVIOUS
  <2>b. PICK S : S = Reached(R)
    OBVIOUS
  <2>1. on \in [S -> S]
    BY <2>a, <2>b, <1>2
  <2>2. x \in S
    BY <1>1, <2>b
  <2>3. PICK f : Runs(f, S, x, on, n)
    BY <2>1, <2>2, LoopExists
  <2>4. \A k \in 1 .. n : f[k] = next[f[k - 1]]
    <3> TAKE k \in 1 .. n
    <3>1. k - 1 \in 0 .. n
      OBVIOUS
    <3>2. f[k - 1] \in Reached(R)
      BY <3>1, <2>b, <2>3 DEF Runs
    <3> QED
      BY <3>2, <2>3, <2>a DEF Runs
  <2> QED
    BY <2>3, <2>4, <2>b DEF Runs
<1>4. ASSUME NEW c, c[0] = x, \A k \in 1 .. n : c[k - 1] \in Reached(R) => c[k] = next[c[k - 1]],
             NEW j \in 0 .. n
      PROVE  c[j] \in R[j]
  <2> DEFINE T == {k \in 0 .. n : c[k] \notin R[k]}
  <2> SUFFICES ASSUME T # {} PROVE FALSE
    OBVIOUS
  <2>1. PICK m \in T : \A k \in T : m <= k
    <3>1. T \subseteq Nat
      OBVIOUS
    <3> HIDE DEF T
    <3> QED
      BY <3>1, LeastElement
  <2>2. m # 0
    BY <1>4
  <2>3. m - 1 \in 0 .. n /\ m \in 1 .. n /\ m - 1 \in Nat /\ m - 1 < m /\ (m - 1) + 1 = m
    BY <2>2
  <2>4. m - 1 \notin T
    <3> HIDE DEF T
    <3>1. m \in 1 .. n
      BY <2>3
    <3> QED
      BY <2>1, <2>3, <3>1
  <2>5. c[m - 1] \in R[m - 1]
    BY <2>3, <2>4
  <2>6. c[m] = next[c[m - 1]]
    BY <2>3, <2>5, <1>1, <1>4
  <2>7. next[c[m - 1]] \in R[m]
    BY <2>3, <2>5
  <2> QED
    BY <2>6, <2>7
<1> QED
  BY <1>3, <1>4

\* the balanced tree between two operations
Sound(u, V) ==
  Tree(u, V) /\ Clean(u, V) /\ RedsApart(u, V) /\ ~ IsRed(u, Root(u)) /\ \E h : Level(u, V, h)

\* The last statement of rap_rbtree_insert paints the root black, and the tree is balanced.
LEMMA RootBlackened ==
  ASSUME NEW u, NEW V, NEW x, NEW h, Risen(u, V, x, h), x = Root(u) \/ ~ IsRed(u, Parent(u, x)),
         NEW v, v = MadeBlack(u, Root(u))
  PROVE  Sound(v, V) /\ Moves(u, v, V)
<1>1. /\ Tree(u, V) /\ Clean(u, V) /\ Level(u, V, h)
      /\ x \in V /\ IsRed(u, x) /\ RedsAbove(u, V, x) /\ (IsRed(u, Root(u)) => Root(u) = x)
  BY DEF Risen
<1> PICK mu : Linked(u, V) /\ Falls(u, V, mu)
  BY <1>1 DEF Tree
<1>2. Sane(u, V)
  BY LinkedFacts
<1> PICK root : root = Root(u)
  OBVIOUS
<1>3. u \in Trees /\ root \in V /\ root \in All /\ V \subseteq All /\ Sentinel \in All /\ Sentinel \notin V
      /\ ~ IsRed(u, Sentinel)
  BY <1>1, <1>2 DEF Sane
<1>4. BlackIs(u, v, root)
  BY <1>3, ColourWritten
<1>5. Repainted(u, v) /\ \A m \in All : IsRed(v, m) <=> m # root /\ IsRed(u, m)
  BY <1>4 DEF BlackIs
<1>6. ~ IsRed(v, Sentinel) /\ ~ IsRed(v, root)
  BY <1>3, <1>5
<1>7. Tree(v, V) /\ Clean(v, V)
  BY <1>1, <1>5, <1>6, RepaintedKeeps
<1>8. Root(v) = root /\ \A z, n : Kid(v, z, n) = Kid(u, z, n)
  BY <1>5 DEF Repainted, SameKids
<1>9. RedsApart(v, V)
  <2> SUFFICES ASSUME NEW m \in V, NEW z \in Sides, IsRed(v, m), IsRed(v, Kid(v, z, m)) PROVE FALSE
    BY DEF RedsApart
  <2>1. Kid(u, z, m) \in All /\ Kid(u, z, m) # root
    BY <1>2 DEF Sane
  <2>2. IsRed(u, m) /\ IsRed(u, Kid(u, z, m))
    BY <2>1, <1>3, <1>5, <1>8
  <2>3. Kid(u, z, m) = x
    BY <2>2, <1>1 DEF RedsAbove
  <2>4. Parent(u, x) = m
    BY <2>3, <1>1, <1>2, <1>3 DEF Sane
  <2> QED
    BY <2>1, <2>2, <2>3, <2>4
<1> DEFINE g == [m \in All |-> IF m = root /\ IsRed(u, root) THEN At(h, m) + 1 ELSE At(h, m)]
<1>10. /\ Counted(h) /\ At(h, Sentinel) = 0
       /\ \A m \in V, z \in Sides : At(h, m) = At(h, Kid(u, z, m)) + Weight(u, m)
  BY <1>1 DEF Level
<1>11. /\ Counted(g) /\ \A m \in All \ {root} : At(g, m) = At(h, m)
       /\ IsRed(u, root) => At(g, root) = At(h, root) + 1
       /\ ~ IsRed(u, root) => At(g, root) = At(h, root)
  BY <1>3, <1>10 DEF At, Counted
<1> HIDE DEF g
<1>12. Level(v, V, g)
  <2>1. ASSUME NEW m \in V, NEW z \in Sides
        PROVE  At(g, m) = At(g, Kid(v, z, m)) + Weight(v, m)
    <3> PICK c : c = Kid(u, z, m)
      OBVIOUS
    <3>1. c \in All /\ c # root /\ At(h, m) = At(h, c) + Weight(u, m) /\ At(g, c) = At(h, c)
      BY <1>2, <1>10, <1>11 DEF Sane
    <3>2. At(h, c) \in Nat
      BY <3>1, <1>10 DEF Counted
    <3>3. CASE m = root
      BY <3>1, <3>2, <3>3, <1>3, <1>5, <1>8, <1>11 DEF Weight
    <3>4. CASE m # root
      <4>1. Weight(v, m) = Weight(u, m)
        BY <3>4, <1>3, <1>5 DEF Weight
      <4> QED
        BY <3>1, <3>4, <4>1, <1>3, <1>8, <1>11
    <3> QED
      BY <3>3, <3>4
  <2>2. At(g, Sentinel) = 0
    BY <1>3, <1>10, <1>11
  <2> QED
    BY <2>1, <2>2, <1>11 DEF Level
<1>13. Moves(u, v, V)
  BY <1>5, RepaintedMoves DEF Repainted
<1> QED
  BY <1>6, <1>7, <1>8, <1>9, <1>12, <1>13 DEF Sound

\* where a loop that moves through a tree can be
Spots == [tree : Trees, at : All]

\* A tree and a place in it.
LEMMA SpotIs ==
  ASSUME NEW u \in Trees, NEW n \in All
  PROVE  LET y == [tree |-> u, at |-> n] IN y \in Spots /\ TreeOf(y) = u /\ Place(y) = n
  BY DEF Spots, TreeOf, Place

\* A turn of the loop ends at a place in a tree.
LEMMA RebalanceSpot ==
  ASSUME NEW y, TreeOf(Rebalance(y)) \in Trees, Place(Rebalance(y)) \in All
  PROVE  Rebalance(y) \in Spots
<1>1. \E a, b : Rebalance(y) = [tree |-> a, at |-> b]
  BY DEF Rebalance
<1>2. PICK a, b : Rebalance(y) = [tree |-> a, at |-> b]
  BY <1>1
<1> QED
  BY <1>2 DEF Spots, TreeOf, Place

\* The bound of the loops is more than the turns of any.
LEMMA MostFacts ==
  ASSUME NEW V, V \subseteq Nodes
  PROVE  /\ Most \in Nat /\ IsFiniteSet(V) /\ Cardinality(V) \in Nat
         /\ Most >= 2 * Cardinality(V) + 2
<1>1. IsFiniteSet(Nodes)
  BY TreeAssumption
<1>2. IsFiniteSet(V) /\ Cardinality(V) <= Cardinality(Nodes)
  BY <1>1, FS_Subset
<1>3. Cardinality(V) \in Nat /\ Cardinality(Nodes) \in Nat
  BY <1>1, <1>2, FS_CardinalityType
<1> QED
  BY <1>2, <1>3 DEF Most

\* The black height falls by one at most with every step down.
LEMMA LevelSteps ==
  ASSUME NEW u, NEW V, NEW mu, Linked(u, V), Falls(u, V, mu), NEW h, Level(u, V, h)
  PROVE  Steps(V, h, mu)
<1>1. Sane(u, V)
  BY LinkedFacts
<1>2. V \subseteq All /\ Sentinel \notin V /\ Counted(h) /\ Counted(mu) /\ At(h, Sentinel) = 0
  BY <1>1 DEF Sane, Falls, Level
<1>3. ASSUME NEW n \in V
      PROVE  \E c \in V \cup {Sentinel} : At(h, n) <= At(h, c) + 1 /\ (c \in V => At(mu, c) < At(mu, n))
  <2> PICK c : c = Kid(u, "left", n)
    OBVIOUS
  <2>1. "left" \in Sides
    BY DEF Sides
  <2>2. c \in V \cup {Sentinel} /\ c \in All
    BY <1>1, <2>1 DEF Sane
  <2>3. c \in V => At(mu, c) < At(mu, n)
    BY <1>2, <2>1 DEF Falls
  <2>4. At(h, n) = At(h, c) + Weight(u, n)
    BY <2>1 DEF Level
  <2>5. At(h, c) \in Nat
    BY <1>2, <2>2 DEF Counted
  <2>6. Weight(u, n) = 0 \/ Weight(u, n) = 1
    BY DEF Weight
  <2>7. At(h, n) <= At(h, c) + 1
    BY <2>4, <2>5, <2>6
  <2> QED
    BY <2>2, <2>3, <2>7
<1> QED
  BY <1>2, <1>3 DEF Steps

(***************************************************************************)
(* The loop of rap_rbtree_insert, with its last statement, makes a         *)
(* balanced tree of the tree that the new red node was hung into.          *)
(***************************************************************************)
LEMMA RebalancedSound ==
  ASSUME NEW u, NEW V, NEW x, NEW h0, Risen(u, V, x, h0)
  PROVE  Sound(Rebalanced(u, x), V) /\ Moves(u, Rebalanced(u, x), V)
<1> DEFINE body(g) == [k \in 0 .. Most |->
                         IF k = 0 THEN [tree |-> u, at |-> x]
                         ELSE LET y == g[k - 1] IN IF Balanced(y) THEN y ELSE Rebalance(y)]
<1> DEFINE Eq(g) == g = body(g)
<1> DEFINE c == CHOOSE g : Eq(g)
<1>1. Rebalanced(u, x) = MadeBlack(TreeOf(c[Most]), Root(TreeOf(c[Most])))
  BY DEF Rebalanced, Loop, TreeOf, Root
<1> DEFINE ok(k, y) ==
             /\ \E h : Risen(TreeOf(y), V, Place(y), h) /\ (Balanced(y) \/ At(h, Place(y)) >= k)
             /\ Moves(u, TreeOf(y), V)
<1> DEFINE R == [k \in Nat |-> {y \in Spots : ok(k, y)}]
<1> DEFINE next == [y \in Spots |-> IF Balanced(y) THEN y ELSE Rebalance(y)]
<1>2. V \subseteq Nodes /\ V \subseteq All /\ u \in Trees /\ x \in V /\ Counted(h0)
  BY TreeAssumption DEF Risen, Tree, Linked, Level, All
<1>3. Most \in Nat
  BY <1>2, MostFacts
<1>4. [tree |-> u, at |-> x] \in R[0]
  <2>1. x \in All /\ At(h0, x) \in Nat
    BY <1>2 DEF Counted
  <2>2. /\ [tree |-> u, at |-> x] \in Spots /\ TreeOf([tree |-> u, at |-> x]) = u
        /\ Place([tree |-> u, at |-> x]) = x
    BY <2>1, <1>2, SpotIs
  <2>3. At(h0, x) >= 0
    BY <2>1
  <2>4. Moves(u, u, V)
    BY DEF Moves
  <2> QED
    BY <2>2, <2>3, <2>4
<1>5. ASSUME NEW k \in Nat, NEW y \in R[k] PROVE next[y] \in R[k + 1]
  <2>1. y \in Spots
    OBVIOUS
  <2>a. ok(k, y)
    <3> HIDE DEF ok
    <3> QED
      OBVIOUS
  <2>2. PICK h : Risen(TreeOf(y), V, Place(y), h) /\ (Balanced(y) \/ At(h, Place(y)) >= k)
    BY <2>a
  <2>b. Moves(u, TreeOf(y), V)
    BY <2>a
  <2>3. CASE Balanced(y)
    <3>1. next[y] = y
      BY <2>1, <2>3
    <3> QED
      BY <2>1, <2>b, <2>2, <2>3, <3>1
  <2>4. CASE ~ Balanced(y)
    <3>1. next[y] = Rebalance(y)
      BY <2>1, <2>4
    <3>a. Moves(u, TreeOf(Rebalance(y)), V)
      BY <2>b, <2>2, <2>4, RebalanceRises, MovesOn
    <3>2. PICK g : /\ Risen(TreeOf(Rebalance(y)), V, Place(Rebalance(y)), g)
                   /\ Balanced(Rebalance(y)) \/ At(g, Place(Rebalance(y))) = At(h, Place(y)) + 1
      BY <2>2, <2>4, RebalanceRises
    <3>3. TreeOf(Rebalance(y)) \in Trees /\ Place(Rebalance(y)) \in All
      BY <3>2, <1>2 DEF Risen, Tree, Linked
    <3>4. Rebalance(y) \in Spots
      BY <3>3, RebalanceSpot
    <3>5. At(h, Place(y)) \in Nat
      BY <2>2, <1>2 DEF Risen, Level, Counted
    <3>6. Balanced(Rebalance(y)) \/ At(g, Place(Rebalance(y))) >= k + 1
      BY <3>2, <3>5, <2>2, <2>4
    <3> QED
      BY <3>a, <3>1, <3>2, <3>4, <3>6
  <2> QED
    BY <2>3, <2>4
<1>6. Reached(R) \subseteq Spots
  BY DEF Reached
<1>7. Eq(c)
  <2>1. \E f : Runs(f, Reached(R), [tree |-> u, at |-> x], next, Most)
    <3> HIDE DEF R, next
    <3> QED
      BY <1>3, <1>4, <1>5, LoopRuns
  <2>2. PICK f : Runs(f, Reached(R), [tree |-> u, at |-> x], next, Most)
    BY <2>1
  <2>3. Eq(f)
    <3>1. f \in [0 .. Most -> Reached(R)] /\ f[0] = [tree |-> u, at |-> x]
          /\ \A k \in 1 .. Most : f[k] = next[f[k - 1]]
      BY <2>2 DEF Runs
    <3>2. \A k \in 1 .. Most : f[k] = IF Balanced(f[k - 1]) THEN f[k - 1] ELSE Rebalance(f[k - 1])
      <4> TAKE k \in 1 .. Most
      <4>1. k - 1 \in 0 .. Most
        BY <1>3
      <4>2. f[k - 1] \in Spots
        BY <4>1, <3>1, <1>6
      <4> QED
        BY <4>2, <3>1
    <3>3. \A k \in 0 .. Most : k # 0 => k \in 1 .. Most
      BY <1>3
    <3> HIDE DEF R, next
    <3> QED
      BY <3>1, <3>2, <3>3
  <2> HIDE DEF Eq
  <2> QED
    BY <2>3
<1>8. /\ c[0] = [tree |-> u, at |-> x]
      /\ \A k \in 1 .. Most : c[k - 1] \in Reached(R) => c[k] = next[c[k - 1]]
  <2>1. c = body(c)
    BY <1>7
  <2> HIDE DEF c, R
  <2>2. c[0] = [tree |-> u, at |-> x]
    BY <2>1, <1>3
  <2>3. ASSUME NEW k \in 1 .. Most, c[k - 1] \in Reached(R)
        PROVE  c[k] = next[c[k - 1]]
    <3>1. c[k] = IF Balanced(c[k - 1]) THEN c[k - 1] ELSE Rebalance(c[k - 1])
      BY <2>1, <1>3
    <3> QED
      BY <3>1, <2>3, <1>6
  <2> HIDE DEF next
  <2> QED
    BY <2>2, <2>3
<1>9. c[Most] \in R[Most]
  <2> HIDE DEF c, R, next
  <2>1. Most \in 0 .. Most
    BY <1>3
  <2> QED
    BY <1>3, <1>4, <1>5, <1>8, <2>1, LoopRuns
<1> PICK y : y = c[Most]
  OBVIOUS
<1>10. PICK h : Risen(TreeOf(y), V, Place(y), h) /\ (Balanced(y) \/ At(h, Place(y)) >= Most)
  <2>1. ok(Most, y)
    <3> HIDE DEF c, ok
    <3> QED
      BY <1>3, <1>9
  <2> QED
    BY <2>1
<1>a. Moves(u, TreeOf(y), V)
  <2>1. ok(Most, y)
    <3> HIDE DEF c, ok
    <3> QED
      BY <1>3, <1>9
  <2> QED
    BY <2>1
<1>11. Balanced(y)
  <2>1. PICK mu : Linked(TreeOf(y), V) /\ Falls(TreeOf(y), V, mu)
    BY <1>10 DEF Risen, Tree
  <2>2. Steps(V, h, mu)
    BY <1>10, <2>1, LevelSteps DEF Risen
  <2>3. At(h, Place(y)) <= Cardinality(V) /\ At(h, Place(y)) \in Nat
    BY <1>2, <1>10, <2>2, MostFacts, HeightBound DEF Risen, Level, Counted
  <2>4. Cardinality(V) \in Nat /\ Most >= 2 * Cardinality(V) + 2
    BY <1>2, MostFacts
  <2> QED
    BY <1>3, <1>10, <2>3, <2>4
<1>12. Place(y) = Root(TreeOf(y)) \/ ~ IsRed(TreeOf(y), Parent(TreeOf(y), Place(y)))
  BY <1>11 DEF Balanced, Place, TreeOf, Root, IsRed, Parent
<1>13. Rebalanced(u, x) = MadeBlack(TreeOf(y), Root(TreeOf(y)))
  BY <1>1
<1> HIDE DEF c
<1> QED
  BY <1>a, <1>10, <1>12, <1>13, RootBlackened, MovesOn

\* depths are bounded in a balanced tree
LEMMA SoundFalls ==
  ASSUME NEW u, NEW V, Sound(u, V)
  PROVE  \E nu : Falls(u, V, nu) /\ \A n \in V : At(nu, n) <= 2 * Cardinality(V) + 1
<1> PICK h : Level(u, V, h)
  BY DEF Sound
<1> PICK mu : Linked(u, V) /\ Falls(u, V, mu)
  BY DEF Sound, Tree
<1>1. Sane(u, V)
  BY LinkedFacts
<1>2. V \subseteq Nodes /\ V \subseteq All /\ Sentinel \in All
  BY <1>1 DEF Sane
<1>3. \A n \in V : At(h, n) <= Cardinality(V)
  BY <1>2, MostFacts, LevelSteps, HeightBound
<1>4. Cardinality(V) \in Nat
  BY <1>2, MostFacts
<1> DEFINE nu == [n \in All |-> 2 * At(h, n) + (IF IsRed(u, n) THEN 1 ELSE 0)]
<1>5. /\ Counted(h) /\ At(h, Sentinel) = 0
      /\ \A m \in V, z \in Sides : At(h, m) = At(h, Kid(u, z, m)) + Weight(u, m)
  BY DEF Level
<1>6. \A n \in All : At(nu, n) = 2 * At(h, n) + (IF IsRed(u, n) THEN 1 ELSE 0)
  BY DEF At
<1> HIDE DEF nu
<1>7. \A n \in All : At(h, n) \in Nat
  BY <1>5 DEF Counted
<1>8. Counted(nu)
  BY <1>6, <1>7 DEF Counted
<1>9. ASSUME NEW n \in V, NEW z \in Sides PROVE At(nu, Kid(u, z, n)) < At(nu, n)
  <2> PICK c : c = Kid(u, z, n)
    OBVIOUS
  <2>1. c \in All /\ At(h, c) \in Nat /\ At(h, n) \in Nat /\ n \in All
    BY <1>1, <1>2, <1>7 DEF Sane
  <2>2. At(h, n) = At(h, c) + Weight(u, n)
    BY <1>5
  <2>3. CASE IsRed(u, n)
    <3>1. ~ IsRed(u, c)
      BY <2>3 DEF Sound, RedsApart
    <3>2. At(h, n) = At(h, c) + 0
      BY <2>2, <2>3 DEF Weight
    <3> QED
      BY <2>1, <2>3, <3>1, <3>2, <1>6
  <2>4. CASE ~ IsRed(u, n)
    <3>1. At(h, n) = At(h, c) + 1
      BY <2>2, <2>4 DEF Weight
    <3>2. At(nu, n) = 2 * At(h, n) + 0
      BY <2>1, <2>4, <1>6
    <3>3. At(nu, c) = 2 * At(h, c) + 1 \/ At(nu, c) = 2 * At(h, c) + 0
      BY <2>1, <1>6
    <3> QED
      BY <2>1, <3>1, <3>2, <3>3
  <2> QED
    BY <2>3, <2>4
<1>10. Falls(u, V, nu)
  BY <1>8, <1>9 DEF Falls
<1>11. \A n \in V : At(nu, n) <= 2 * Cardinality(V) + 1
  BY <1>2, <1>3, <1>4, <1>6, <1>7
<1> QED
  BY <1>10, <1>11

\* where a loop down the tree, of steps to a child, can be
LEMMA LoopDown ==
  ASSUME NEW u, NEW V, NEW nu, Linked(u, V), Falls(u, V, nu),
         \A n \in V : At(nu, n) <= 2 * Cardinality(V) + 1,
         NEW x \in V, NEW side \in [V -> Sides],
         NEW c, c[0] = x,
         \A k \in 1 .. Most : c[k - 1] \in V =>
           c[k] = IF Kid(u, side[c[k - 1]], c[k - 1]) = Sentinel THEN c[k - 1]
                  ELSE Kid(u, side[c[k - 1]], c[k - 1])
  PROVE  /\ c[Most] \in V /\ Kid(u, side[c[Most]], c[Most]) = Sentinel
         /\ At(nu, c[Most]) <= At(nu, x) /\ (x # Root(u) => c[Most] # Root(u))
<1>1. Sane(u, V)
  BY LinkedFacts
<1>2. V \subseteq Nodes /\ \A m \in V : At(nu, m) \in Nat
  BY <1>1 DEF Sane, Falls, Counted
<1>3. Most \in Nat /\ Cardinality(V) \in Nat /\ Most >= 2 * Cardinality(V) + 2
  BY <1>2, MostFacts
<1> DEFINE leaf(m) == Kid(u, side[m], m) = Sentinel
<1> DEFINE ok(k, m) == /\ At(nu, m) <= At(nu, x) /\ (x # Root(u) => m # Root(u))
                       /\ leaf(m) \/ At(nu, m) + k <= At(nu, x)
<1> DEFINE R == [k \in Nat |-> {m \in V : ok(k, m)}]
<1> DEFINE next == [m \in V |-> IF leaf(m) THEN m ELSE Kid(u, side[m], m)]
<1>4. x \in R[0]
  BY <1>2
<1>5. ASSUME NEW k \in Nat, NEW m \in R[k] PROVE next[m] \in R[k + 1]
  <2>1. m \in V /\ ok(k, m)
    <3> HIDE DEF ok
    <3> QED
      OBVIOUS
  <2>2. CASE leaf(m)
    <3>1. next[m] = m /\ ok(k + 1, m)
      BY <2>1, <2>2
    <3> HIDE DEF ok, next
    <3> QED
      BY <2>1, <3>1
  <2>3. CASE ~ leaf(m)
    <3> PICK z, d : z = side[m] /\ d = Kid(u, z, m)
      OBVIOUS
    <3>1. next[m] = d /\ z \in Sides /\ d # Sentinel
      BY <2>1, <2>3
    <3>2. d \in V /\ d # Root(u)
      BY <2>1, <3>1, <1>1 DEF Sane
    <3>3. At(nu, d) < At(nu, m)
      BY <2>1, <3>1 DEF Falls
    <3>4. At(nu, d) \in Nat /\ At(nu, m) \in Nat /\ At(nu, x) \in Nat
      BY <2>1, <3>2, <1>2
    <3>5. At(nu, d) <= At(nu, x) /\ At(nu, d) + (k + 1) <= At(nu, x)
      BY <2>1, <2>3, <3>3, <3>4
    <3>6. ok(k + 1, d)
      BY <3>2, <3>5
    <3> HIDE DEF ok, next
    <3> QED
      BY <3>1, <3>2, <3>6
  <2> QED
    BY <2>2, <2>3
<1>6. Reached(R) \subseteq V
  BY DEF Reached
<1>7. \A k \in 1 .. Most : c[k - 1] \in Reached(R) => c[k] = next[c[k - 1]]
  <2> HIDE DEF R
  <2> QED
    BY <1>6
<1>8. c[Most] \in R[Most]
  <2> HIDE DEF R, next
  <2>1. Most \in 0 .. Most
    BY <1>3
  <2> QED
    BY <1>3, <1>4, <1>5, <1>7, <2>1, LoopRuns
<1> PICK m : m = c[Most]
  OBVIOUS
<1>9. m \in V /\ ok(Most, m)
  <2> HIDE DEF ok
  <2> QED
    BY <1>3, <1>8
<1>10. leaf(m)
  <2>1. At(nu, m) \in Nat /\ At(nu, x) \in Nat /\ At(nu, x) <= 2 * Cardinality(V) + 1
    BY <1>2, <1>9
  <2>2. ~ (At(nu, m) + Most <= At(nu, x))
    BY <2>1, <1>3
  <2> QED
    BY <2>2, <1>9
<1> QED
  BY <1>9, <1>10

\* The loop stays where its steps lead.
LEMMA LoopDownStays ==
  ASSUME NEW u, NEW V, Linked(u, V), NEW x \in V, NEW side \in [V -> Sides],
         NEW c, c[0] = x,
         \A k \in 1 .. Most : c[k - 1] \in V =>
           c[k] = IF Kid(u, side[c[k - 1]], c[k - 1]) = Sentinel THEN c[k - 1]
                  ELSE Kid(u, side[c[k - 1]], c[k - 1]),
         NEW K, x \in K,
         \A m \in V \cap K : Kid(u, side[m], m) # Sentinel => Kid(u, side[m], m) \in K
  PROVE  c[Most] \in K
<1>1. Most \in Nat
  BY MostFacts DEF Linked
<1> DEFINE R == [k \in Nat |-> V \cap K]
<1> DEFINE next == [m \in V |-> IF Kid(u, side[m], m) = Sentinel THEN m ELSE Kid(u, side[m], m)]
<1>2. x \in R[0]
  OBVIOUS
<1>3. ASSUME NEW k \in Nat, NEW m \in R[k] PROVE next[m] \in R[k + 1]
  <2>1. m \in V \cap K
    OBVIOUS
  <2>2. Kid(u, side[m], m) \in V \cup {Sentinel}
    BY <2>1 DEF Linked
  <2> QED
    BY <2>1, <2>2
<1>4. Reached(R) \subseteq V
  BY DEF Reached
<1>5. \A k \in 1 .. Most : c[k - 1] \in Reached(R) => c[k] = next[c[k - 1]]
  <2> HIDE DEF R
  <2> QED
    BY <1>4
<1>6. c[Most] \in R[Most]
  <2> HIDE DEF R, next
  <2>1. Most \in 0 .. Most
    BY <1>1
  <2> QED
    BY <1>1, <1>2, <1>3, <1>5, <2>1, LoopRuns
<1> QED
  BY <1>1, <1>6

\* f is the run of such a loop
RunsDown(f, u, V, side, x, n) ==
  /\ f \in [0 .. n -> V] /\ f[0] = x
  /\ \A k \in 1 .. n : f[k] = IF Kid(u, side[f[k - 1]], f[k - 1]) = Sentinel THEN f[k - 1]
                             ELSE Kid(u, side[f[k - 1]], f[k - 1])

\* Such a loop has a run.
LEMMA LoopDownRuns ==
  ASSUME NEW u, NEW V, Linked(u, V), NEW x \in V, NEW side \in [V -> Sides], NEW n \in Nat
  PROVE  \E f : RunsDown(f, u, V, side, x, n)
<1> DEFINE next == [m \in V |-> IF Kid(u, side[m], m) = Sentinel THEN m ELSE Kid(u, side[m], m)]
<1>1. next \in [V -> V]
  BY DEF Linked
<1> HIDE DEF next
<1>2. PICK f : Runs(f, V, x, next, n)
  BY <1>1, LoopExists
<1>3. f \in [0 .. n -> V] /\ f[0] = x /\ \A k \in 1 .. n : f[k] = next[f[k - 1]]
  BY <1>2 DEF Runs
<1>4. \A k \in 1 .. n : f[k] = IF Kid(u, side[f[k - 1]], f[k - 1]) = Sentinel THEN f[k - 1]
                               ELSE Kid(u, side[f[k - 1]], f[k - 1])
  <2> TAKE k \in 1 .. n
  <2>1. k - 1 \in 0 .. n
    OBVIOUS
  <2>2. f[k - 1] \in V
    BY <2>1, <1>3
  <2> QED
    BY <2>2, <1>3 DEF next
<1> QED
  BY <1>3, <1>4 DEF RunsDown

\* K is closed under the steps to the left
LeftClosed(u, V, K) == \A m \in V \cap K : Kid(u, "left", m) # Sentinel => Kid(u, "left", m) \in K

\* the side on which the code looks for the place of node
Way(node, m) == IF GoesLeft(node, m) THEN "left" ELSE "right"

\* K is closed under the steps of that descent
WayClosed(u, V, node, K) ==
  \A m \in V \cap K : Kid(u, Way(node, m), m) # Sentinel => Kid(u, Way(node, m), m) \in K

\* rap_rbtree_min ends at a node without left child, below the node it starts from.
LEMMA LeastAs ==
  ASSUME NEW u, NEW V, Sound(u, V), NEW x \in V
  PROVE  /\ Least(u, x) \in V /\ Kid(u, "left", Least(u, x)) = Sentinel
         /\ x # Root(u) => Least(u, x) # Root(u)
         /\ \E nu : Falls(u, V, nu) /\ At(nu, Least(u, x)) <= At(nu, x)
         /\ \A K : x \in K /\ LeftClosed(u, V, K) => Least(u, x) \in K
<1>1. Linked(u, V)
  BY DEF Sound, Tree
<1> PICK nu : Falls(u, V, nu) /\ \A n \in V : At(nu, n) <= 2 * Cardinality(V) + 1
  BY SoundFalls
<1> DEFINE body(g) == [k \in 0 .. Most |->
                         IF k = 0 THEN x
                         ELSE LET y == g[k - 1] IN IF Kid(u, "left", y) = Sentinel THEN y ELSE Kid(u, "left", y)]
<1> DEFINE Eq(g) == g = body(g)
<1> DEFINE c == CHOOSE g : Eq(g)
<1>2. Least(u, x) = c[Most]
  BY DEF Least, Loop, Kid
<1>3. Most \in Nat
  BY <1>1, MostFacts DEF Linked
<1> DEFINE side == [n \in V |-> "left"]
<1>4. side \in [V -> Sides]
  BY DEF Sides
<1>5. Eq(c)
  <2> HIDE DEF side
  <2>a. PICK f : RunsDown(f, u, V, side, x, Most)
    BY <1>1, <1>3, <1>4, LoopDownRuns
  <2>1. /\ f \in [0 .. Most -> V] /\ f[0] = x
        /\ \A k \in 1 .. Most : f[k] = IF Kid(u, side[f[k - 1]], f[k - 1]) = Sentinel THEN f[k - 1]
                                      ELSE Kid(u, side[f[k - 1]], f[k - 1])
    BY <2>a DEF RunsDown
  <2>2. \A k \in 1 .. Most : f[k - 1] \in V
    <3> TAKE k \in 1 .. Most
    <3>1. k - 1 \in 0 .. Most
      BY <1>3
    <3> QED
      BY <3>1, <2>1
  <2>b. \A k \in 0 .. Most : k # 0 => k \in 1 .. Most
    BY <1>3
  <2>3. \A k \in 1 .. Most : side[f[k - 1]] = "left"
    BY <2>2 DEF side
  <2>4. Eq(f)
    BY <2>1, <2>3, <2>b
  <2> HIDE DEF Eq
  <2> QED
    BY <2>4
<1>6. c[0] = x /\ \A k \in 1 .. Most :
        c[k] = IF Kid(u, "left", c[k - 1]) = Sentinel THEN c[k - 1] ELSE Kid(u, "left", c[k - 1])
  <2>1. c = body(c)
    BY <1>5
  <2> HIDE DEF c
  <2> QED
    BY <2>1, <1>3
<1> HIDE DEF c
<1>7. \A n \in V : side[n] = "left"
  OBVIOUS
<1> HIDE DEF side
<1>b. \A k \in 1 .. Most : c[k - 1] \in V =>
         c[k] = IF Kid(u, side[c[k - 1]], c[k - 1]) = Sentinel THEN c[k - 1]
                ELSE Kid(u, side[c[k - 1]], c[k - 1])
  BY <1>6, <1>7
<1>8. /\ c[Most] \in V /\ Kid(u, side[c[Most]], c[Most]) = Sentinel
      /\ At(nu, c[Most]) <= At(nu, x) /\ (x # Root(u) => c[Most] # Root(u))
  BY <1>1, <1>4, <1>6, <1>b, LoopDown
<1>9. ASSUME NEW K, x \in K, LeftClosed(u, V, K) PROVE c[Most] \in K
  <2>1. \A m \in V \cap K : Kid(u, side[m], m) # Sentinel => Kid(u, side[m], m) \in K
    BY <1>7, <1>9 DEF LeftClosed
  <2> QED
    BY <1>1, <1>4, <1>6, <1>b, <1>9, <2>1, LoopDownStays
<1> QED
  BY <1>2, <1>7, <1>8, <1>9

\* the node a descent ends at, and what the insert writes
LEMMA DescendedAs ==
  ASSUME NEW u, NEW V, Sound(u, V), V # {}, NEW node
  PROVE  \E above \in V, side \in Sides :
           /\ Kid(u, side, above) = Sentinel /\ side = Way(node, above)
           /\ \A K : Root(u) \in K /\ WayClosed(u, V, node, K) => above \in K
           /\ Descended(u, node, Root(u)) =
                MadeRed(WithKids(WithParent(WithKid(u, side, above, node), node, above),
                                 node, Sentinel, Sentinel), node)
<1>1. Linked(u, V)
  BY DEF Sound, Tree
<1> PICK nu : Falls(u, V, nu) /\ \A n \in V : At(nu, n) <= 2 * Cardinality(V) + 1
  BY SoundFalls
<1> PICK x : x = Root(u)
  OBVIOUS
<1> DEFINE Side(m) == Way(node, m)
<1> DEFINE body(g) == [k \in 0 .. Most |->
                         IF k = 0 THEN x
                         ELSE LET y == g[k - 1] IN IF Kid(u, Side(y), y) = Sentinel THEN y ELSE Kid(u, Side(y), y)]
<1> DEFINE Eq(g) == g = body(g)
<1> DEFINE c == CHOOSE g : Eq(g)
<1>2. Descended(u, node, Root(u)) =
        MadeRed(WithKids(WithParent(WithKid(u, Side(c[Most]), c[Most], node), node, c[Most]),
                         node, Sentinel, Sentinel), node)
  BY DEF Descended, Loop, Kid, Way
<1>3. Most \in Nat /\ x \in V
  BY <1>1, MostFacts DEF Linked
<1> DEFINE side == [n \in V |-> Side(n)]
<1>a. \A m : Side(m) \in Sides
  BY DEF Sides, Way
<1>c. \A m : Side(m) = Way(node, m)
  OBVIOUS
<1> HIDE DEF Side
<1>4. side \in [V -> Sides]
  BY <1>a
<1>5. Eq(c)
  <2> HIDE DEF side
  <2>a. PICK f : RunsDown(f, u, V, side, x, Most)
    BY <1>1, <1>3, <1>4, LoopDownRuns
  <2>1. /\ f \in [0 .. Most -> V] /\ f[0] = x
        /\ \A k \in 1 .. Most : f[k] = IF Kid(u, side[f[k - 1]], f[k - 1]) = Sentinel THEN f[k - 1]
                                      ELSE Kid(u, side[f[k - 1]], f[k - 1])
    BY <2>a DEF RunsDown
  <2>2. \A k \in 1 .. Most : f[k - 1] \in V
    <3> TAKE k \in 1 .. Most
    <3>1. k - 1 \in 0 .. Most
      BY <1>3
    <3> QED
      BY <3>1, <2>1
  <2>b. \A k \in 0 .. Most : k # 0 => k \in 1 .. Most
    BY <1>3
  <2>3. \A k \in 1 .. Most : side[f[k - 1]] = Side(f[k - 1])
    BY <2>2 DEF side
  <2>4. Eq(f)
    BY <2>1, <2>3, <2>b
  <2> HIDE DEF Eq
  <2> QED
    BY <2>4
<1>6. c[0] = x /\ \A k \in 1 .. Most :
        c[k] = IF Kid(u, Side(c[k - 1]), c[k - 1]) = Sentinel THEN c[k - 1] ELSE Kid(u, Side(c[k - 1]), c[k - 1])
  <2>1. c = body(c)
    BY <1>5
  <2> HIDE DEF c
  <2> QED
    BY <2>1, <1>3
<1> HIDE DEF c
<1>7. \A n \in V : side[n] = Side(n)
  OBVIOUS
<1> HIDE DEF side
<1>b. \A k \in 1 .. Most : c[k - 1] \in V =>
         c[k] = IF Kid(u, side[c[k - 1]], c[k - 1]) = Sentinel THEN c[k - 1]
                ELSE Kid(u, side[c[k - 1]], c[k - 1])
  BY <1>6, <1>7
<1>8. c[Most] \in V /\ Kid(u, side[c[Most]], c[Most]) = Sentinel
  BY <1>1, <1>3, <1>4, <1>6, <1>b, LoopDown
<1>9. ASSUME NEW K, x \in K, WayClosed(u, V, node, K) PROVE c[Most] \in K
  <2>1. \A m \in V \cap K : Kid(u, side[m], m) # Sentinel => Kid(u, side[m], m) \in K
    BY <1>7, <1>c, <1>9 DEF WayClosed
  <2> QED
    BY <1>1, <1>3, <1>4, <1>6, <1>b, <1>9, <2>1, LoopDownStays
<1> QED
  BY <1>2, <1>7, <1>8, <1>9, <1>a, <1>c

\* v is u with both children of n written
KidsAre(u, v, n, left, right) ==
  /\ v \in Trees /\ Root(v) = Root(u) /\ SameParents(u, v) /\ SameReds(u, v)
  /\ \A m \in All, z \in Sides :
       Kid(v, z, m) = IF m = n THEN (IF z = "left" THEN left ELSE right) ELSE Kid(u, z, m)

\* Both children of a node, written and read back.
LEMMA KidsWritten ==
  ASSUME NEW u \in Trees, NEW n \in All, NEW left \in All \cup {NULL}, NEW right \in All \cup {NULL}
  PROVE  KidsAre(u, WithKids(u, n, left, right), n, left, right)
<1> PICK w : w = WithKid(u, "left", n, left)
  OBVIOUS
<1> PICK v : v = WithKid(w, "right", n, right)
  OBVIOUS
<1>1. "left" \in Sides /\ "right" \in Sides /\ "left" # "right"
  BY DEF Sides
<1>2. KidIs(u, w, "left", n, left)
  BY <1>1, KidWritten
<1>3. w \in Trees
  BY <1>2 DEF KidIs
<1>4. KidIs(w, v, "right", n, right)
  BY <1>1, <1>3, KidWritten
<1>5. v \in Trees /\ Root(v) = Root(u) /\ SameParents(u, v) /\ SameReds(u, v)
  BY <1>2, <1>4 DEF KidIs, SameParents, SameReds
<1>6. \A m \in All, z \in Sides :
       Kid(v, z, m) = IF m = n THEN (IF z = "left" THEN left ELSE right) ELSE Kid(u, z, m)
  <2> TAKE m \in All, z \in Sides
  <2>1. z = "left" \/ z = "right"
    BY DEF Sides
  <2>2. Kid(v, z, m) = IF z = "right" /\ m = n THEN right ELSE Kid(w, z, m)
    BY <1>4 DEF KidIs
  <2>3. Kid(w, z, m) = IF z = "left" /\ m = n THEN left ELSE Kid(u, z, m)
    BY <1>2 DEF KidIs
  <2> QED
    BY <2>1, <2>2, <2>3, <1>1
<1>7. v = WithKids(u, n, left, right)
  BY DEF WithKids
<1> QED
  BY <1>5, <1>6, <1>7 DEF KidsAre

\* a node hung below a leaf position
Hung(u, v, side, above, node) ==
  /\ v \in Trees /\ Root(v) = Root(u)
  /\ \A m \in All, z \in Sides :
       Kid(v, z, m) = IF m = node THEN Sentinel ELSE IF m = above /\ z = side THEN node ELSE Kid(u, z, m)
  /\ \A m \in All : Parent(v, m) = IF m = node THEN above ELSE Parent(u, m)
  /\ \A m \in All : IsRed(v, m) <=> m = node \/ IsRed(u, m)

(***************************************************************************)
(* The statements at the end of rap_rbtree_insert_value, one after the     *)
(* other, hang the node into the tree.                                     *)
(***************************************************************************)
LEMMA HungAs ==
  ASSUME NEW u \in Trees, NEW side \in Sides, NEW above \in All, NEW node \in All,
         Sentinel \in All,
         NEW v, v = MadeRed(WithKids(WithParent(WithKid(u, side, above, node), node, above),
                                     node, Sentinel, Sentinel), node)
  PROVE  Hung(u, v, side, above, node)
<1> PICK a : a = WithKid(u, side, above, node)
  OBVIOUS
<1> PICK b : b = WithParent(a, node, above)
  OBVIOUS
<1> PICK c : c = WithKids(b, node, Sentinel, Sentinel)
  OBVIOUS
<1>1. KidIs(u, a, side, above, node)
  BY KidWritten
<1>2. a \in Trees
  BY <1>1 DEF KidIs
<1>3. ParentIs(a, b, node, above)
  BY <1>2, ParentWritten
<1>4. b \in Trees
  BY <1>3 DEF ParentIs
<1>5. KidsAre(b, c, node, Sentinel, Sentinel)
  BY <1>4, KidsWritten
<1>6. c \in Trees
  BY <1>5 DEF KidsAre
<1>7. RedIs(c, v, node)
  BY <1>6, ColourWritten
<1>8. v \in Trees /\ Root(v) = Root(u)
  BY <1>1, <1>3, <1>5, <1>7 DEF KidIs, ParentIs, KidsAre, RedIs, Repainted
<1>9. ASSUME NEW m \in All, NEW z \in Sides
      PROVE  Kid(v, z, m) = IF m = node THEN Sentinel ELSE IF m = above /\ z = side THEN node ELSE Kid(u, z, m)
  <2>1. Kid(v, z, m) = Kid(c, z, m)
    BY <1>7 DEF RedIs, Repainted, SameKids
  <2>2. Kid(c, z, m) = IF m = node THEN Sentinel ELSE Kid(b, z, m)
    BY <1>5 DEF KidsAre
  <2>3. Kid(b, z, m) = Kid(a, z, m)
    BY <1>3 DEF ParentIs, SameKids
  <2>4. Kid(a, z, m) = IF z = side /\ m = above THEN node ELSE Kid(u, z, m)
    BY <1>1 DEF KidIs
  <2> QED
    BY <2>1, <2>2, <2>3, <2>4
<1>10. ASSUME NEW m \in All PROVE Parent(v, m) = IF m = node THEN above ELSE Parent(u, m)
  <2>1. Parent(v, m) = Parent(b, m)
    BY <1>5, <1>7 DEF RedIs, Repainted, KidsAre, SameParents
  <2>2. Parent(b, m) = IF m = node THEN above ELSE Parent(a, m)
    BY <1>3 DEF ParentIs
  <2> QED
    BY <2>1, <2>2, <1>1 DEF KidIs, SameParents
<1>11. ASSUME NEW m \in All PROVE IsRed(v, m) <=> m = node \/ IsRed(u, m)
  <2>1. IsRed(v, m) <=> m = node \/ IsRed(c, m)
    BY <1>7 DEF RedIs
  <2>2. IsRed(c, m) <=> IsRed(u, m)
    BY <1>1, <1>3, <1>5 DEF KidIs, ParentIs, KidsAre, SameReds
  <2> QED
    BY <2>1, <2>2
<1> QED
  BY <1>8, <1>9, <1>10, <1>11 DEF Hung

(***************************************************************************)
(* The tree with the new red node has every property of a balanced one,    *)
(* but that its parent may be red.                                         *)
(***************************************************************************)
LEMMA HungRisen ==
  ASSUME NEW u, NEW V, Sound(u, V), NEW node \in Nodes \ V, NEW above \in V, NEW side \in Sides,
         Kid(u, side, above) = Sentinel, NEW v, Hung(u, v, side, above, node),
         NEW W, W = V \cup {node}
  PROVE  \E h : Risen(v, W, node, h)
<1> PICK h : Level(u, V, h)
  BY DEF Sound
<1> PICK mu : Linked(u, V) /\ Falls(u, V, mu)
  BY DEF Sound, Tree
<1>1. Sane(u, V)
  BY LinkedFacts
<1>2. Clean(u, V) /\ RedsApart(u, V) /\ ~ IsRed(u, Root(u))
  BY DEF Sound
<1>3. /\ v \in Trees /\ Root(v) = Root(u)
      /\ \A m \in All, z \in Sides :
           Kid(v, z, m) = IF m = node THEN Sentinel ELSE IF m = above /\ z = side THEN node ELSE Kid(u, z, m)
      /\ \A m \in All : Parent(v, m) = IF m = node THEN above ELSE Parent(u, m)
      /\ \A m \in All : IsRed(v, m) <=> m = node \/ IsRed(u, m)
  BY DEF Hung
<1>4. /\ node \in All /\ node \notin V /\ node # Sentinel /\ node \in W /\ W \subseteq Nodes
      /\ V \subseteq All /\ Sentinel \notin V /\ Sentinel \in All /\ W \subseteq All /\ V \subseteq W
      /\ Root(u) \in V /\ Root(u) # node /\ Root(u) \in All /\ Nodes \subseteq All
      /\ node # above
  BY <1>1, TreeAssumption DEF Sane, All
<1>5. /\ \A n \in V, z \in Sides :
           /\ Kid(u, z, n) \in (V \ {Root(u)}) \cup {Sentinel}
           /\ Kid(u, z, n) # node /\ Kid(u, z, n) \in All
           /\ Kid(u, z, n) # Sentinel => Parent(u, Kid(u, z, n)) = n
      /\ \A n \in V \ {Root(u)} : Parent(u, n) \in V /\ Parent(u, n) # n
  BY <1>1, <1>4 DEF Sane
<1>6. Linked(v, W)
  <2>1. ~ IsRed(v, Sentinel)
    BY <1>1, <1>3, <1>4 DEF Sane
  <2>2. \A n \in W, s \in Sides : Kid(v, s, n) \in (W \ {Root(v)}) \cup {Sentinel}
    BY <1>3, <1>4, <1>5
  <2>3. \A n \in W, s \in Sides : Kid(v, s, n) # Sentinel => Parent(v, Kid(v, s, n)) = n
    BY <1>3, <1>4, <1>5
  <2>4. ASSUME NEW n \in W \ {Root(v)}
        PROVE  Parent(v, n) \in W /\ \E s \in Sides : Kid(v, s, Parent(v, n)) = n
    <3>1. CASE n = node
      BY <3>1, <1>3, <1>4
    <3>2. CASE n # node
      <4>1. n \in V \ {Root(u)} /\ n # Sentinel
        BY <3>2, <1>3, <1>4
      <4>2. Parent(v, n) = Parent(u, n) /\ Parent(u, n) \in V
        BY <4>1, <3>2, <1>3, <1>4, <1>5
      <4>3. PICK s \in Sides : Kid(u, s, Parent(u, n)) = n
        BY <4>1 DEF Linked
      <4>4. Kid(v, s, Parent(u, n)) = n
        BY <4>1, <4>2, <4>3, <1>3, <1>4
      <4> QED
        BY <4>2, <4>4, <1>4
    <3> QED
      BY <3>1, <3>2
  <2>5. \A n \in W : Kid(v, "left", n) = Kid(v, "right", n) => Kid(v, "left", n) = Sentinel
    <3> TAKE n \in W
    <3>1. "left" \in Sides /\ "right" \in Sides
      BY DEF Sides
    <3>2. n \in V => (Kid(u, "left", n) = Kid(u, "right", n) => Kid(u, "left", n) = Sentinel)
      BY DEF Linked
    <3> QED
      BY <3>1, <3>2, <1>3, <1>4, <1>5
  <2> QED
    BY <2>1, <2>2, <2>3, <2>4, <2>5, <1>3, <1>4 DEF Linked
<1>7. Tree(v, W)
  <2> DEFINE nu == [m \in All |-> IF m = node THEN 0 ELSE At(mu, m) + 1]
  <2>1. \A m \in All : At(mu, m) \in Nat
    BY DEF Falls, Counted
  <2>2. Counted(nu) /\ At(nu, node) = 0 /\ \A m \in All \ {node} : At(nu, m) = At(mu, m) + 1
    BY <2>1, <1>4 DEF At, Counted
  <2> HIDE DEF nu
  <2>3. ASSUME NEW n \in W, NEW s \in Sides, Kid(v, s, n) # Sentinel
        PROVE  At(nu, Kid(v, s, n)) < At(nu, n)
    <3>1. n # node /\ n \in V
      BY <2>3, <1>3, <1>4
    <3>2. At(nu, n) = At(mu, n) + 1 /\ At(mu, n) \in Nat
      BY <3>1, <1>4, <2>1, <2>2
    <3>3. CASE n = above /\ s = side
      BY <3>1, <3>2, <3>3, <1>3, <1>4, <2>2
    <3>4. CASE ~ (n = above /\ s = side)
      <4>1. Kid(v, s, n) = Kid(u, s, n) /\ Kid(u, s, n) \in All \ {node}
        BY <3>1, <3>4, <1>3, <1>4, <1>5
      <4>2. At(mu, Kid(u, s, n)) < At(mu, n) /\ At(mu, Kid(u, s, n)) \in Nat
        BY <4>1, <3>1, <2>1, <2>3 DEF Falls
      <4> QED
        BY <4>1, <4>2, <3>2, <2>2
    <3> QED
      BY <3>3, <3>4
  <2>4. Falls(v, W, nu)
    BY <2>2, <2>3 DEF Falls
  <2> QED
    BY <2>4, <1>6 DEF Tree
<1>8. Clean(v, W)
  BY <1>2, <1>3, <1>4 DEF Clean
<1> DEFINE g == [m \in All |-> IF m = node THEN 0 ELSE At(h, m)]
<1>9. /\ Counted(h) /\ At(h, Sentinel) = 0
      /\ \A m \in V, z \in Sides : At(h, m) = At(h, Kid(u, z, m)) + Weight(u, m)
  BY DEF Level
<1>10. Counted(g) /\ At(g, node) = 0 /\ \A m \in All \ {node} : At(g, m) = At(h, m)
  BY <1>4, <1>9 DEF At, Counted
<1> HIDE DEF g
<1>11. Level(v, W, g)
  <2>1. At(g, Sentinel) = 0
    BY <1>4, <1>9, <1>10
  <2>2. ASSUME NEW m \in W, NEW z \in Sides PROVE At(g, m) = At(g, Kid(v, z, m)) + Weight(v, m)
    <3>1. CASE m = node
      <4>1. Kid(v, z, m) = Sentinel /\ Weight(v, m) = 0
        BY <3>1, <1>3, <1>4 DEF Weight
      <4> QED
        BY <4>1, <3>1, <2>1, <1>10
    <3>2. CASE m # node
      <4>1. m \in V /\ m \in All /\ Weight(v, m) = Weight(u, m)
        BY <3>2, <1>3, <1>4 DEF Weight
      <4>2. At(g, Kid(v, z, m)) = At(h, Kid(u, z, m))
        <5>1. CASE m = above /\ z = side
          BY <5>1, <4>1, <3>2, <1>3, <1>9, <1>10
        <5>2. CASE ~ (m = above /\ z = side)
          BY <5>2, <4>1, <3>2, <1>3, <1>5, <1>10
        <5> QED
          BY <5>1, <5>2
      <4> QED
        BY <4>1, <4>2, <3>2, <1>9, <1>10
    <3> QED
      BY <3>1, <3>2
  <2> QED
    BY <2>1, <2>2, <1>10 DEF Level
<1>12. RedsAbove(v, W, node)
  <2> SUFFICES ASSUME NEW m \in W, NEW z \in Sides, IsRed(v, m), IsRed(v, Kid(v, z, m)), Kid(v, z, m) # node
               PROVE  FALSE
    BY DEF RedsAbove
  <2>1. m # node
    BY <1>1, <1>3, <1>4 DEF Sane
  <2>2. m \in V /\ Kid(v, z, m) = Kid(u, z, m) /\ Kid(u, z, m) \in All
    BY <2>1, <1>3, <1>4, <1>5
  <2> QED
    BY <2>1, <2>2, <1>2, <1>3, <1>4 DEF RedsApart
<1>13. IsRed(v, node) /\ ~ IsRed(v, Root(v))
  BY <1>2, <1>3, <1>4
<1> QED
  BY <1>4, <1>7, <1>8, <1>11, <1>12, <1>13 DEF Risen

\* The first node of a tree.
LEMMA AloneSound ==
  ASSUME NEW u, Sound(u, {}), NEW node \in Nodes,
         NEW alone, alone = WithKids(WithParent(u, node, NULL), node, Sentinel, Sentinel),
         NEW v, v = [MadeBlack(alone, node) EXCEPT !.root = node]
  PROVE  Sound(v, {node}) /\ Root(v) = node /\ \A z \in Sides : Kid(v, z, node) = Sentinel
<1>1. node \in All /\ Sentinel \in All /\ node # Sentinel /\ u \in Trees /\ ~ IsRed(u, Sentinel)
      /\ Clean(u, {})
  BY TreeAssumption DEF All, Sound, Tree, Linked
<1> PICK a : a = WithParent(u, node, NULL)
  OBVIOUS
<1> PICK b : b = MadeBlack(alone, node)
  OBVIOUS
<1>2. ParentIs(u, a, node, NULL)
  BY <1>1, ParentWritten
<1>3. a \in Trees
  BY <1>2 DEF ParentIs
<1>4. KidsAre(a, alone, node, Sentinel, Sentinel)
  BY <1>1, <1>3, KidsWritten
<1>5. alone \in Trees
  BY <1>4 DEF KidsAre
<1>6. BlackIs(alone, b, node)
  BY <1>1, <1>5, ColourWritten
<1>7. b \in Trees
  BY <1>6 DEF BlackIs, Repainted
<1>8. RootIs(b, v, node)
  BY <1>1, <1>7, RootWritten
<1>9. v \in Trees /\ Root(v) = node
  BY <1>8 DEF RootIs
<1>10. \A m \in All, z \in Sides : Kid(v, z, m) = IF m = node THEN Sentinel ELSE Kid(u, z, m)
  BY <1>2, <1>4, <1>6, <1>8 DEF ParentIs, KidsAre, BlackIs, Repainted, RootIs, SameKids
<1>11. \A m \in All : IsRed(v, m) <=> m # node /\ IsRed(u, m)
  BY <1>2, <1>4, <1>6, <1>8 DEF ParentIs, KidsAre, BlackIs, Repainted, RootIs, SameReds
<1>12. Linked(v, {node})
  BY <1>1, <1>9, <1>10, <1>11 DEF Linked, Sides
<1> DEFINE g == [m \in All |-> IF m = node THEN 1 ELSE 0]
<1>13. Counted(g) /\ At(g, node) = 1 /\ At(g, Sentinel) = 0
  BY <1>1 DEF At, Counted
<1> HIDE DEF g
<1>14. Falls(v, {node}, g)
  BY <1>1, <1>10, <1>13 DEF Falls
<1>15. Level(v, {node}, g)
  <2>1. Weight(v, node) = 1
    BY <1>1, <1>11 DEF Weight
  <2> QED
    BY <2>1, <1>1, <1>10, <1>13 DEF Level
<1>16. Clean(v, {node})
  BY <1>1, <1>10 DEF Clean, All
<1>17. RedsApart(v, {node}) /\ ~ IsRed(v, Root(v))
  BY <1>1, <1>9, <1>11 DEF RedsApart
<1>18. \A z \in Sides : Kid(v, z, node) = Sentinel
  BY <1>1, <1>10
<1> QED
  BY <1>9, <1>12, <1>14, <1>15, <1>16, <1>17, <1>18 DEF Sound, Tree

\* rap_rbtree_insert leaves a balanced tree of the nodes and the new one.
LEMMA InsertedSound ==
  ASSUME NEW u, NEW V, Sound(u, V), NEW node \in Nodes \ V
  PROVE  Sound(Inserted(u, node), V \cup {node})
<1>1. Linked(u, V)
  BY DEF Sound, Tree
<1>2. Root(u) = Sentinel <=> V = {}
  BY <1>1, TreeAssumption DEF Linked
<1>3. CASE V = {}
  <2> PICK alone : alone = WithKids(WithParent(u, node, NULL), node, Sentinel, Sentinel)
    OBVIOUS
  <2>1. Inserted(u, node) = [MadeBlack(alone, node) EXCEPT !.root = node]
    BY <1>2, <1>3 DEF Inserted, Root
  <2>2. Sound([MadeBlack(alone, node) EXCEPT !.root = node], {node})
    BY <1>3, AloneSound
  <2>3. V \cup {node} = {node}
    BY <1>3
  <2> QED
    BY <2>1, <2>2, <2>3
<1>4. CASE V # {}
  <2>1. PICK above \in V, side \in Sides :
           /\ Kid(u, side, above) = Sentinel
           /\ Descended(u, node, Root(u)) =
                MadeRed(WithKids(WithParent(WithKid(u, side, above, node), node, above),
                                 node, Sentinel, Sentinel), node)
    BY <1>4, DescendedAs
  <2> PICK v : v = Descended(u, node, Root(u))
    OBVIOUS
  <2>2. Hung(u, v, side, above, node)
    <3>1. u \in Trees /\ above \in All /\ node \in All /\ Sentinel \in All
      BY <1>1 DEF Linked, All
    <3> QED
      BY <2>1, <3>1, HungAs
  <2>3. PICK h : Risen(v, V \cup {node}, node, h)
    BY <2>1, <2>2, HungRisen
  <2>4. Inserted(u, node) = Rebalanced(v, node)
    BY <1>2, <1>4 DEF Inserted, Root
  <2> QED
    BY <2>3, <2>4, RebalancedSound
<1> QED
  BY <1>3, <1>4

\* q is the order pos with node at the place p
Shifted(V, pos, p, node, q) ==
  /\ At(q, node) = p
  /\ \A m \in V : At(q, m) = IF At(pos, m) < p THEN At(pos, m) ELSE At(pos, m) + 1

\* There is such an order.
LEMMA ShiftExists ==
  ASSUME NEW V, V \subseteq All, NEW node \in All \ V, NEW pos, NEW N, Numbered(V, pos, N),
         NEW p \in 1 .. N + 1
  PROVE  \E q : Shifted(V, pos, p, node, q) /\ Numbered(V \cup {node}, q, N + 1)
<1> PICK q : q = [m \in All |-> IF m = node THEN p ELSE IF At(pos, m) < p THEN At(pos, m) ELSE At(pos, m) + 1]
  OBVIOUS
<1>1. Shifted(V, pos, p, node, q)
  BY DEF Shifted, At
<1>2. N \in Nat /\ p \in Nat /\ \A m \in V : At(pos, m) \in Nat /\ At(pos, m) <= N
  BY DEF Numbered
<1>3. \A m \in V \cup {node} : At(q, m) \in 1 .. N + 1
  BY <1>1, <1>2 DEF Shifted, Numbered
<1>4. ASSUME NEW n \in V \cup {node}, NEW m \in V \cup {node}, At(q, n) = At(q, m) PROVE n = m
  BY <1>1, <1>2, <1>4 DEF Shifted, Numbered
<1> QED
  BY <1>1, <1>2, <1>3, <1>4 DEF Numbered

\* the place in the order of a node hung below above, on the side
PlaceBeside(pos, above, side) == IF side = "left" THEN At(pos, above) ELSE At(pos, above) + 1

\* Hanging a node to a leaf puts it into the order next to the node above it.
LEMMA HungOrder ==
  ASSUME NEW u, NEW V, Sound(u, V), NEW node \in Nodes \ V, NEW above \in V, NEW side \in Sides,
         Kid(u, side, above) = Sentinel, NEW v, Hung(u, v, side, above, node),
         NEW W, W = V \cup {node}, NEW pos, NEW N, InOrder(u, V, pos, N),
         NEW q, Shifted(V, pos, PlaceBeside(pos, above, side), node, q), Numbered(W, q, N + 1)
  PROVE  InOrder(v, W, q, N + 1)
<1> PICK mu : Linked(u, V) /\ Falls(u, V, mu)
  BY DEF Sound, Tree
<1> PICK b : Numbered(V, pos, N) /\ Meets(u, V, pos) /\ Framed(u, V, pos, N, b)
  BY DEF InOrder
<1> PICK other, p : other = Other(side) /\ p = PlaceBeside(pos, above, side)
  OBVIOUS
<1>1. other \in Sides /\ other # side /\ Sides = {side, other} /\ Other(other) = side
  BY SideFacts
<1>2. /\ V \subseteq All /\ Sentinel \notin V /\ node \in All /\ node \notin V /\ node # Sentinel
      /\ Root(u) \in V /\ above # node
      /\ \A n \in V, z \in Sides : Kid(u, z, n) \in V \cup {Sentinel}
  <2>1. Sane(u, V)
    BY LinkedFacts
  <2> QED
    BY <2>1, TreeAssumption DEF Sane, All
<1>3. /\ Root(v) = Root(u)
      /\ \A m \in All, z \in Sides :
           Kid(v, z, m) = IF m = node THEN Sentinel ELSE IF m = above /\ z = side THEN node ELSE Kid(u, z, m)
  BY DEF Hung
<1>4. /\ N \in Nat /\ \A n \in V : At(pos, n) \in Nat /\ At(pos, n) >= 1 /\ At(pos, n) <= N
      /\ \A n, m \in V : At(pos, n) = At(pos, m) => n = m
  BY DEF Numbered
<1>5. /\ \A n \in V, z \in Sides : Edge(b, z, n) \in Nat
      /\ Edge(b, "left", Root(u)) = 0 /\ Edge(b, "right", Root(u)) = N + 1
      /\ \A n \in V, z \in Sides : Kid(u, z, n) # Sentinel =>
           Edge(b, z, Kid(u, z, n)) = Edge(b, z, n) /\ Edge(b, Other(z), Kid(u, z, n)) = At(pos, n)
      /\ \A n \in V, z \in Sides : Kid(u, z, n) = Sentinel => Edge(b, z, n) = Toward(z, At(pos, n))
  BY <1>2 DEF Framed
<1>6. /\ p \in Nat /\ At(q, node) = p /\ (p = At(pos, above) \/ p = At(pos, above) + 1)
      /\ side = "left" => p = At(pos, above)
      /\ side = "right" => p = At(pos, above) + 1
      /\ \A m \in V : At(q, m) = IF At(pos, m) < p THEN At(pos, m) ELSE At(pos, m) + 1
      /\ \A m \in V : At(q, m) \in Nat
  BY <1>4 DEF Shifted, PlaceBeside, Sides
<1>7. At(q, node) = Toward(side, At(q, above)) /\ At(q, above) = Toward(other, At(q, node))
  <2>1. At(pos, above) \in Nat
    BY <1>4
  <2>2. At(q, above) = IF At(pos, above) < p THEN At(pos, above) ELSE At(pos, above) + 1
    BY <1>6
  <2>3. CASE side = "left"
    <3>1. other = "right" /\ p = At(pos, above) /\ At(q, above) = At(pos, above) + 1
      BY <2>1, <2>2, <2>3, <1>6 DEF Other
    <3> QED
      BY <3>1, <2>1, <2>3, <1>6 DEF Toward
  <2>4. CASE side = "right"
    <3>1. other = "left" /\ p = At(pos, above) + 1 /\ At(q, above) = At(pos, above)
      BY <2>1, <2>2, <2>4, <1>6 DEF Other
    <3> QED
      BY <3>1, <2>1, <2>4, <1>6 DEF Toward
  <2> QED
    BY <2>3, <2>4 DEF Sides
<1>8. \A n, m \in W : At(q, n) = At(q, m) => n = m
  BY DEF Numbered
<1>9. \A n \in W : At(q, n) \in Nat
  BY DEF Numbered
<1>a. ASSUME NEW n \in V, NEW m \in V, NEW z \in Sides, At(q, m) = Toward(z, At(q, n))
      PROVE  At(pos, m) = Toward(z, At(pos, n))
  <2>0. At(pos, n) \in Nat /\ At(pos, m) \in Nat /\ At(q, n) \in Nat /\ At(q, m) \in Nat
    BY <1>4, <1>6
  <2>1. /\ At(q, m) = IF At(pos, m) < p THEN At(pos, m) ELSE At(pos, m) + 1
        /\ At(q, n) = IF At(pos, n) < p THEN At(pos, n) ELSE At(pos, n) + 1
    BY <1>6
  <2>2. z = "left" \/ z = "right"
    BY DEF Sides
  <2>3. At(q, m) # p /\ At(q, n) # p
    BY <2>0, <2>1, <1>6
  <2>4. CASE z = "left"
    <3>1. At(q, m) = At(q, n) - 1
      BY <2>4, <1>a DEF Toward
    <3>2. At(pos, m) = At(pos, n) - 1
      BY <3>1, <2>0, <2>1, <2>3, <1>6
    <3> QED
      BY <3>2, <2>4 DEF Toward
  <2>5. CASE z = "right"
    <3>1. At(q, m) = At(q, n) + 1
      BY <2>5, <1>a DEF Toward
    <3>2. At(pos, m) = At(pos, n) + 1
      BY <3>1, <2>0, <2>1, <2>3, <1>6
    <3> QED
      BY <3>2, <2>5 DEF Toward
  <2> QED
    BY <2>2, <2>4, <2>5
<1>b. ASSUME NEW n \in V, NEW z \in Sides, At(q, node) = Toward(z, At(q, n)), n # above, Kid(u, z, n) = Sentinel
      PROVE  FALSE
  <2>0. At(pos, n) \in Nat /\ At(q, n) \in Nat /\ At(pos, above) \in Nat /\ At(q, above) \in Nat
    BY <1>4, <1>6
  <2>1. z = other
    <3>1. z = side => At(q, n) = At(q, above)
      BY <2>0, <1>b, <1>6, <1>7 DEF Toward, Sides
    <3> QED
      BY <3>1, <1>1, <1>8, <1>b
  <2>2. At(pos, above) = Toward(other, At(pos, n))
    <3>1. At(q, n) = IF At(pos, n) < p THEN At(pos, n) ELSE At(pos, n) + 1
      BY <1>6
    <3>2. CASE side = "left"
      <4>1. other = "right" /\ p = At(pos, above)
        BY <3>2, <1>6 DEF Other
      <4>2. p = At(q, n) + 1
        BY <4>1, <2>1, <1>b, <1>6 DEF Toward
      <4>3. At(pos, n) = p - 1
        BY <4>2, <3>1, <2>0, <1>6
      <4> QED
        BY <4>1, <4>3, <2>0 DEF Toward
    <3>3. CASE side = "right"
      <4>1. other = "left" /\ p = At(pos, above) + 1
        BY <3>3, <1>6 DEF Other
      <4>2. p = At(q, n) - 1
        BY <4>1, <2>1, <1>b, <1>6 DEF Toward
      <4>3. At(pos, n) = p
        BY <4>2, <3>1, <2>0, <1>6
      <4> QED
        BY <4>1, <4>3, <2>0 DEF Toward
    <3> QED
      BY <3>2, <3>3 DEF Sides
  <2> QED
    BY <2>1, <2>2, <1>1, <1>b DEF Meets
<1>10. Meets(v, W, q)
  <2> SUFFICES ASSUME NEW n \in W, NEW m \in W, NEW z \in Sides, At(q, m) = Toward(z, At(q, n)),
                      Kid(v, z, n) = Sentinel, Kid(v, Other(z), m) = Sentinel
               PROVE  FALSE
    BY DEF Meets
  <2>0. Other(z) \in Sides /\ Other(Other(z)) = z /\ Other(z) # z
    BY SideFacts
  <2>1. At(q, n) = Toward(Other(z), At(q, m))
    BY <1>9 DEF Toward, Other, Sides
  <2>2. \A k \in V, y \in Sides : Kid(v, y, k) = Sentinel =>
          Kid(u, y, k) = Sentinel /\ ~ (k = above /\ y = side)
    BY <1>2, <1>3
  <2>3. CASE n = node
    <3>1. m \in V
      BY <2>3, <1>9 DEF Toward, Sides
    <3>2. Kid(u, Other(z), m) = Sentinel /\ ~ (m = above /\ Other(z) = side)
      BY <3>1, <2>0, <2>2
    <3>3. m # above
      <4> SUFFICES ASSUME m = above PROVE FALSE
        OBVIOUS
      <4>1. Other(z) = other
        BY <3>2, <2>0, <1>1
      <4>2. At(q, node) = Toward(other, At(q, above)) /\ At(q, node) = Toward(side, At(q, above))
        BY <4>1, <2>1, <2>3, <1>7
      <4>3. At(q, above) \in Nat
        BY <1>9
      <4> QED
        BY <4>2, <4>3, <1>1 DEF Toward, Sides
    <3> QED
      BY <3>1, <3>2, <3>3, <2>0, <2>1, <2>3, <1>b
  <2>4. CASE m = node
    <3>1. n \in V
      BY <2>4, <1>9 DEF Toward, Sides
    <3>2. Kid(u, z, n) = Sentinel /\ ~ (n = above /\ z = side)
      BY <3>1, <2>2
    <3>3. n # above
      <4> SUFFICES ASSUME n = above PROVE FALSE
        OBVIOUS
      <4>1. z = other
        BY <3>2, <1>1
      <4> QED
        BY <4>1, <2>4, <1>7, <1>9, <1>1 DEF Toward, Sides
    <3> QED
      BY <3>1, <3>2, <3>3, <2>4, <1>b
  <2>5. CASE n \in V /\ m \in V
    BY <2>0, <2>2, <2>5, <1>a DEF Meets
  <2> QED
    BY <2>3, <2>4, <2>5
<1> DEFINE f(k) == IF k < p THEN k ELSE k + 1
<1>11. PICK c : c = [z \in Sides |-> [m \in All |->
                       IF m = node THEN (IF z = side THEN f(Edge(b, z, above)) ELSE At(q, above))
                       ELSE f(Edge(b, z, m))]]
  OBVIOUS
<1>12. /\ \A z \in Sides, m \in V : Edge(c, z, m) = f(Edge(b, z, m))
       /\ Edge(c, side, node) = f(Edge(b, side, above)) /\ Edge(c, other, node) = At(q, above)
  BY <1>1, <1>2, <1>11 DEF Edge
<1>13. \A n \in W, z \in Sides : Edge(c, z, n) \in Nat
  <2>1. \A z \in Sides, m \in V : Edge(c, z, m) \in Nat
    BY <1>5, <1>6, <1>12
  <2>2. Edge(c, side, node) \in Nat /\ Edge(c, other, node) \in Nat
    BY <1>5, <1>6, <1>12
  <2> QED
    BY <2>1, <2>2, <1>1
<1>14. Edge(c, "left", Root(v)) = 0 /\ Edge(c, "right", Root(v)) = (N + 1) + 1
  <2>1. "left" \in Sides /\ "right" \in Sides
    BY DEF Sides
  <2>2. p >= 1 /\ p <= N + 1
    BY <1>4, <1>6
  <2> QED
    BY <2>1, <2>2, <1>2, <1>3, <1>4, <1>5, <1>6, <1>12
<1>15. ASSUME NEW n \in W, NEW z \in Sides
       PROVE  /\ Kid(v, z, n) # Sentinel =>
                   /\ Edge(c, z, Kid(v, z, n)) = Edge(c, z, n)
                   /\ Edge(c, Other(z), Kid(v, z, n)) = At(q, n)
              /\ Kid(v, z, n) = Sentinel => Edge(c, z, n) = Toward(z, At(q, n))
  <2>1. CASE n = node
    <3>1. Kid(v, z, n) = Sentinel
      BY <2>1, <1>2, <1>3
    <3>2. CASE z = other
      BY <3>1, <3>2, <2>1, <1>1, <1>2, <1>7, <1>12
    <3>3. CASE z = side
      <4>1. Edge(b, side, above) = Toward(side, At(pos, above))
        BY <1>5
      <4>2. f(Edge(b, side, above)) = Toward(side, p)
        <5>1. CASE side = "left"
          <6>1. Edge(b, side, above) = p - 1
            BY <4>1, <5>1, <1>6 DEF Toward
          <6> QED
            BY <6>1, <5>1, <1>6 DEF Toward
        <5>2. CASE side = "right"
          <6>1. Edge(b, side, above) = p
            BY <4>1, <5>2, <1>6 DEF Toward
          <6> QED
            BY <6>1, <5>2, <1>6 DEF Toward
        <5> QED
          BY <5>1, <5>2 DEF Sides
      <4> QED
        BY <4>2, <3>1, <3>3, <2>1, <1>2, <1>6, <1>12
    <3> QED
      BY <3>2, <3>3, <1>1
  <2>2. CASE n = above /\ z = side
    <3>1. Kid(v, z, n) = node
      BY <2>2, <1>2, <1>3
    <3> QED
      BY <3>1, <2>2, <1>2, <1>12
  <2>3. CASE n \in V /\ ~ (n = above /\ z = side)
    <3>1. Kid(v, z, n) = Kid(u, z, n) /\ Other(z) \in Sides
      BY <2>3, <1>2, <1>3, SideFacts
    <3>2. At(q, n) = f(At(pos, n)) /\ Edge(c, z, n) = f(Edge(b, z, n))
      BY <2>3, <1>6, <1>12
    <3>3. CASE Kid(u, z, n) # Sentinel
      <4> PICK d : d = Kid(u, z, n)
        OBVIOUS
      <4>1. d \in V /\ Edge(b, z, d) = Edge(b, z, n) /\ Edge(b, Other(z), d) = At(pos, n)
        BY <3>3, <2>3, <1>2, <1>5
      <4>2. Edge(c, z, d) = f(Edge(b, z, d)) /\ Edge(c, Other(z), d) = f(Edge(b, Other(z), d))
        BY <4>1, <3>1, <1>12
      <4> HIDE DEF f
      <4> QED
        BY <4>1, <4>2, <3>1, <3>2, <3>3
    <3>4. CASE Kid(u, z, n) = Sentinel
      <4>1. Edge(b, z, n) = Toward(z, At(pos, n))
        BY <3>4, <2>3, <1>5
      <4>2. f(Toward(z, At(pos, n))) = Toward(z, f(At(pos, n)))
        <5>0. At(pos, n) \in Nat /\ At(q, n) \in Nat /\ At(pos, above) \in Nat
          BY <2>3, <1>4, <1>6
        <5>1. At(q, node) # Toward(z, At(q, n))
          <6>1. n # above => At(q, node) # Toward(z, At(q, n))
            BY <2>3, <3>4, <1>b
          <6>2. n = above => At(q, node) # Toward(z, At(q, n))
            <7> SUFFICES ASSUME n = above PROVE At(q, node) # Toward(z, At(q, n))
              OBVIOUS
            <7>1. z = other
              BY <2>3, <1>1
            <7> QED
              BY <7>1, <1>7, <1>9, <1>1 DEF Toward, Sides
          <6> QED
            BY <6>1, <6>2
        <5>2. CASE z = "left"
          <6>1. p # f(At(pos, n)) - 1
            BY <5>1, <5>2, <3>2, <1>6 DEF Toward
          <6>2. At(pos, n) # p
            BY <6>1, <5>0, <1>6
          <6> QED
            BY <6>2, <5>0, <5>2, <1>6 DEF Toward
        <5>3. CASE z = "right"
          <6>1. p # f(At(pos, n)) + 1
            BY <5>1, <5>3, <3>2, <1>6 DEF Toward
          <6>2. At(pos, n) + 1 # p
            BY <6>1, <5>0, <1>6
          <6> QED
            BY <6>2, <5>0, <5>3, <1>6 DEF Toward
        <5> QED
          BY <5>2, <5>3 DEF Sides
      <4> HIDE DEF f
      <4> QED
        BY <4>1, <4>2, <3>1, <3>2, <3>4
    <3> QED
      BY <3>3, <3>4
  <2> QED
    BY <2>1, <2>2, <2>3
<1>16. Framed(v, W, q, N + 1, c)
  BY <1>13, <1>14, <1>15 DEF Framed
<1> QED
  BY <1>10, <1>16 DEF InOrder

\* node asks for a place behind those at and before k
Divides(V, pos, node, k) == \A m \in V : At(pos, m) < k <=> ~ GoesLeft(node, m)

\* the nodes node goes left of are the last ones
Monotone(V, pos, node) ==
  \A n, m \in V : At(pos, n) < At(pos, m) /\ GoesLeft(node, n) => GoesLeft(node, m)

(***************************************************************************)
(* The way down of an insert: at every turn the nodes to the left of the   *)
(* way ask for no later place than node, and those to the right for a      *)
(* later one.                                                              *)
(***************************************************************************)
LEMMA DescentDivides ==
  ASSUME NEW u, NEW V, Sound(u, V), NEW node, NEW pos, NEW N, InOrder(u, V, pos, N),
         Monotone(V, pos, node), NEW above \in V, NEW side \in Sides,
         Kid(u, side, above) = Sentinel, side = Way(node, above),
         \A K : Root(u) \in K /\ WayClosed(u, V, node, K) => above \in K
  PROVE  /\ Divides(V, pos, node, PlaceBeside(pos, above, side))
         /\ PlaceBeside(pos, above, side) \in 1 .. N + 1
<1> PICK b : Numbered(V, pos, N) /\ Framed(u, V, pos, N, b)
  BY DEF InOrder
<1> PICK mu : Linked(u, V) /\ Falls(u, V, mu)
  BY DEF Sound, Tree
<1>1. Sane(u, V) /\ Root(u) \in V
  <2>1. Sane(u, V)
    BY LinkedFacts
  <2> QED
    BY <2>1 DEF Sane
<1>2. /\ N \in Nat /\ \A n \in V : At(pos, n) \in Nat /\ At(pos, n) >= 1 /\ At(pos, n) <= N
      /\ \A n, m \in V : At(pos, n) = At(pos, m) => n = m
  BY DEF Numbered
<1>3. "left" \in Sides /\ "right" \in Sides /\ \A z \in Sides : z = "left" \/ z = "right"
  BY DEF Sides
<1>4. /\ \A n \in V, z \in Sides : Edge(b, z, n) \in Nat
      /\ Edge(b, "left", Root(u)) = 0 /\ Edge(b, "right", Root(u)) = N + 1
      /\ \A n \in V, z \in Sides : Kid(u, z, n) # Sentinel =>
           Edge(b, z, Kid(u, z, n)) = Edge(b, z, n) /\ Edge(b, Other(z), Kid(u, z, n)) = At(pos, n)
      /\ \A n \in V, z \in Sides : Kid(u, z, n) = Sentinel => Edge(b, z, n) = Toward(z, At(pos, n))
  BY <1>1 DEF Framed
<1> DEFINE K == {n \in V : /\ \A m \in V : At(pos, m) <= Edge(b, "left", n) => ~ GoesLeft(node, m)
                           /\ \A m \in V : At(pos, m) >= Edge(b, "right", n) => GoesLeft(node, m)}
<1>5. Root(u) \in K
  BY <1>1, <1>2, <1>4
<1>6. ASSUME NEW n \in V \cap K, Kid(u, Way(node, n), n) # Sentinel PROVE Kid(u, Way(node, n), n) \in K
  <2> PICK z, c : z = Way(node, n) /\ c = Kid(u, z, n)
    OBVIOUS
  <2>1. z \in Sides /\ c \in V /\ n \in V
    BY <1>1, <1>6 DEF Sane, Way, Sides
  <2>2. Edge(b, z, c) = Edge(b, z, n) /\ Edge(b, Other(z), c) = At(pos, n)
    BY <2>1, <1>4, <1>6
  <2>3. /\ \A m \in V : At(pos, m) <= Edge(b, "left", n) => ~ GoesLeft(node, m)
        /\ \A m \in V : At(pos, m) >= Edge(b, "right", n) => GoesLeft(node, m)
    BY <1>6
  <2> HIDE DEF K
  <2>4. CASE GoesLeft(node, n)
    <3>1. Edge(b, "left", c) = Edge(b, "left", n) /\ Edge(b, "right", c) = At(pos, n)
      BY <2>2, <2>4 DEF Way, Other
    <3>2. \A m \in V : At(pos, m) >= At(pos, n) => GoesLeft(node, m)
      <4> TAKE m \in V
      <4>1. At(pos, m) > At(pos, n) => GoesLeft(node, m)
        BY <2>1, <2>4, <1>2 DEF Monotone
      <4>2. At(pos, m) = At(pos, n) => GoesLeft(node, m)
        BY <2>1, <2>4, <1>2
      <4> QED
        BY <4>1, <4>2, <2>1, <1>2
    <3> QED
      BY <3>1, <3>2, <2>1, <2>3 DEF K
  <2>5. CASE ~ GoesLeft(node, n)
    <3>1. Edge(b, "right", c) = Edge(b, "right", n) /\ Edge(b, "left", c) = At(pos, n)
      BY <2>2, <2>5 DEF Way, Other
    <3>2. \A m \in V : At(pos, m) <= At(pos, n) => ~ GoesLeft(node, m)
      <4> TAKE m \in V
      <4>1. At(pos, m) < At(pos, n) => ~ GoesLeft(node, m)
        BY <2>1, <2>5, <1>2 DEF Monotone
      <4>2. At(pos, m) = At(pos, n) => ~ GoesLeft(node, m)
        BY <2>1, <2>5, <1>2
      <4> QED
        BY <4>1, <4>2, <2>1, <1>2
    <3> QED
      BY <3>1, <3>2, <2>1, <2>3 DEF K
  <2> QED
    BY <2>4, <2>5
<1>7. WayClosed(u, V, node, K)
  <2> HIDE DEF K
  <2> QED
    BY <1>6 DEF WayClosed
<1>8. above \in K
  <2> HIDE DEF K
  <2> QED
    BY <1>5, <1>7
<1>9. /\ \A m \in V : At(pos, m) <= Edge(b, "left", above) => ~ GoesLeft(node, m)
      /\ \A m \in V : At(pos, m) >= Edge(b, "right", above) => GoesLeft(node, m)
  BY <1>8
<1> HIDE DEF K
<1>10. At(pos, above) \in Nat /\ At(pos, above) >= 1 /\ At(pos, above) <= N
  BY <1>2
<1>11. CASE side = "left"
  <2>1. GoesLeft(node, above) /\ PlaceBeside(pos, above, side) = At(pos, above)
    BY <1>11 DEF Way, PlaceBeside
  <2>2. Edge(b, "left", above) = At(pos, above) - 1
    BY <1>4, <1>11 DEF Toward
  <2>3. \A m \in V : At(pos, m) < At(pos, above) => ~ GoesLeft(node, m)
    BY <2>2, <1>2, <1>9, <1>10
  <2>4. \A m \in V : At(pos, m) >= At(pos, above) => GoesLeft(node, m)
    <3> TAKE m \in V
    <3>1. At(pos, m) > At(pos, above) => GoesLeft(node, m)
      BY <2>1, <1>2 DEF Monotone
    <3>2. At(pos, m) = At(pos, above) => GoesLeft(node, m)
      BY <2>1, <1>2
    <3> QED
      BY <3>1, <3>2, <1>2, <1>10
  <2>5. Divides(V, pos, node, At(pos, above))
    BY <2>3, <2>4, <1>2, <1>10 DEF Divides
  <2> QED
    BY <2>1, <2>5, <1>2, <1>10
<1>12. CASE side = "right"
  <2>1. ~ GoesLeft(node, above) /\ PlaceBeside(pos, above, side) = At(pos, above) + 1
    BY <1>12 DEF Way, PlaceBeside
  <2>2. Edge(b, "right", above) = At(pos, above) + 1
    BY <1>4, <1>12 DEF Toward
  <2>3. \A m \in V : At(pos, m) >= At(pos, above) + 1 => GoesLeft(node, m)
    BY <2>2, <1>2, <1>9, <1>10
  <2>4. \A m \in V : At(pos, m) < At(pos, above) + 1 => ~ GoesLeft(node, m)
    <3> TAKE m \in V
    <3>1. At(pos, m) < At(pos, above) => ~ GoesLeft(node, m)
      BY <2>1, <1>2 DEF Monotone
    <3>2. At(pos, m) = At(pos, above) => ~ GoesLeft(node, m)
      BY <2>1, <1>2
    <3> QED
      BY <3>1, <3>2, <1>2, <1>10
  <2>5. Divides(V, pos, node, At(pos, above) + 1)
    BY <2>3, <2>4, <1>2, <1>10 DEF Divides
  <2> QED
    BY <2>1, <2>5, <1>2, <1>10
<1> QED
  BY <1>3, <1>11, <1>12

\* The order of one node.
LEMMA AloneOrder ==
  ASSUME NEW v, NEW node, Root(v) = node, \A z \in Sides : Kid(v, z, node) = Sentinel,
         NEW q, At(q, node) = 1
  PROVE  InOrder(v, {node}, q, 1)
<1> PICK b : b = [z \in Sides |-> [n \in {node} |-> IF z = "left" THEN 0 ELSE 2]]
  OBVIOUS
<1>1. Edge(b, "left", node) = 0 /\ Edge(b, "right", node) = 2
  BY DEF Edge, Sides
<1>2. Framed(v, {node}, q, 1, b)
  <2>1. \A z \in Sides : Edge(b, z, node) \in Nat
    BY <1>1 DEF Sides
  <2>2. \A z \in Sides : Edge(b, z, node) = Toward(z, At(q, node))
    BY <1>1 DEF Sides, Toward
  <2>3. \A n \in {node}, z \in Sides : Edge(b, z, n) \in Nat /\ Edge(b, z, n) = Toward(z, At(q, n))
    BY <2>1, <2>2
  <2>4. \A n \in {node}, z \in Sides : Kid(v, z, n) = Sentinel
    OBVIOUS
  <2>5. Edge(b, "left", Root(v)) = 0 /\ Edge(b, "right", Root(v)) = 1 + 1
    BY <1>1
  <2> QED
    BY <2>3, <2>4, <2>5 DEF Framed
<1>3. Meets(v, {node}, q)
  BY DEF Meets, Toward
<1>4. Numbered({node}, q, 1)
  BY DEF Numbered
<1> QED
  BY <1>2, <1>3, <1>4 DEF InOrder

\* an insert puts node into the order behind those it does not go left of
LEMMA InsertedOrder ==
  ASSUME NEW u, NEW V, Sound(u, V), NEW node \in Nodes \ V, NEW pos, NEW N, InOrder(u, V, pos, N),
         V = {} => N = 0, Monotone(V, pos, node)
  PROVE  \E p \in 1 .. N + 1 : \E q :
           /\ Shifted(V, pos, p, node, q) /\ Divides(V, pos, node, p)
           /\ InOrder(Inserted(u, node), V \cup {node}, q, N + 1)
<1>1. Linked(u, V)
  BY DEF Sound, Tree
<1>2. Root(u) = Sentinel <=> V = {}
  BY <1>1, TreeAssumption DEF Linked
<1>a. V \subseteq All /\ node \in All \ V /\ Numbered(V, pos, N)
  BY <1>1 DEF Linked, All, InOrder
<1>3. CASE V = {}
  <2> PICK alone : alone = WithKids(WithParent(u, node, NULL), node, Sentinel, Sentinel)
    OBVIOUS
  <2> PICK v : v = [MadeBlack(alone, node) EXCEPT !.root = node]
    OBVIOUS
  <2>1. Inserted(u, node) = v
    BY <1>2, <1>3 DEF Inserted, Root
  <2>2. Root(v) = node /\ \A z \in Sides : Kid(v, z, node) = Sentinel
    BY <1>3, AloneSound
  <2> PICK q : q = [m \in {node} |-> 1]
    OBVIOUS
  <2>3. At(q, node) = 1
    BY DEF At
  <2>4. InOrder(v, {node}, q, 1)
    BY <2>2, <2>3, AloneOrder
  <2>5. V \cup {node} = {node} /\ N + 1 = 1 /\ 1 \in 1 .. N + 1
    BY <1>3
  <2>6. Shifted(V, pos, 1, node, q) /\ Divides(V, pos, node, 1)
    BY <2>3, <1>3 DEF Shifted, Divides
  <2> QED
    BY <2>1, <2>4, <2>5, <2>6
<1>4. CASE V # {}
  <2>1. PICK above \in V, side \in Sides :
           /\ Kid(u, side, above) = Sentinel /\ side = Way(node, above)
           /\ \A K : Root(u) \in K /\ WayClosed(u, V, node, K) => above \in K
           /\ Descended(u, node, Root(u)) =
                MadeRed(WithKids(WithParent(WithKid(u, side, above, node), node, above),
                                 node, Sentinel, Sentinel), node)
    BY <1>4, DescendedAs
  <2> PICK v, p, W : v = Descended(u, node, Root(u)) /\ p = PlaceBeside(pos, above, side) /\ W = V \cup {node}
    OBVIOUS
  <2>2. Hung(u, v, side, above, node)
    <3>1. u \in Trees /\ above \in All /\ node \in All /\ Sentinel \in All
      BY <1>1 DEF Linked, All
    <3> QED
      BY <2>1, <3>1, HungAs
  <2>3. PICK h : Risen(v, W, node, h)
    BY <2>1, <2>2, HungRisen
  <2>4. Inserted(u, node) = Rebalanced(v, node)
    BY <1>2, <1>4 DEF Inserted, Root
  <2>5. Divides(V, pos, node, p) /\ p \in 1 .. N + 1
    BY <2>1, DescentDivides
  <2>6. PICK q : Shifted(V, pos, p, node, q) /\ Numbered(W, q, N + 1)
    BY <2>5, <1>a, ShiftExists
  <2>7. InOrder(v, W, q, N + 1)
    BY <2>1, <2>2, <2>6, HungOrder
  <2>8. Moves(v, Rebalanced(v, node), W)
    BY <2>3, RebalancedSound
  <2>9. InOrder(Rebalanced(v, node), W, q, N + 1)
    BY <2>7, <2>8 DEF Moves
  <2> QED
    BY <2>4, <2>5, <2>6, <2>9
<1> QED
  BY <1>3, <1>4

-----------------------------------------------------------------------------
(***************************************************************************)
(* Deleting, and the state of the tree between operations.                 *)
(***************************************************************************)
\* No property of the tree is about the fields that mean nothing.
LEMMA SettledSound ==
  ASSUME NEW u, NEW V, Sound(u, V), NEW v, v = Settled(u, V)
  PROVE  Sound(v, V) /\ Moves(u, v, V)
<1> PICK h : Level(u, V, h)
  BY DEF Sound
<1> PICK mu : Linked(u, V) /\ Falls(u, V, mu)
  BY DEF Sound, Tree
<1>1. Sane(u, V)
  BY LinkedFacts
<1>2. u \in Trees /\ Root(u) \in All /\ Sentinel \in All /\ V \subseteq All /\ Sentinel \notin V
  BY <1>1 DEF Sane
<1>3. /\ v \in Trees /\ Root(v) = Root(u) /\ SameKids(u, v)
      /\ \A m \in All : Parent(v, m) = IF m \in {Root(u), Sentinel} THEN NULL ELSE Parent(u, m)
      /\ \A m \in All : IsRed(v, m) <=> IsRed(u, m) /\ m \in V \cup {Sentinel}
  BY <1>2 DEF Settled, Trees, Root, SameKids, Kid, Parent, IsRed
<1>4. Linked(v, V)
  <2>1. ~ IsRed(v, Sentinel)
    BY <1>1, <1>2, <1>3 DEF Sane
  <2>2. \A n \in V, s \in Sides : Kid(v, s, n) \in (V \ {Root(v)}) \cup {Sentinel}
    BY <1>3 DEF Linked, SameKids
  <2>3. \A n \in V, s \in Sides : Kid(v, s, n) # Sentinel => Parent(v, Kid(v, s, n)) = n
    BY <1>1, <1>2, <1>3 DEF Sane, SameKids
  <2>4. \A n \in V \ {Root(v)} : Parent(v, n) = Parent(u, n)
    BY <1>2, <1>3
  <2> QED
    BY <2>1, <2>2, <2>3, <2>4, <1>3 DEF Linked, SameKids
<1>5. Falls(v, V, mu)
  BY <1>3 DEF Falls, SameKids
<1>6. Clean(v, V)
  BY <1>3 DEF Sound, Clean, SameKids
<1>7. RedsApart(v, V)
  <2>1. \A n \in V, z \in Sides : Kid(u, z, n) \in All
    BY <1>1 DEF Sane
  <2> QED
    BY <2>1, <1>2, <1>3 DEF Sound, RedsApart, SameKids
<1>8. ~ IsRed(v, Root(v))
  BY <1>2, <1>3 DEF Sound
<1>9. Level(v, V, h)
  <2>1. \A n \in V : Weight(v, n) = Weight(u, n)
    BY <1>2, <1>3 DEF Weight
  <2> QED
    BY <2>1, <1>3 DEF Level, SameKids
<1>10. Moves(u, v, V)
  BY <1>3, RepaintedMoves
<1> QED
  BY <1>4, <1>5, <1>6, <1>7, <1>8, <1>9, <1>10 DEF Sound, Tree

\* a balanced tree, whatever the nodes outside hold
Firm(u, V) == Tree(u, V) /\ RedsApart(u, V) /\ ~ IsRed(u, Root(u)) /\ \E h : Level(u, V, h)

(***************************************************************************)
(* The loop of a delete: the paths through x, on the side s of p, are one  *)
(* black short.  When x is the root all paths are, and p is no node.       *)
(***************************************************************************)
Short(u, V, x, h, p, s) ==
  /\ Tree(u, V) /\ x \in V \cup {Sentinel}
  /\ Balances(u, V, h, p, s) /\ RedsAt(u, V, x)
  /\ IsRed(u, Root(u)) => Root(u) = x
  /\ \/ p = NULL /\ x = Root(u)
     \/ p \in V /\ s \in Sides /\ Parent(u, x) = p /\ Kid(u, s, p) = x /\ x # Root(u)

(***************************************************************************)
(* rap_rbtree_delete ends by painting a node black: the root, or a red     *)
(* node that is a black short.                                             *)
(***************************************************************************)
LEMMA ShortPainted ==
  ASSUME NEW u, NEW V, NEW x, NEW h, NEW p, NEW s, Short(u, V, x, h, p, s),
         x = Root(u) \/ IsRed(u, x), NEW v, v = MadeBlack(u, x)
  PROVE  Firm(v, V) /\ (Clean(u, V) => Clean(v, V)) /\ Moves(u, v, V)
<1>1. /\ Tree(u, V) /\ x \in V \cup {Sentinel}
      /\ Balances(u, V, h, p, s) /\ RedsAt(u, V, x)
      /\ IsRed(u, Root(u)) => Root(u) = x
      /\ \/ p = NULL /\ x = Root(u)
         \/ p \in V /\ s \in Sides /\ Parent(u, x) = p /\ Kid(u, s, p) = x /\ x # Root(u)
  BY DEF Short
<1> PICK mu : Linked(u, V) /\ Falls(u, V, mu)
  BY <1>1 DEF Tree
<1>2. Sane(u, V)
  BY LinkedFacts
<1>3. u \in Trees /\ x \in All /\ V \subseteq All /\ Sentinel \in All /\ Sentinel \notin V /\ NULL \notin V
      /\ ~ IsRed(u, Sentinel) /\ Root(u) \in All
  BY <1>1, <1>2 DEF Sane
<1>4. BlackIs(u, v, x)
  BY <1>3, ColourWritten
<1>5. Repainted(u, v) /\ \A m \in All : IsRed(v, m) <=> m # x /\ IsRed(u, m)
  BY <1>4 DEF BlackIs
<1>6. ~ IsRed(v, Sentinel)
  BY <1>3, <1>5
<1>7. Tree(v, V) /\ (Clean(u, V) => Clean(v, V))
  BY <1>1, <1>5, <1>6, RepaintedKeeps
<1>8. Root(v) = Root(u) /\ \A z, n : Kid(v, z, n) = Kid(u, z, n)
  BY <1>5 DEF Repainted, SameKids
<1>13. Moves(u, v, V)
  BY <1>5, RepaintedMoves DEF Repainted
<1>9. RedsApart(v, V)
  <2> SUFFICES ASSUME NEW m \in V, NEW z \in Sides, IsRed(v, m), IsRed(v, Kid(v, z, m)) PROVE FALSE
    BY DEF RedsApart
  <2>1. Kid(u, z, m) \in All
    BY <1>2 DEF Sane
  <2>2. IsRed(u, m) /\ IsRed(u, Kid(u, z, m)) /\ m # x /\ Kid(u, z, m) # x
    BY <2>1, <1>3, <1>5, <1>8
  <2> QED
    BY <2>2, <1>1 DEF RedsAt
<1>10. ~ IsRed(v, Root(v))
  BY <1>1, <1>3, <1>5, <1>8
<1>11. /\ Counted(h) /\ At(h, Sentinel) = 0
       /\ \A n \in V, z \in Sides : At(h, n) = At(h, Kid(u, z, n)) + Weight(u, n) + Gap(p, s, n, z)
  BY <1>1 DEF Balances
<1>12. \E g : Level(v, V, g)
  <2>1. CASE ~ IsRed(u, x)
    <3>1. p = NULL
      BY <2>1, <1>1
    <3>2. ASSUME NEW n \in V, NEW z \in Sides
          PROVE  At(h, n) = At(h, Kid(u, z, n)) + Weight(v, n)
      <4>1. Gap(p, s, n, z) = 0
        BY <3>1, <1>3 DEF Gap
      <4>2. Weight(v, n) = Weight(u, n) /\ Weight(u, n) \in Nat
        BY <2>1, <1>3, <1>5 DEF Weight
      <4>3. At(h, Kid(u, z, n)) \in Nat
        BY <1>2, <1>11 DEF Sane, Counted
      <4> QED
        BY <4>1, <4>2, <4>3, <1>11
    <3>3. Level(v, V, h)
      BY <3>2, <1>8, <1>11 DEF Level
    <3> QED
      BY <3>3
  <2>2. CASE IsRed(u, x)
    <3> DEFINE g == [m \in All |-> IF m = x THEN At(h, m) + 1 ELSE At(h, m)]
    <3>1. Counted(g) /\ At(g, x) = At(h, x) + 1 /\ \A m \in All \ {x} : At(g, m) = At(h, m)
      BY <1>3, <1>11 DEF At, Counted
    <3> HIDE DEF g
    <3>2. x \in V /\ At(g, Sentinel) = 0
      BY <2>2, <3>1, <1>1, <1>3, <1>11
    <3>3. ASSUME NEW n \in V, NEW z \in Sides
          PROVE  At(g, n) = At(g, Kid(u, z, n)) + Weight(v, n)
      <4> PICK c : c = Kid(u, z, n)
        OBVIOUS
      <4>1. /\ c \in All /\ c # n /\ At(h, c) \in Nat /\ At(h, n) = At(h, c) + Weight(u, n) + Gap(p, s, n, z)
            /\ n \in All
        BY <1>2, <1>3, <1>11 DEF Sane, Counted
      <4>2. CASE n = x
        <5>1. Weight(u, n) = 0 /\ Weight(v, n) = 1
          BY <4>2, <2>2, <1>3, <1>5 DEF Weight
        <5>2. Gap(p, s, n, z) = 0
          <6>1. n # p
            BY <4>2, <1>1, <1>2, <1>3 DEF Sane
          <6> QED
            BY <6>1 DEF Gap
        <5> QED
          BY <4>1, <4>2, <5>1, <5>2, <3>1
      <4>3. CASE n # x
        <5>1. Weight(v, n) = Weight(u, n) /\ (Weight(u, n) = 0 \/ Weight(u, n) = 1)
          BY <4>1, <4>3, <1>5 DEF Weight
        <5>2. CASE c = x
          <6>a. Kid(u, z, n) = x /\ x # Sentinel
            BY <5>2, <3>2, <1>3
          <6>1. Gap(p, s, n, z) = 1
            <7>a. Kid(u, z, n) \in (V \ {Root(u)}) \cup {Sentinel} /\ (Kid(u, z, n) # Sentinel => Parent(u, Kid(u, z, n)) = n)
              BY <1>2 DEF Sane
            <7>1. x # Root(u) /\ Parent(u, x) = n
              BY <6>a, <7>a
            <7>2. p = n /\ s \in Sides /\ Kid(u, s, n) = x
              BY <7>1, <1>1
            <7>3. z = s
              <8>1. s = z \/ s = Other(z)
                BY <7>2, SideFacts
              <8>2. Kid(u, z, n) = Kid(u, Other(z), n) => Kid(u, z, n) = Sentinel
                BY <1>2 DEF Sane
              <8> QED
                BY <8>1, <8>2, <7>2, <6>a
            <7> QED
              BY <7>2, <7>3 DEF Gap
          <6> QED
            BY <4>1, <4>3, <5>1, <5>2, <6>1, <3>1
        <5>3. CASE c # x
          <6>1. Gap(p, s, n, z) = 0
            BY <5>3, <1>1, <1>3 DEF Gap
          <6> QED
            BY <4>1, <4>3, <5>1, <5>3, <6>1, <3>1
        <5> QED
          BY <5>2, <5>3
      <4> QED
        BY <4>2, <4>3
    <3>4. Level(v, V, g)
      BY <3>1, <3>2, <3>3, <1>8 DEF Level
    <3> QED
      BY <3>4
  <2> QED
    BY <2>1, <2>2
<1> QED
  BY <1>7, <1>9, <1>10, <1>12, <1>13 DEF Firm

\* The fields of the node that left the tree are cleared.
LEMMA ClearedKeeps ==
  ASSUME NEW u \in Trees, NEW V, NEW n \in Nodes \ V, NEW v, v = Cleared(u, n)
  PROVE  /\ Firm(u, V) => Firm(v, V)
         /\ \A x, h, p, s : Short(u, V, x, h, p, s) => Short(v, V, x, h, p, s)
         /\ Clean(u, V \cup {n}) => Clean(v, V)
         /\ V \subseteq Nodes => Moves(u, v, V)
<1>1. n \in All /\ n # Sentinel /\ NULL \in All \cup {NULL}
  BY TreeAssumption DEF All
<1> PICK w : w = WithKids(u, n, NULL, NULL)
  OBVIOUS
<1>2. KidsAre(u, w, n, NULL, NULL)
  BY <1>1, KidsWritten
<1>3. w \in Trees
  BY <1>2 DEF KidsAre
<1>4. ParentIs(w, v, n, NULL)
  BY <1>1, <1>3, ParentWritten DEF Cleared
<1>5. /\ v \in Trees /\ Root(v) = Root(u) /\ SameReds(u, v)
      /\ \A m \in All \ {n} : Parent(v, m) = Parent(u, m)
      /\ \A m \in All \ {n}, z \in Sides : Kid(v, z, m) = Kid(u, z, m)
      /\ \A z \in Sides : Kid(v, z, n) = NULL
  BY <1>1, <1>2, <1>4 DEF KidsAre, ParentIs, SameReds, SameParents, SameKids
<1>6. Linked(u, V) => Linked(v, V)
  <2> SUFFICES ASSUME Linked(u, V) PROVE Linked(v, V)
    OBVIOUS
  <2>1. V \subseteq All \ {n} /\ Sentinel \in All \ {n} /\ V \subseteq Nodes
    BY <1>1 DEF Linked, All
  <2>2. \A m \in V, z \in Sides : Kid(v, z, m) = Kid(u, z, m) /\ Kid(u, z, m) \in V \cup {Sentinel}
    BY <2>1, <1>5 DEF Linked
  <2>3. \A m \in V : Parent(v, m) = Parent(u, m)
    BY <2>1, <1>5
  <2>4. ~ IsRed(v, Sentinel) /\ (Root(v) \in V \/ (V = {} /\ Root(v) = Sentinel))
    BY <1>5 DEF Linked, SameReds
  <2>5. \A m \in V, s \in Sides : Kid(v, s, m) \in (V \ {Root(v)}) \cup {Sentinel}
    BY <2>2, <1>5 DEF Linked
  <2>6. \A m \in V, s \in Sides : Kid(v, s, m) # Sentinel => Parent(v, Kid(v, s, m)) = m
    BY <2>2, <2>3 DEF Linked
  <2>7. \A m \in V \ {Root(v)} : Parent(v, m) \in V /\ \E s \in Sides : Kid(v, s, Parent(v, m)) = m
    <3> TAKE m \in V \ {Root(v)}
    <3>1. Parent(u, m) \in V /\ \E s \in Sides : Kid(u, s, Parent(u, m)) = m
      BY <1>5 DEF Linked
    <3> QED
      BY <3>1, <2>2, <2>3
  <2>8. \A m \in V : Kid(v, "left", m) = Kid(v, "right", m) => Kid(v, "left", m) = Sentinel
    BY <2>2 DEF Linked, Sides
  <2> QED
    BY <2>1, <2>4, <2>5, <2>6, <2>7, <2>8, <1>5 DEF Linked
<1>7. Linked(u, V) => V \subseteq All \ {n}
  BY DEF Linked, All
<1>8. Tree(u, V) => Tree(v, V)
  <2>1. ASSUME Linked(u, V), NEW mu, Falls(u, V, mu) PROVE Falls(v, V, mu)
    BY <2>1, <1>5, <1>7 DEF Falls
  <2> QED
    BY <2>1, <1>6 DEF Tree
<1>9. \A m : Weight(v, m) = Weight(u, m)
  BY <1>5 DEF Weight, SameReds
<1>10. Firm(u, V) => Firm(v, V)
  <2> SUFFICES ASSUME Firm(u, V) PROVE Firm(v, V)
    OBVIOUS
  <2>1. V \subseteq All \ {n}
    BY <1>7 DEF Firm, Tree
  <2>2. Tree(v, V)
    BY <1>8 DEF Firm
  <2>3. RedsApart(v, V) /\ ~ IsRed(v, Root(v))
    BY <2>1, <1>5 DEF Firm, RedsApart, SameReds
  <2>4. \E h : Level(v, V, h)
    BY <2>1, <1>5, <1>9 DEF Firm, Level
  <2> QED
    BY <2>2, <2>3, <2>4 DEF Firm
<1>11. ASSUME NEW x, NEW h, NEW p, NEW s, Short(u, V, x, h, p, s) PROVE Short(v, V, x, h, p, s)
  <2>1. V \subseteq All \ {n} /\ Tree(v, V) /\ x \in V \cup {Sentinel}
    BY <1>7, <1>8, <1>11 DEF Short, Tree
  <2>2. x \in All \ {n}
    BY <2>1, <1>1, <1>11 DEF All
  <2>3. Balances(v, V, h, p, s)
    BY <2>1, <1>5, <1>9, <1>11 DEF Short, Balances
  <2>4. RedsAt(v, V, x) /\ (IsRed(v, Root(v)) => Root(v) = x)
    BY <2>1, <1>5, <1>11 DEF Short, RedsAt, SameReds
  <2>5. \/ p = NULL /\ x = Root(v)
        \/ p \in V /\ s \in Sides /\ Parent(v, x) = p /\ Kid(v, s, p) = x /\ x # Root(v)
    BY <2>1, <2>2, <1>5, <1>11 DEF Short
  <2> QED
    BY <2>1, <2>3, <2>4, <2>5 DEF Short
<1>12. Clean(u, V \cup {n}) => Clean(v, V)
  BY <1>5 DEF Clean, All
<1>13. V \subseteq Nodes => Moves(u, v, V)
  <2> SUFFICES ASSUME V \subseteq Nodes PROVE Moves(u, v, V)
    OBVIOUS
  <2>1. \A m \in V : m \in All \ {n}
    BY DEF All
  <2> QED
    BY <2>1, <1>5, StillMoves
<1> QED
  BY <1>10, <1>11, <1>12, <1>13

\* v is u where temp has taken the place of a child of up, and has the parent q
Cut(u, v, s, up, temp, q) ==
  /\ v \in Trees /\ Root(v) = Root(u) /\ SameReds(u, v)
  /\ \A m \in All, z \in Sides : Kid(v, z, m) = IF m = up /\ z = s THEN temp ELSE Kid(u, z, m)
  /\ \A m \in All : Parent(v, m) = IF m = temp THEN q ELSE Parent(u, m)

(***************************************************************************)
(* A node with one child at most leaves its place to the child: the tree   *)
(* is balanced if it was red, and a black short if it was black.           *)
(***************************************************************************)
LEMMA CutKeeps ==
  ASSUME NEW u, NEW V, Sound(u, V), NEW d \in V \ {Root(u)},
         NEW k \in Sides, Kid(u, k, d) = Sentinel, NEW temp, temp = Kid(u, Other(k), d),
         NEW up, up = Parent(u, d), NEW s \in Sides, Kid(u, s, up) = d,
         NEW v, Cut(u, v, s, up, temp, up), NEW W, W = V \ {d}
  PROVE  /\ IsRed(u, d) => Firm(v, W)
         /\ ~ IsRed(u, d) => \E h : Short(v, W, temp, h, up, s)
         /\ Clean(v, V) /\ ~ IsRed(v, Root(v)) /\ temp \in W \cup {Sentinel}
<1> PICK h : Level(u, V, h)
  BY DEF Sound
<1> PICK mu : Linked(u, V) /\ Falls(u, V, mu)
  BY DEF Sound, Tree
<1>1. Sane(u, V)
  BY LinkedFacts
<1>2. /\ v \in Trees /\ Root(v) = Root(u) /\ SameReds(u, v)
      /\ \A m \in All, z \in Sides : Kid(v, z, m) = IF m = up /\ z = s THEN temp ELSE Kid(u, z, m)
      /\ \A m \in All : Parent(v, m) = IF m = temp THEN up ELSE Parent(u, m)
  BY DEF Cut
<1>3. Other(k) \in Sides /\ \A z \in Sides : z = k \/ z = Other(k)
  BY SideFacts
<1>4. /\ V \subseteq All /\ V \subseteq Nodes /\ Sentinel \notin V /\ Sentinel \in All /\ Root(u) \in W
      /\ W \subseteq V /\ Root(u) \in All
      /\ \A n \in V, z \in Sides :
           /\ Kid(u, z, n) \in (V \ {Root(u)}) \cup {Sentinel}
           /\ Kid(u, z, n) \in All /\ Kid(u, z, n) # n
           /\ Kid(u, z, n) # Sentinel => Parent(u, Kid(u, z, n)) = n
      /\ \A n \in V \ {Root(u)} : Parent(u, n) \in V /\ Parent(u, n) # n
      /\ \A n \in V, z \in Sides : Kid(u, z, n) = Kid(u, Other(z), n) => Kid(u, z, n) = Sentinel
  BY <1>1 DEF Sane
<1>5. up \in V /\ up # d /\ up \in W /\ up \in All /\ d \in All /\ d # Sentinel
  BY <1>4
<1>6. temp \in (W \ {Root(u)}) \cup {Sentinel} /\ temp \in All /\ temp # d /\ (temp # Sentinel => Parent(u, temp) = d)
  BY <1>3, <1>4
<1>7. \A n \in W, z \in Sides : ~ (n = up /\ z = s) => Kid(u, z, n) # d
  <2> SUFFICES ASSUME NEW n \in W, NEW z \in Sides, Kid(u, z, n) = d PROVE n = up /\ z = s
    OBVIOUS
  <2>1. n = up
    BY <1>4, <1>5
  <2>2. z = s \/ z = Other(s)
    BY SideFacts
  <2> QED
    BY <2>1, <2>2, <1>4, <1>5
<1>8. \A n \in W, z \in Sides : /\ Kid(v, z, n) \in (W \ {Root(v)}) \cup {Sentinel}
                                /\ Kid(v, z, n) # Sentinel => Parent(v, Kid(v, z, n)) = n
  <2> TAKE n \in W, z \in Sides
  <2>1. n \in V /\ n \in All
    BY <1>4
  <2>2. CASE n = up /\ z = s
    BY <2>1, <2>2, <1>2, <1>4, <1>5, <1>6
  <2>3. CASE ~ (n = up /\ z = s)
    <3>1. Kid(v, z, n) = Kid(u, z, n) /\ Kid(u, z, n) # d
      BY <2>1, <2>3, <1>2, <1>7
    <3>2. Kid(u, z, n) = temp => temp = Sentinel
      BY <2>1, <1>4, <1>6
    <3> QED
      BY <2>1, <3>1, <3>2, <1>2, <1>4
  <2> QED
    BY <2>2, <2>3
<1>9. ASSUME NEW n \in W \ {Root(v)}
      PROVE  Parent(v, n) \in W /\ \E z \in Sides : Kid(v, z, Parent(v, n)) = n
  <2>1. n \in V \ {Root(u)} /\ n \in All /\ n # Sentinel /\ n # d
    BY <1>2, <1>4
  <2>2. CASE n = temp
    BY <2>1, <2>2, <1>2, <1>5
  <2>3. CASE n # temp
    <3> PICK p : p = Parent(u, n)
      OBVIOUS
    <3>1. Parent(v, n) = p /\ p \in V
      BY <2>1, <2>3, <1>2, <1>4
    <3>2. PICK z \in Sides : Kid(u, z, p) = n
      BY <2>1 DEF Linked
    <3>3. p # d
      BY <3>2, <2>1, <2>3, <1>3
    <3>4. p \in W /\ ~ (p = up /\ z = s)
      BY <3>1, <3>2, <3>3, <2>1
    <3>5. Kid(v, z, p) = n
      BY <3>1, <3>2, <3>4, <1>2, <1>4
    <3> QED
      BY <3>1, <3>4, <3>5
  <2> QED
    BY <2>2, <2>3
<1>10. \A n \in W : Kid(v, "left", n) = Kid(v, "right", n) => Kid(v, "left", n) = Sentinel
  <2> SUFFICES ASSUME NEW n \in W, NEW z \in Sides, NEW y \in Sides, z # y,
                      Kid(v, z, n) = Kid(v, y, n), y # s \/ n # up
               PROVE  Kid(v, z, n) = Sentinel
    BY DEF Sides
  <2>1. n \in V /\ n \in All /\ Kid(v, y, n) = Kid(u, y, n)
    BY <1>2, <1>4
  <2>2. CASE n = up /\ z = s
    <3>1. Kid(u, y, n) = temp
      BY <2>1, <2>2, <1>2
    <3> QED
      BY <3>1, <2>1, <2>2, <1>2, <1>4, <1>5, <1>6
  <2>3. CASE ~ (n = up /\ z = s)
    <3>1. Kid(u, z, n) = Kid(u, y, n) /\ y = Other(z)
      BY <2>1, <2>3, <1>2, SideFacts
    <3> QED
      BY <3>1, <2>1, <2>3, <1>2, <1>4
  <2> QED
    BY <2>2, <2>3
<1>11. Linked(v, W)
  BY <1>1, <1>2, <1>4, <1>8, <1>9, <1>10 DEF Linked, SameReds, Sane
<1>12. Falls(v, W, mu)
  <2>1. \A n \in All : At(mu, n) \in Nat
    BY DEF Falls, Counted
  <2>2. \A n \in V, z \in Sides : Kid(u, z, n) # Sentinel => At(mu, Kid(u, z, n)) < At(mu, n)
    BY DEF Falls
  <2>3. temp # Sentinel => At(mu, temp) < At(mu, up)
    <3>1. temp # Sentinel => At(mu, temp) < At(mu, d)
      BY <2>2, <1>3
    <3>2. At(mu, d) < At(mu, up)
      BY <2>2, <1>5
    <3> QED
      BY <3>1, <3>2, <2>1, <1>5, <1>6
  <2>4. \A n \in W, z \in Sides : Kid(v, z, n) # Sentinel => At(mu, Kid(v, z, n)) < At(mu, n)
    BY <2>2, <2>3, <1>2, <1>4
  <2> QED
    BY <2>4 DEF Falls
<1>13. Tree(v, W)
  BY <1>11, <1>12 DEF Tree
<1>14. Clean(v, V)
  BY <1>2, <1>4, <1>5 DEF Sound, Clean, All
<1>15. ~ IsRed(v, Root(v)) /\ \A m : IsRed(v, m) <=> IsRed(u, m)
  BY <1>2 DEF SameReds, Sound
<1>16. /\ Counted(h) /\ At(h, Sentinel) = 0
       /\ \A m \in V, z \in Sides : At(h, m) = At(h, Kid(u, z, m)) + Weight(u, m)
  BY DEF Level
<1>17. \A m : Weight(v, m) = Weight(u, m) /\ (Weight(u, m) = 0 \/ Weight(u, m) = 1)
  BY <1>15 DEF Weight
<1>18. At(h, d) = At(h, temp) + Weight(u, d) /\ At(h, temp) \in Nat
  BY <1>3, <1>6, <1>16 DEF Counted
<1>19. ASSUME IsRed(u, d) PROVE Firm(v, W)
  <2>1. ~ IsRed(u, temp)
    BY <1>3, <1>19 DEF Sound, RedsApart
  <2>2. RedsApart(v, W)
    <3>1. \A n \in V, z \in Sides : IsRed(u, n) => ~ IsRed(u, Kid(u, z, n))
      BY DEF Sound, RedsApart
    <3> QED
      BY <2>1, <3>1, <1>2, <1>4, <1>15 DEF RedsApart
  <2>3. Weight(u, d) = 0
    BY <1>19 DEF Weight
  <2>4. At(h, d) = At(h, temp)
    BY <2>3, <1>18
  <2>5. Level(v, W, h)
    <3>1. \A m \in W, z \in Sides : At(h, m) = At(h, Kid(v, z, m)) + Weight(v, m)
      BY <2>4, <1>2, <1>4, <1>16, <1>17
    <3> QED
      BY <3>1, <1>16 DEF Level
  <2> QED
    BY <2>2, <2>5, <1>13, <1>15 DEF Firm
<1>20. ASSUME ~ IsRed(u, d) PROVE Short(v, W, temp, h, up, s)
  <2>1. Weight(u, d) = 1
    BY <1>20 DEF Weight
  <2>2. At(h, d) = At(h, temp) + 1
    BY <2>1, <1>18
  <2>3. ASSUME NEW m \in W, NEW z \in Sides
        PROVE  At(h, m) = At(h, Kid(v, z, m)) + Weight(v, m) + Gap(up, s, m, z)
    <3>1. m \in V /\ m \in All /\ At(h, m) = At(h, Kid(u, z, m)) + Weight(u, m)
      BY <1>4, <1>16
    <3>2. CASE m = up /\ z = s
      <4>1. Kid(v, z, m) = temp /\ Kid(u, z, m) = d /\ Gap(up, s, m, z) = 1
        BY <3>1, <3>2, <1>2 DEF Gap
      <4> QED
        BY <4>1, <3>1, <2>2, <1>17, <1>18
    <3>3. CASE ~ (m = up /\ z = s)
      <4>1. Kid(v, z, m) = Kid(u, z, m) /\ Gap(up, s, m, z) = 0
        BY <3>1, <3>3, <1>2 DEF Gap
      <4>2. At(h, Kid(u, z, m)) \in Nat
        BY <3>1, <1>4, <1>16 DEF Counted
      <4> QED
        BY <4>1, <4>2, <3>1, <1>17
    <3> QED
      BY <3>2, <3>3
  <2>4. Balances(v, W, h, up, s)
    BY <2>3, <1>16 DEF Balances
  <2>5. RedsAt(v, W, temp)
    <3>1. \A n \in V, z \in Sides : IsRed(u, n) => ~ IsRed(u, Kid(u, z, n))
      BY DEF Sound, RedsApart
    <3> QED
      BY <3>1, <1>2, <1>4, <1>15 DEF RedsAt
  <2>6. Parent(v, temp) = up /\ Kid(v, s, up) = temp /\ temp # Root(v) /\ temp \in W \cup {Sentinel}
    BY <1>2, <1>4, <1>5, <1>6
  <2> QED
    BY <2>4, <2>5, <2>6, <1>5, <1>13, <1>15 DEF Short
<1> QED
  BY <1>6, <1>14, <1>15, <1>19, <1>20

(***************************************************************************)
(* v is u with the name new for node, which it takes the place of.         *)
(***************************************************************************)
Renaming(node, new) == [n \in All \cup {NULL} |-> IF n = node THEN new ELSE n]

(***************************************************************************)
(* The links, colours and children of v are those of u, renamed by r, but  *)
(* for the parent of x.                                                    *)
(***************************************************************************)
Renamed(u, v, U, V, x, r) ==
  /\ v \in Trees /\ V \subseteq Nodes
  /\ \A n \in U : At(r, n) \in V
  /\ \A n \in V : \E m \in U : At(r, m) = n
  /\ \A n \in U, m \in U : At(r, n) = At(r, m) => n = m
  /\ At(r, Sentinel) = Sentinel /\ At(r, NULL) = NULL
  /\ Root(v) = At(r, Root(u))
  /\ \A n \in U, z \in Sides : Kid(v, z, At(r, n)) = At(r, Kid(u, z, n))
  /\ \A n \in (U \ {Root(u)}) \cup {x} : Parent(v, At(r, n)) = At(r, Parent(u, n))
  /\ \A n \in U \cup {Sentinel} : IsRed(v, At(r, n)) <=> IsRed(u, n)

\* A tree with another name for a node is balanced, or a black short, as the tree was.
LEMMA RenamedKeeps ==
  ASSUME NEW u, NEW U, Tree(u, U), NEW v, NEW V, NEW r, NEW x \in U \cup {Sentinel},
         Renamed(u, v, U, V, x, r), x # Root(u)
  PROVE  /\ Firm(u, U) => Firm(v, V)
         /\ \A h, p, s : Short(u, U, x, h, p, s) => \E g : Short(v, V, At(r, x), g, At(r, p), s)
<1> PICK mu : Linked(u, U) /\ Falls(u, U, mu)
  BY DEF Tree
<1>1. Sane(u, U)
  BY LinkedFacts
<1>2. /\ v \in Trees /\ V \subseteq Nodes
      /\ \A n \in U : At(r, n) \in V
      /\ \A n \in V : \E m \in U : At(r, m) = n
      /\ \A n \in U, m \in U : At(r, n) = At(r, m) => n = m
      /\ At(r, Sentinel) = Sentinel /\ At(r, NULL) = NULL
      /\ Root(v) = At(r, Root(u))
      /\ \A n \in U, z \in Sides : Kid(v, z, At(r, n)) = At(r, Kid(u, z, n))
      /\ \A n \in (U \ {Root(u)}) \cup {x} : Parent(v, At(r, n)) = At(r, Parent(u, n))
      /\ \A n \in U \cup {Sentinel} : IsRed(v, At(r, n)) <=> IsRed(u, n)
  BY DEF Renamed
<1>3. /\ U \subseteq All /\ Sentinel \notin U /\ Sentinel \in All /\ V \subseteq All /\ Sentinel \notin V
      /\ NULL \notin U /\ NULL \notin V
      /\ \A n \in U, z \in Sides :
           /\ Kid(u, z, n) \in (U \ {Root(u)}) \cup {Sentinel}
           /\ Kid(u, z, n) # Sentinel => Parent(u, Kid(u, z, n)) = n
  BY <1>1, <1>2, TreeAssumption DEF Sane, All
<1> DEFINE back == [n \in All |-> IF n \in V THEN CHOOSE m \in U : At(r, m) = n ELSE n]
<1>4. /\ \A n \in V : At(back, n) \in U /\ At(r, At(back, n)) = n
      /\ At(back, Sentinel) = Sentinel
  BY <1>2, <1>3 DEF At
<1>5. \A n \in U : At(back, At(r, n)) = n
  BY <1>2, <1>4
<1> HIDE DEF back
<1>6. Linked(v, V)
  <2>1. Root(v) \in V \/ (V = {} /\ Root(v) = Sentinel)
    BY <1>2 DEF Linked
  <2>2. ~ IsRed(v, Sentinel)
    BY <1>2 DEF Linked
  <2>3. ASSUME NEW n \in V, NEW s \in Sides
        PROVE  /\ Kid(v, s, n) \in (V \ {Root(v)}) \cup {Sentinel}
               /\ Kid(v, s, n) # Sentinel => Parent(v, Kid(v, s, n)) = n
    <3> PICK m \in U : At(r, m) = n
      BY <1>2
    <3> PICK c : c = Kid(u, s, m)
      OBVIOUS
    <3>1. Kid(v, s, n) = At(r, c)
      BY <1>2
    <3>2. CASE c = Sentinel
      BY <3>1, <3>2, <1>2
    <3>3. CASE c # Sentinel
      <4>1. c \in U \ {Root(u)} /\ Parent(u, c) = m
        BY <3>3, <1>3
      <4>2. At(r, c) \in V /\ At(r, c) # Root(v)
        BY <4>1, <1>2 DEF Linked
      <4> QED
        BY <3>1, <4>1, <4>2, <1>2
    <3> QED
      BY <3>2, <3>3
  <2>4. ASSUME NEW n \in V \ {Root(v)}
        PROVE  Parent(v, n) \in V /\ \E s \in Sides : Kid(v, s, Parent(v, n)) = n
    <3> PICK m \in U : At(r, m) = n
      BY <1>2
    <3>1. m # Root(u)
      BY <1>2
    <3>2. PICK s \in Sides : Kid(u, s, Parent(u, m)) = m
      BY <3>1 DEF Linked
    <3>3. Parent(u, m) \in U
      BY <3>1 DEF Linked
    <3> QED
      BY <3>1, <3>2, <3>3, <1>2
  <2>5. ASSUME NEW n \in V, Kid(v, "left", n) = Kid(v, "right", n) PROVE Kid(v, "left", n) = Sentinel
    <3> PICK m \in U : At(r, m) = n
      BY <1>2
    <3>a. "left" \in Sides /\ "right" \in Sides
      BY DEF Sides
    <3>1. Kid(v, "left", n) = At(r, Kid(u, "left", m)) /\ Kid(v, "right", n) = At(r, Kid(u, "right", m))
      BY <3>a, <1>2
    <3>2. Kid(u, "left", m) \in U \cup {Sentinel} /\ Kid(u, "right", m) \in U \cup {Sentinel}
      BY <3>a, <1>3
    <3>3. Kid(u, "left", m) = Kid(u, "right", m)
      BY <3>1, <3>2, <2>5, <1>2, <1>3
    <3>4. Kid(u, "left", m) = Sentinel
      BY <3>3 DEF Linked
    <3> QED
      BY <3>1, <3>4, <1>2
  <2> QED
    BY <2>1, <2>2, <2>3, <2>4, <2>5, <1>2 DEF Linked
<1>7. Tree(v, V)
  <2> DEFINE nu == [n \in All |-> At(mu, IF n \in V THEN At(back, n) ELSE n)]
  <2>0. \A n \in All : At(mu, n) \in Nat
    BY DEF Falls, Counted
  <2>1. Counted(nu)
    BY <2>0, <1>3, <1>4 DEF Counted, At
  <2>2. \A n \in V : At(nu, n) = At(mu, At(back, n))
    BY <1>3 DEF At
  <2> HIDE DEF nu
  <2>3. ASSUME NEW n \in V, NEW s \in Sides, Kid(v, s, n) # Sentinel PROVE At(nu, Kid(v, s, n)) < At(nu, n)
    <3> PICK m : m = At(back, n)
      OBVIOUS
    <3>1. m \in U /\ At(r, m) = n
      BY <1>4
    <3>2. Kid(v, s, n) = At(r, Kid(u, s, m))
      BY <3>1, <1>2
    <3>3. Kid(u, s, m) \in U
      BY <3>1, <3>2, <2>3, <1>2, <1>3
    <3>4. At(back, Kid(v, s, n)) = Kid(u, s, m) /\ Kid(v, s, n) \in V
      BY <3>2, <3>3, <1>2, <1>5
    <3>5. At(mu, Kid(u, s, m)) < At(mu, m)
      BY <3>1, <3>3, <1>3 DEF Falls
    <3> QED
      BY <3>4, <3>5, <2>2
  <2>4. Falls(v, V, nu)
    BY <2>1, <2>3 DEF Falls
  <2> QED
    BY <2>4, <1>6 DEF Tree
<1>8. \A n \in U : Weight(v, At(r, n)) = Weight(u, n)
  BY <1>2 DEF Weight
<1>9. ASSUME NEW h, Counted(h), At(h, Sentinel) = 0
      PROVE  \E g : /\ Counted(g) /\ At(g, Sentinel) = 0
                    /\ \A n \in U \cup {Sentinel} : At(g, At(r, n)) = At(h, n)
  <2> DEFINE g == [n \in All |-> At(h, IF n \in V THEN At(back, n) ELSE n)]
  <2>1. \A n \in All : At(h, n) \in Nat
    BY <1>9 DEF Counted
  <2>2. Counted(g)
    BY <2>1, <1>3, <1>4 DEF Counted, At
  <2>3. At(g, Sentinel) = 0 /\ \A n \in V : At(g, n) = At(h, At(back, n))
    BY <1>3, <1>9 DEF At
  <2> HIDE DEF g
  <2>4. \A n \in U \cup {Sentinel} : At(g, At(r, n)) = At(h, n)
    BY <2>3, <1>2, <1>5, <1>9
  <2> QED
    BY <2>2, <2>3, <2>4
<1>10. ASSUME NEW n \in V, NEW z \in Sides
       PROVE  \E m \in U : n = At(r, m) /\ Kid(u, z, m) \in U \cup {Sentinel} /\ Kid(v, z, n) = At(r, Kid(u, z, m))
  BY <1>2, <1>3
<1>11. ASSUME Firm(u, U) PROVE Firm(v, V)
  <2>1. PICK h : Level(u, U, h)
    BY <1>11 DEF Firm
  <2>2. PICK g : /\ Counted(g) /\ At(g, Sentinel) = 0
                 /\ \A n \in U \cup {Sentinel} : At(g, At(r, n)) = At(h, n)
    BY <2>1, <1>9 DEF Level
  <2>3. ASSUME NEW n \in V, NEW z \in Sides
        PROVE  At(g, n) = At(g, Kid(v, z, n)) + Weight(v, n) /\ (IsRed(v, n) => ~ IsRed(v, Kid(v, z, n)))
    <3>1. PICK m \in U : n = At(r, m) /\ Kid(u, z, m) \in U \cup {Sentinel} /\ Kid(v, z, n) = At(r, Kid(u, z, m))
      BY <1>10
    <3>2. At(h, m) = At(h, Kid(u, z, m)) + Weight(u, m)
      BY <2>1 DEF Level
    <3>3. IsRed(u, m) => ~ IsRed(u, Kid(u, z, m))
      BY <1>11 DEF Firm, RedsApart
    <3>4. At(g, n) = At(h, m) /\ At(g, Kid(v, z, n)) = At(h, Kid(u, z, m)) /\ Weight(v, n) = Weight(u, m)
      BY <3>1, <2>2, <1>8
    <3>5. (IsRed(v, n) <=> IsRed(u, m)) /\ (IsRed(v, Kid(v, z, n)) <=> IsRed(u, Kid(u, z, m)))
      BY <3>1, <1>2
    <3> QED
      BY <3>2, <3>3, <3>4, <3>5
  <2>4. ~ IsRed(v, Root(v))
    BY <1>2, <1>11 DEF Firm, Linked
  <2>5. RedsApart(v, V)
    BY <2>3 DEF RedsApart
  <2>6. Level(v, V, g)
    BY <2>2, <2>3 DEF Level
  <2> QED
    BY <2>4, <2>5, <2>6, <1>7 DEF Firm
<1>12. ASSUME NEW h, NEW p, NEW s, Short(u, U, x, h, p, s)
       PROVE  \E g : Short(v, V, At(r, x), g, At(r, p), s)
  <2>1. /\ Counted(h) /\ At(h, Sentinel) = 0
        /\ \A n \in U, z \in Sides : At(h, n) = At(h, Kid(u, z, n)) + Weight(u, n) + Gap(p, s, n, z)
        /\ \A n \in U, z \in Sides : IsRed(u, n) /\ IsRed(u, Kid(u, z, n)) => x \in {n, Kid(u, z, n)}
        /\ IsRed(u, Root(u)) => Root(u) = x
        /\ p \in U /\ s \in Sides /\ Parent(u, x) = p /\ Kid(u, s, p) = x
    BY <1>12 DEF Short, Balances, RedsAt
  <2>2. PICK g : /\ Counted(g) /\ At(g, Sentinel) = 0
                 /\ \A n \in U \cup {Sentinel} : At(g, At(r, n)) = At(h, n)
    BY <2>1, <1>9
  <2>3. ASSUME NEW n \in V, NEW z \in Sides
        PROVE  /\ At(g, n) = At(g, Kid(v, z, n)) + Weight(v, n) + Gap(At(r, p), s, n, z)
               /\ IsRed(v, n) /\ IsRed(v, Kid(v, z, n)) => At(r, x) \in {n, Kid(v, z, n)}
    <3>1. PICK m \in U : n = At(r, m) /\ Kid(u, z, m) \in U \cup {Sentinel} /\ Kid(v, z, n) = At(r, Kid(u, z, m))
      BY <1>10
    <3>2. At(h, m) = At(h, Kid(u, z, m)) + Weight(u, m) + Gap(p, s, m, z)
      BY <2>1
    <3>3. Gap(At(r, p), s, n, z) = Gap(p, s, m, z)
      BY <3>1, <2>1, <1>2 DEF Gap
    <3>4. At(g, n) = At(h, m) /\ At(g, Kid(v, z, n)) = At(h, Kid(u, z, m)) /\ Weight(v, n) = Weight(u, m)
      BY <3>1, <2>2, <1>8
    <3>5. (IsRed(v, n) <=> IsRed(u, m)) /\ (IsRed(v, Kid(v, z, n)) <=> IsRed(u, Kid(u, z, m)))
      BY <3>1, <1>2
    <3>6. IsRed(u, m) /\ IsRed(u, Kid(u, z, m)) => x \in {m, Kid(u, z, m)}
      BY <2>1
    <3>7. IsRed(v, n) /\ IsRed(v, Kid(v, z, n)) => At(r, x) \in {n, Kid(v, z, n)}
      BY <3>1, <3>5, <3>6
    <3> QED
      BY <3>2, <3>3, <3>4, <3>7
  <2>4. IsRed(v, Root(v)) => Root(v) = At(r, x)
    BY <1>2, <2>1 DEF Linked
  <2>5. Balances(v, V, g, At(r, p), s)
    BY <2>2, <2>3 DEF Balances
  <2>6. RedsAt(v, V, At(r, x))
    BY <2>3 DEF RedsAt
  <2>7. /\ At(r, x) \in V \cup {Sentinel} /\ At(r, p) \in V
        /\ Parent(v, At(r, x)) = At(r, p) /\ Kid(v, s, At(r, p)) = At(r, x)
    BY <1>2, <2>1
  <2>8. At(r, x) # Root(v)
    BY <1>2, <1>3, <2>1 DEF Linked
  <2> QED
    BY <2>1, <2>4, <2>5, <2>6, <2>7, <2>8, <1>7 DEF Short
<1> QED
  BY <1>11, <1>12

\* q is the order pos without node
Dropped(V, pos, node, q) ==
  \A m \in V \ {node} :
    At(q, m) = IF At(pos, m) < At(pos, node) THEN At(pos, m) ELSE At(pos, m) - 1

\* v holds the order of u without node
Removes(u, v, V, node) ==
  \A pos, N, q : InOrder(u, V, pos, N) /\ Dropped(V, pos, node, q) => InOrder(v, V \ {node}, q, N - 1)

\* Removing the node from the order, and then a change that keeps it.
LEMMA RemovesOn ==
  ASSUME NEW u, NEW v, NEW w, NEW V, NEW node, Removes(u, v, V, node), Moves(v, w, V \ {node})
  PROVE  Removes(u, w, V, node)
  BY DEF Removes, Moves

\* next follows node in the order
Follows(u, V, node, next) ==
  \A pos, N : InOrder(u, V, pos, N) => At(pos, next) = At(pos, node) + 1

(***************************************************************************)
(* The least node of the right subtree is the next in the order:           *)
(* rap_rbtree_delete and rap_rbtree_next rely on it.                       *)
(***************************************************************************)
LEMMA LeastFollows ==
  ASSUME NEW u, NEW V, Sound(u, V), NEW node \in V, NEW x, x = Kid(u, "right", node), x # Sentinel
  PROVE  Follows(u, V, node, Least(u, x))
<1> SUFFICES ASSUME NEW pos, NEW N, NEW b, Numbered(V, pos, N), Framed(u, V, pos, N, b)
             PROVE  At(pos, Least(u, x)) = At(pos, node) + 1
  BY DEF Follows, InOrder
<1> PICK mu : Linked(u, V) /\ Falls(u, V, mu)
  BY DEF Sound, Tree
<1>1. Sane(u, V)
  BY LinkedFacts
<1>2. "left" \in Sides /\ "right" \in Sides /\ Other("right") = "left"
  BY DEF Sides, Other
<1>3. x \in V /\ \A m \in V, z \in Sides : Kid(u, z, m) # Sentinel => Kid(u, z, m) \in V
  BY <1>1, <1>2 DEF Sane
<1> DEFINE K == {m \in V : Edge(b, "left", m) = At(pos, node)}
<1>4. x \in K
  BY <1>2, <1>3 DEF Framed
<1>5. LeftClosed(u, V, K)
  BY <1>2, <1>3 DEF Framed, LeftClosed
<1> PICK l : l = Least(u, x)
  OBVIOUS
<1>6. l \in K /\ l \in V /\ Kid(u, "left", l) = Sentinel
  <2> HIDE DEF K
  <2> QED
    BY <1>3, <1>4, <1>5, LeastAs
<1>7. At(pos, node) = At(pos, l) - 1
  BY <1>2, <1>6 DEF Framed, Toward
<1>8. At(pos, l) \in Nat
  BY <1>6 DEF Numbered
<1> QED
  BY <1>7, <1>8

\* The numbers without that of d leave no hole.
LEMMA DroppedNumbered ==
  ASSUME NEW V, NEW pos, NEW N, Numbered(V, pos, N), NEW d \in V, NEW q, Dropped(V, pos, d, q)
  PROVE  Numbered(V \ {d}, q, N - 1)
<1>1. /\ N \in Nat /\ \A n \in V : At(pos, n) \in Nat /\ At(pos, n) >= 1 /\ At(pos, n) <= N
      /\ \A n, m \in V : At(pos, n) = At(pos, m) => n = m
  BY DEF Numbered
<1>2. \A m \in V \ {d} : /\ At(pos, m) # At(pos, d)
                         /\ At(q, m) = IF At(pos, m) < At(pos, d) THEN At(pos, m) ELSE At(pos, m) - 1
  BY <1>1 DEF Dropped
<1>3. ASSUME NEW m \in V \ {d} PROVE At(q, m) \in 1 .. N - 1
  BY <1>1, <1>2
<1>4. ASSUME NEW n \in V \ {d}, NEW m \in V \ {d}, At(q, n) = At(q, m) PROVE n = m
  <2>1. At(pos, n) = At(pos, m)
    BY <1>1, <1>2, <1>4
  <2> QED
    BY <2>1, <1>1
<1>5. N - 1 \in Nat
  BY <1>1
<1> QED
  BY <1>3, <1>4, <1>5 DEF Numbered

\* d, with one child at most, leaves its place to that child
LEMMA CutOrder ==
  ASSUME NEW u, NEW V, NEW mu, Linked(u, V), Falls(u, V, mu), NEW d \in V,
         NEW k \in Sides, Kid(u, k, d) = Sentinel, NEW temp, temp = Kid(u, Other(k), d),
         NEW v, Root(v) = IF d = Root(u) THEN temp ELSE Root(u),
         \A n \in V \ {d}, z \in Sides : Kid(v, z, n) = IF Kid(u, z, n) = d THEN temp ELSE Kid(u, z, n)
  PROVE  Removes(u, v, V, d)
<1> SUFFICES ASSUME NEW pos, NEW N, NEW q, NEW b, Numbered(V, pos, N), Meets(u, V, pos),
                    Framed(u, V, pos, N, b), Dropped(V, pos, d, q)
             PROVE  InOrder(v, V \ {d}, q, N - 1)
  BY DEF Removes, InOrder
<1> PICK W, p, o : W = V \ {d} /\ p = At(pos, d) /\ o = Other(k)
  OBVIOUS
<1>1. Sane(u, V)
  BY LinkedFacts
<1>2. o \in Sides /\ o # k /\ Sides = {k, o} /\ Other(o) = k
  BY SideFacts
<1>3. /\ Sentinel \notin V /\ d # Sentinel /\ Root(u) \in V /\ temp \in W \cup {Sentinel}
      /\ V \subseteq All
      /\ \A n \in V, z \in Sides : Kid(u, z, n) \in V \cup {Sentinel} /\ Kid(u, z, n) # n /\ Kid(u, z, n) # Root(u)
      /\ \A n \in V, z \in Sides : Kid(u, z, n) # Sentinel => Parent(u, Kid(u, z, n)) = n
      /\ \A n \in V, z \in Sides : Kid(u, z, n) = Kid(u, Other(z), n) => Kid(u, z, n) = Sentinel
  BY <1>1, <1>2 DEF Sane
<1>4. /\ N \in Nat /\ \A n \in V : At(pos, n) \in Nat /\ At(pos, n) >= 1 /\ At(pos, n) <= N
      /\ \A n, m \in V : At(pos, n) = At(pos, m) => n = m
      /\ p \in Nat /\ p >= 1 /\ p <= N
  BY DEF Numbered
<1>5. /\ \A n \in V, z \in Sides : Edge(b, z, n) \in Nat
      /\ Edge(b, "left", Root(u)) = 0 /\ Edge(b, "right", Root(u)) = N + 1
      /\ \A n \in V, z \in Sides : Kid(u, z, n) # Sentinel =>
           Edge(b, z, Kid(u, z, n)) = Edge(b, z, n) /\ Edge(b, Other(z), Kid(u, z, n)) = At(pos, n)
      /\ \A n \in V, z \in Sides : Kid(u, z, n) = Sentinel => Edge(b, z, n) = Toward(z, At(pos, n))
  BY <1>3 DEF Framed
<1>6. \A m \in W : /\ At(pos, m) # p /\ m \in V
                   /\ At(q, m) = IF At(pos, m) < p THEN At(pos, m) ELSE At(pos, m) - 1
  BY <1>4 DEF Dropped
<1>7. \A n \in W, z \in Sides : Kid(v, z, n) = IF Kid(u, z, n) = d THEN temp ELSE Kid(u, z, n)
  OBVIOUS
<1>8. Numbered(W, q, N - 1)
  BY DroppedNumbered
<1>9. \A n \in W : At(q, n) \in Nat
  BY <1>8 DEF Numbered
<1>a. "left" \in Sides /\ "right" \in Sides /\ \A z \in Sides : z = "left" \/ z = "right"
  BY DEF Sides
\* the parent of d, when d has no child
<1>10. ASSUME NEW n \in V, NEW z \in Sides, Kid(u, z, n) = d, temp = Sentinel
       PROVE  Edge(b, z, n) = Toward(z, p) /\ At(pos, n) = Toward(Other(z), p)
  <2>1. Kid(u, z, d) = Sentinel /\ Kid(u, Other(z), d) = Sentinel /\ Other(z) \in Sides
    BY <1>10, <1>2, SideFacts
  <2>2. Edge(b, z, d) = Toward(z, p) /\ Edge(b, Other(z), d) = Toward(Other(z), p)
    BY <2>1, <1>5
  <2>3. Edge(b, z, d) = Edge(b, z, n) /\ Edge(b, Other(z), d) = At(pos, n)
    BY <1>3, <1>5, <1>10
  <2> QED
    BY <2>2, <2>3
<1>11. Meets(v, W, q)
  <2> SUFFICES ASSUME NEW n \in W, NEW m \in W, NEW z \in Sides, At(q, m) = Toward(z, At(q, n)),
                      Kid(v, z, n) = Sentinel, Kid(v, Other(z), m) = Sentinel
               PROVE  FALSE
    BY DEF Meets
  <2>0. Other(z) \in Sides /\ Other(Other(z)) = z /\ Other(z) # z /\ n \in V /\ m \in V
    BY SideFacts, <1>6
  <2>1. /\ Kid(u, z, n) = Sentinel \/ (Kid(u, z, n) = d /\ temp = Sentinel)
        /\ Kid(u, Other(z), m) = Sentinel \/ (Kid(u, Other(z), m) = d /\ temp = Sentinel)
    BY <2>0, <1>7
  <2>2. /\ At(pos, n) \in Nat /\ At(pos, m) \in Nat /\ At(pos, n) # p /\ At(pos, m) # p
        /\ At(q, m) = IF At(pos, m) < p THEN At(pos, m) ELSE At(pos, m) - 1
        /\ At(q, n) = IF At(pos, n) < p THEN At(pos, n) ELSE At(pos, n) - 1
    BY <2>0, <1>4, <1>6
  <2>3. \/ At(pos, m) = Toward(z, At(pos, n))
        \/ p = Toward(z, At(pos, n)) /\ At(pos, m) = Toward(z, p)
    <3>1. CASE z = "left"
      <4>1. At(q, m) = At(q, n) - 1
        BY <3>1 DEF Toward
      <4>2. At(pos, m) = At(pos, n) - 1 \/ (p = At(pos, n) - 1 /\ At(pos, m) = p - 1)
        BY <4>1, <2>2, <1>4
      <4> QED
        BY <4>2, <3>1 DEF Toward
    <3>2. CASE z = "right"
      <4>1. At(q, m) = At(q, n) + 1
        BY <3>2 DEF Toward, Sides
      <4>2. At(pos, m) = At(pos, n) + 1 \/ (p = At(pos, n) + 1 /\ At(pos, m) = p + 1)
        BY <4>1, <2>2, <1>4
      <4> QED
        BY <4>2, <3>2 DEF Toward, Sides
    <3> QED
      BY <3>1, <3>2, <1>a
  <2>4. CASE At(pos, m) = Toward(z, At(pos, n))
    <3>1. Kid(u, z, n) # d \/ temp # Sentinel
      <4> SUFFICES ASSUME Kid(u, z, n) = d, temp = Sentinel PROVE FALSE
        OBVIOUS
      <4>1. At(pos, n) = Toward(Other(z), p)
        BY <2>0, <1>10
      <4>2. At(pos, m) = p
        BY <4>1, <2>4, <1>4, <1>a DEF Toward, Other
      <4> QED
        BY <4>2, <2>2
    <3>2. Kid(u, Other(z), m) # d \/ temp # Sentinel
      <4> SUFFICES ASSUME Kid(u, Other(z), m) = d, temp = Sentinel PROVE FALSE
        OBVIOUS
      <4>1. At(pos, m) = Toward(z, p)
        BY <2>0, <1>10
      <4>2. At(pos, n) = p
        BY <4>1, <2>2, <2>4, <1>4, <1>a DEF Toward
      <4> QED
        BY <4>2, <2>2
    <3>3. Kid(u, z, n) = Sentinel /\ Kid(u, Other(z), m) = Sentinel
      BY <3>1, <3>2, <2>1
    <3>4. Kid(u, z, n) # Sentinel \/ Kid(u, Other(z), m) # Sentinel
      BY <2>0, <2>4 DEF Meets
    <3> QED
      BY <3>3, <3>4
  <2>5. CASE p = Toward(z, At(pos, n)) /\ At(pos, m) = Toward(z, p)
    <3>0. At(pos, d) = Toward(z, At(pos, n)) /\ At(pos, m) = Toward(z, At(pos, d))
      BY <2>5
    <3>1. Kid(u, z, n) # Sentinel \/ Kid(u, Other(z), d) # Sentinel
      BY <2>0, <3>0 DEF Meets
    <3>2. Kid(u, z, d) # Sentinel \/ Kid(u, Other(z), m) # Sentinel
      BY <2>0, <3>0 DEF Meets
    <3>3. k = z \/ k = Other(z)
      BY SideFacts
    <3>4. temp = Sentinel => Kid(u, z, d) = Sentinel /\ Kid(u, Other(z), d) = Sentinel
      BY <3>3, <2>0
    <3>5. Kid(u, z, n) = d /\ Kid(u, Other(z), m) = d
      BY <3>1, <3>2, <3>3, <3>4, <2>0, <2>1
    <3>6. n = m
      BY <3>5, <2>0, <1>3
    <3> QED
      BY <3>5, <3>6, <2>0, <1>3
  <2> QED
    BY <2>3, <2>4, <2>5
<1> DEFINE f(z, e) == IF e < p \/ (e = p /\ z = "right") THEN e ELSE e - 1
<1>12. PICK c : c = [z \in Sides |-> [m \in All |-> f(z, Edge(b, z, m))]]
  OBVIOUS
<1>13. \A z \in Sides, m \in V : Edge(c, z, m) = f(z, Edge(b, z, m))
  BY <1>3, <1>12 DEF Edge
<1>14. \A n \in W, z \in Sides : Edge(c, z, n) \in Nat
  <2> TAKE n \in W, z \in Sides
  <2>1. Edge(b, z, n) \in Nat /\ Edge(c, z, n) = f(z, Edge(b, z, n))
    BY <1>5, <1>6, <1>13
  <2> QED
    BY <2>1, <1>4
\* the child of d has the edges of d
<1>15. ASSUME temp # Sentinel, NEW z \in Sides PROVE Edge(c, z, temp) = f(z, Edge(b, z, d))
  <2>1. temp \in V /\ Edge(c, z, temp) = f(z, Edge(b, z, temp))
    BY <1>3, <1>13, <1>15
  <2>2. Edge(b, o, temp) = Edge(b, o, d) /\ Edge(b, k, temp) = p
    BY <1>2, <1>5, <1>15
  <2>3. CASE z = o
    BY <2>1, <2>2, <2>3
  <2>4. CASE z = k
    <3>1. Edge(b, k, d) = Toward(k, p)
      BY <1>5
    <3>2. f(k, p) = f(k, Toward(k, p))
      <4>1. CASE k = "left"
        BY <4>1, <1>4 DEF Toward
      <4>2. CASE k = "right"
        BY <4>2, <1>4 DEF Toward
      <4> QED
        BY <4>1, <4>2, <1>a
    <3> QED
      BY <3>1, <3>2, <2>1, <2>2, <2>4
  <2> QED
    BY <2>3, <2>4, <1>2
<1>16. \A n \in W, z \in Sides : f(z, At(pos, n)) = At(q, n)
  BY <1>4, <1>6
<1>17. W # {} => Edge(c, "left", Root(v)) = 0 /\ Edge(c, "right", Root(v)) = (N - 1) + 1
  <2> SUFFICES ASSUME NEW w \in W PROVE Edge(c, "left", Root(v)) = 0 /\ Edge(c, "right", Root(v)) = (N - 1) + 1
    OBVIOUS
  <2>1. f("left", 0) = 0 /\ f("right", N + 1) = (N - 1) + 1
    BY <1>4
  <2>2. CASE d # Root(u)
    BY <2>1, <2>2, <1>3, <1>5, <1>13, <1>a
  <2>3. CASE d = Root(u)
    <3>1. CASE temp # Sentinel
      BY <3>1, <2>1, <2>3, <1>5, <1>15, <1>a
    <3>2. CASE temp = Sentinel
      <4>1. Edge(b, k, d) = Toward(k, p) /\ Edge(b, o, d) = Toward(o, p)
        BY <3>2, <1>2, <1>5
      <4>2. 0 = p - 1 /\ N + 1 = p + 1
        <5>1. Edge(b, "left", d) = Toward("left", p) /\ Edge(b, "right", d) = Toward("right", p)
          BY <4>1, <1>2, <1>a
        <5> QED
          BY <5>1, <2>3, <1>5 DEF Toward
      <4>3. At(pos, w) = p
        BY <4>2, <1>4, <1>6
      <4> QED
        BY <4>3, <1>6
    <3> QED
      BY <3>1, <3>2
  <2> QED
    BY <2>2, <2>3
<1>18. ASSUME NEW n \in W, NEW z \in Sides
       PROVE  /\ Kid(v, z, n) # Sentinel =>
                   /\ Edge(c, z, Kid(v, z, n)) = Edge(c, z, n)
                   /\ Edge(c, Other(z), Kid(v, z, n)) = At(q, n)
              /\ Kid(v, z, n) = Sentinel => Edge(c, z, n) = Toward(z, At(q, n))
  <2>0. Other(z) \in Sides /\ n \in V /\ Edge(c, z, n) = f(z, Edge(b, z, n)) /\ f(Other(z), At(pos, n)) = At(q, n)
    BY <1>6, <1>13, <1>16, SideFacts
  <2>1. CASE Kid(u, z, n) = d
    <3>1. Kid(v, z, n) = temp /\ Edge(b, z, d) = Edge(b, z, n) /\ Edge(b, Other(z), d) = At(pos, n)
      BY <2>0, <2>1, <1>3, <1>5, <1>7
    <3>2. CASE temp # Sentinel
      <4>1. Edge(c, z, temp) = f(z, Edge(b, z, d)) /\ Edge(c, Other(z), temp) = f(Other(z), Edge(b, Other(z), d))
        BY <3>2, <2>0, <1>15
      <4> HIDE DEF f
      <4> QED
        BY <4>1, <3>1, <3>2, <2>0
    <3>3. CASE temp = Sentinel
      <4>1. Edge(b, z, n) = Toward(z, p) /\ At(pos, n) = Toward(Other(z), p)
        BY <3>3, <2>0, <2>1, <1>10
      <4>2. f(z, Toward(z, p)) = Toward(z, f(Other(z), Toward(Other(z), p)))
        <5>1. CASE z = "left"
          BY <5>1, <1>4 DEF Toward, Other
        <5>2. CASE z = "right"
          BY <5>2, <1>4 DEF Toward, Other
        <5> QED
          BY <5>1, <5>2, <1>a
      <4> HIDE DEF f
      <4> QED
        BY <4>1, <4>2, <3>1, <3>3, <2>0
    <3> QED
      BY <3>2, <3>3
  <2>2. CASE Kid(u, z, n) # d
    <3>1. Kid(v, z, n) = Kid(u, z, n)
      BY <2>2, <1>7
    <3>2. CASE Kid(u, z, n) # Sentinel
      <4> PICK e : e = Kid(u, z, n)
        OBVIOUS
      <4>1. e \in V /\ Edge(b, z, e) = Edge(b, z, n) /\ Edge(b, Other(z), e) = At(pos, n)
        BY <3>2, <2>0, <1>3, <1>5
      <4>2. Edge(c, z, e) = f(z, Edge(b, z, e)) /\ Edge(c, Other(z), e) = f(Other(z), Edge(b, Other(z), e))
        BY <4>1, <2>0, <1>13
      <4> HIDE DEF f
      <4> QED
        BY <4>1, <4>2, <3>1, <3>2, <2>0
    <3>3. CASE Kid(u, z, n) = Sentinel
      <4>1. Edge(b, z, n) = Toward(z, At(pos, n))
        BY <3>3, <2>0, <1>5
      <4>2. f(z, Toward(z, At(pos, n))) = Toward(z, At(q, n))
        <5>1. /\ At(pos, n) \in Nat /\ At(pos, n) # p
              /\ At(q, n) = IF At(pos, n) < p THEN At(pos, n) ELSE At(pos, n) - 1
          BY <2>0, <1>4, <1>6
        <5>2. CASE z = "left"
          BY <5>1, <5>2, <1>4 DEF Toward
        <5>3. CASE z = "right"
          BY <5>1, <5>3, <1>4 DEF Toward
        <5> QED
          BY <5>2, <5>3, <1>a
      <4> HIDE DEF f
      <4> QED
        BY <4>1, <4>2, <3>1, <3>3, <2>0
    <3> QED
      BY <3>2, <3>3
  <2> QED
    BY <2>1, <2>2
<1>19. Framed(v, W, q, N - 1, c)
  BY <1>14, <1>17, <1>18 DEF Framed
<1> QED
  BY <1>8, <1>11, <1>19 DEF InOrder

\* A tree with another name for a node has the order with the name exchanged.
LEMMA RenamedOrder ==
  ASSUME NEW u, NEW U, NEW mu, Linked(u, U), Falls(u, U, mu), U # {},
         NEW v, NEW V, NEW r, NEW x, Renamed(u, v, U, V, x, r),
         NEW pos, NEW N, InOrder(u, U, pos, N), NEW q, \A n \in U : At(q, At(r, n)) = At(pos, n)
  PROVE  InOrder(v, V, q, N)
<1> PICK b : Numbered(U, pos, N) /\ Meets(u, U, pos) /\ Framed(u, U, pos, N, b)
  BY DEF InOrder
<1>1. Sane(u, U)
  BY LinkedFacts
<1>2. /\ \A n \in U : At(r, n) \in V
      /\ \A n \in V : \E m \in U : At(r, m) = n
      /\ \A n \in U, m \in U : At(r, n) = At(r, m) => n = m
      /\ At(r, Sentinel) = Sentinel /\ Root(v) = At(r, Root(u))
      /\ \A n \in U, z \in Sides : Kid(v, z, At(r, n)) = At(r, Kid(u, z, n))
      /\ V \subseteq Nodes
  BY DEF Renamed
<1>3. /\ Root(u) \in U /\ Sentinel \notin V
      /\ \A n \in U, z \in Sides : Kid(u, z, n) \in U \cup {Sentinel}
  BY <1>1, <1>2, TreeAssumption DEF Sane, Linked
<1>4. \A n \in U, z \in Sides : Kid(v, z, At(r, n)) = Sentinel <=> Kid(u, z, n) = Sentinel
  BY <1>2, <1>3
<1>5. Numbered(V, q, N)
  <2>1. N \in Nat /\ \A n \in U : At(pos, n) \in 1 .. N
    BY DEF Numbered
  <2>2. \A n \in V : At(q, n) \in 1 .. N
    BY <2>1, <1>2
  <2>3. ASSUME NEW n \in V, NEW m \in V, At(q, n) = At(q, m) PROVE n = m
    <3>1. PICK i \in U, j \in U : At(r, i) = n /\ At(r, j) = m
      BY <1>2
    <3>2. At(pos, i) = At(pos, j)
      BY <3>1, <2>3
    <3> QED
      BY <3>1, <3>2 DEF Numbered
  <2> QED
    BY <2>1, <2>2, <2>3 DEF Numbered
<1>6. Meets(v, V, q)
  <2> SUFFICES ASSUME NEW n \in V, NEW m \in V, NEW z \in Sides, At(q, m) = Toward(z, At(q, n)),
                      Kid(v, z, n) = Sentinel, Kid(v, Other(z), m) = Sentinel
               PROVE  FALSE
    BY DEF Meets
  <2>1. PICK i \in U, j \in U : At(r, i) = n /\ At(r, j) = m
    BY <1>2
  <2>2. At(pos, j) = Toward(z, At(pos, i))
    BY <2>1
  <2>3. Other(z) \in Sides
    BY SideFacts
  <2> QED
    BY <2>1, <2>2, <2>3, <1>4 DEF Meets
<1> DEFINE back(n) == CHOOSE m \in U : At(r, m) = n
<1>7. \A m \in U : back(At(r, m)) = m
  BY <1>2
<1> PICK c : c = [z \in Sides |-> [n \in V |-> Edge(b, z, back(n))]]
  OBVIOUS
<1>8. \A z \in Sides, m \in U : Edge(c, z, At(r, m)) = Edge(b, z, m)
  BY <1>2, <1>7 DEF Edge
<1> HIDE DEF back
<1>9. Framed(v, V, q, N, c)
  <2>1. ASSUME NEW n \in V, NEW z \in Sides
        PROVE  /\ Edge(c, z, n) \in Nat
               /\ Kid(v, z, n) # Sentinel =>
                    /\ Edge(c, z, Kid(v, z, n)) = Edge(c, z, n)
                    /\ Edge(c, Other(z), Kid(v, z, n)) = At(q, n)
               /\ Kid(v, z, n) = Sentinel => Edge(c, z, n) = Toward(z, At(q, n))
    <3>1. PICK i \in U : At(r, i) = n
      BY <1>2
    <3>2. Other(z) \in Sides /\ Edge(c, z, n) = Edge(b, z, i) /\ At(q, n) = At(pos, i)
      BY <3>1, <1>8, SideFacts
    <3>3. Edge(b, z, i) \in Nat
      BY DEF Framed
    <3>4. CASE Kid(u, z, i) = Sentinel
      <4>1. Kid(v, z, n) = Sentinel /\ Edge(b, z, i) = Toward(z, At(pos, i))
        BY <3>1, <3>4, <1>4 DEF Framed
      <4> QED
        BY <4>1, <3>2, <3>3
    <3>5. CASE Kid(u, z, i) # Sentinel
      <4> PICK d : d = Kid(u, z, i)
        OBVIOUS
      <4>1. d \in U /\ Kid(v, z, n) = At(r, d)
        BY <3>1, <3>5, <1>2, <1>3
      <4>2. Edge(b, z, d) = Edge(b, z, i) /\ Edge(b, Other(z), d) = At(pos, i)
        BY <3>5 DEF Framed
      <4>3. Kid(v, z, n) # Sentinel
        BY <3>1, <3>5, <1>4
      <4>4. Edge(c, z, At(r, d)) = Edge(b, z, d) /\ Edge(c, Other(z), At(r, d)) = Edge(b, Other(z), d)
        BY <4>1, <3>2, <1>8
      <4> QED
        BY <4>1, <4>2, <4>3, <4>4, <3>2, <3>3
    <3> QED
      BY <3>4, <3>5
  <2>2. Edge(c, "left", Root(v)) = 0 /\ Edge(c, "right", Root(v)) = N + 1
    <3>1. "left" \in Sides /\ "right" \in Sides
      BY DEF Sides
    <3>2. Edge(b, "left", Root(u)) = 0 /\ Edge(b, "right", Root(u)) = N + 1
      BY DEF Framed
    <3> QED
      BY <3>1, <3>2, <1>2, <1>3, <1>8
  <2> QED
    BY <2>1, <2>2 DEF Framed
<1> QED
  BY <1>5, <1>6, <1>9 DEF InOrder

\* Every node of K gets the parent x.
WithParents(u, K, x) == [u EXCEPT !.parent = [n \in DOMAIN @ |-> IF n \in K THEN x ELSE @[n]]]

\* The children of a node get a new parent.
LEMMA ParentsWritten ==
  ASSUME NEW u \in Trees, NEW K, NEW x \in All, NEW v, v = WithParents(u, K, x)
  PROVE  /\ v \in Trees /\ Root(v) = Root(u) /\ SameKids(u, v) /\ SameReds(u, v)
         /\ \A m \in All : Parent(v, m) = IF m \in K THEN x ELSE Parent(u, m)
  BY DEF WithParents, Trees, SameKids, SameReds, Parent, IsRed, Root, Kid

\* c is u but for the parent of x, which is q
Reparented(u, c, x, q) ==
  /\ c \in Trees /\ Root(c) = Root(u) /\ SameKids(u, c) /\ SameReds(u, c)
  /\ \A m \in All : Parent(c, m) = IF m = x THEN q ELSE Parent(u, m)

\* new takes the place of node: c is u, where only the parent of x may differ
LEMMA TakesPlaceRenames ==
  ASSUME NEW u, NEW U, NEW mu, Linked(u, U), Falls(u, U, mu), NEW node \in U, NEW new \in Nodes \ U,
         NEW r, r = Renaming(node, new),
         NEW x \in (U \ {Root(u), node}) \cup {Sentinel}, NEW up \in U, Parent(u, x) = up,
         NEW c, Reparented(u, c, x, At(r, up)),
         NEW v, v = TakesPlace(c, node, new), NEW V, V = (U \ {node}) \cup {new}
  PROVE  /\ Renamed(u, v, U, V, x, r) /\ v \in Trees
         /\ Clean(u, U \cup {new}) => Clean(v, V \cup {node})
<1>1. Sane(u, U)
  BY LinkedFacts
<1>2. /\ U \subseteq All /\ Sentinel \notin U /\ Sentinel \in All /\ NULL \notin U /\ NULL \notin All
      /\ node \in All /\ new \in All /\ new # Sentinel /\ new \notin U /\ node # Sentinel /\ new # node
      /\ Root(u) \in U /\ Root(u) \in All /\ u \in Trees
      /\ \A n \in U, z \in Sides :
           /\ Kid(u, z, n) \in (U \ {Root(u)}) \cup {Sentinel}
           /\ Kid(u, z, n) \in All /\ Kid(u, z, n) # n
           /\ Kid(u, z, n) # Sentinel => Parent(u, Kid(u, z, n)) = n
      /\ \A n \in U \ {Root(u)} : Parent(u, n) \in U /\ Parent(u, n) # n
      /\ \A n \in U, z \in Sides : Kid(u, z, n) = Kid(u, Other(z), n) => Kid(u, z, n) = Sentinel
  BY <1>1, TreeAssumption DEF Sane, All
<1>3. /\ \A n \in All \cup {NULL} : At(r, n) = IF n = node THEN new ELSE n
      /\ At(r, node) = new
  BY <1>2 DEF At, Renaming
<1>4. "left" \in Sides /\ "right" \in Sides /\ \A z \in Sides : z = "left" \/ z = "right"
  BY DEF Sides
<1>5. /\ c \in Trees /\ Root(c) = Root(u)
      /\ \A m \in All : Parent(c, m) = IF m = x THEN At(r, up) ELSE Parent(u, m)
      /\ \A m \in All, z \in Sides : Kid(c, z, m) = Kid(u, z, m)
      /\ \A m : IsRed(c, m) <=> IsRed(u, m)
  BY DEF Reparented, SameKids, SameReds
<1> PICK left, right, p : left = Kid(u, "left", node) /\ right = Kid(u, "right", node) /\ p = Parent(u, node)
  OBVIOUS
<1>6. left \in All /\ right \in All /\ p \in All \cup {NULL} /\ Parent(c, node) = p /\ x # node /\ x \in All
  <2>1. p \in All \cup {NULL}
    BY <1>2 DEF Trees, Parent
  <2>2. Parent(c, node) = p
    BY <1>2, <1>5
  <2> QED
    BY <2>1, <2>2, <1>2, <1>4
<1> DEFINE held == WithKids(c, new, Kid(c, "left", node), Kid(c, "right", node))
<1> DEFINE hung == WithParent(held, new, Parent(c, node))
<1> DEFINE moved == MadeLike(hung, new, node)
<1> DEFINE placed == Replaced(moved, node, new)
<1> DEFINE kids == {Kid(placed, z, new) : z \in Sides} \ {Sentinel}
<1>7. v = WithParents(placed, kids, new)
  BY DEF TakesPlace, WithParents, Kid, Parent
<1>8. /\ held \in Trees /\ Root(held) = Root(u) /\ SameParents(c, held) /\ SameReds(c, held)
      /\ \A m \in All, z \in Sides : Kid(held, z, m) = IF m = new THEN Kid(u, z, node) ELSE Kid(u, z, m)
  <2>1. Kid(c, "left", node) = left /\ Kid(c, "right", node) = right
    BY <1>2, <1>4, <1>5
  <2>2. held = WithKids(c, new, left, right)
    BY <2>1
  <2>3. KidsAre(c, held, new, left, right)
    BY <2>2, <1>2, <1>5, <1>6, KidsWritten
  <2> HIDE DEF held
  <2> QED
    BY <2>3, <1>4, <1>5 DEF KidsAre
<1> HIDE DEF held
<1>9. /\ hung \in Trees /\ Root(hung) = Root(u) /\ SameKids(held, hung) /\ SameReds(c, hung)
      /\ \A m \in All : Parent(hung, m) = IF m = new THEN p ELSE Parent(c, m)
  <2>1. ParentIs(held, hung, new, p)
    BY <1>2, <1>6, <1>8, ParentWritten
  <2> HIDE DEF hung
  <2> QED
    BY <2>1, <1>8 DEF ParentIs, SameReds, SameParents
<1> HIDE DEF hung
<1>10. /\ moved \in Trees /\ Root(moved) = Root(u) /\ SameKids(hung, moved) /\ SameParents(hung, moved)
       /\ \A m \in All : IsRed(moved, m) <=> (m = new /\ IsRed(u, node)) \/ (m # new /\ IsRed(u, m))
  <2>1. LikeIs(hung, moved, new, node)
    BY <1>2, <1>9, ColourWritten
  <2> HIDE DEF moved
  <2> QED
    BY <2>1, <1>5, <1>9 DEF LikeIs, Repainted, SameReds
<1>11. /\ \A m \in All, z \in Sides : Kid(moved, z, m) = IF m = new THEN Kid(u, z, node) ELSE Kid(u, z, m)
       /\ \A m \in All : Parent(moved, m) = IF m = new THEN p ELSE Parent(c, m)
  BY <1>8, <1>9, <1>10 DEF SameKids, SameParents
<1> HIDE DEF moved
<1>12. /\ placed \in Trees /\ SameReds(moved, placed) /\ SameParents(moved, placed)
       /\ Root(placed) = IF node = Root(u) THEN new ELSE Root(u)
       /\ \A m \in All \ {new}, z \in Sides :
            Kid(placed, z, m) = IF m \in U /\ Kid(u, z, m) = node THEN new ELSE Kid(u, z, m)
       /\ \A z \in Sides : Kid(placed, z, new) = Kid(u, z, node)
  <2>1. CASE node = Root(u)
    <3>1. placed = [moved EXCEPT !.root = new]
      BY <2>1, <1>10 DEF Replaced, Root
    <3>2. RootIs(moved, placed, new)
      BY <3>1, <1>2, <1>10, RootWritten
    <3> HIDE DEF placed
    <3> QED
      BY <3>2, <2>1, <1>2, <1>11 DEF RootIs, SameKids
  <2>2. CASE node # Root(u)
    <3> PICK s : s = SideOf(moved, node)
      OBVIOUS
    <3>1. p \in U /\ p # node /\ p # new /\ Parent(moved, node) = p /\ p \in All
      BY <2>2, <1>2, <1>6, <1>11
    <3>2. s \in Sides
      BY DEF SideOf, Sides
    <3>3. placed = WithKid(moved, s, p, new)
      BY <3>1, <2>2, <1>10 DEF Replaced, Root, Parent
    <3>4. KidIs(moved, placed, s, p, new)
      BY <3>1, <3>2, <3>3, <1>2, <1>10, KidWritten
    <3>5. Kid(u, s, p) = node
      <4>1. Kid(moved, "left", p) = Kid(u, "left", p)
        BY <3>1, <1>4, <1>11
      <4>2. s = IF node = Kid(moved, "left", p) THEN "left" ELSE "right"
        BY <3>1 DEF SideOf, Kid, Parent
      <4>3. \E z \in Sides : Kid(u, z, p) = node
        BY <2>2 DEF Linked
      <4> QED
        BY <4>1, <4>2, <4>3, <1>4
    <3>6. \A m \in U, z \in Sides : Kid(u, z, m) = node <=> m = p /\ z = s
      <4> SUFFICES ASSUME NEW m \in U, NEW z \in Sides, Kid(u, z, m) = node PROVE m = p /\ z = s
        BY <3>5
      <4>1. m = p
        BY <1>2
      <4>2. z = s \/ z = Other(s)
        BY <3>2, SideFacts
      <4> QED
        BY <4>1, <4>2, <3>1, <3>2, <3>5, <1>2
    <3> HIDE DEF placed
    <3>7. \A m \in All \ {new}, z \in Sides :
            Kid(placed, z, m) = IF m \in U /\ Kid(u, z, m) = node THEN new ELSE Kid(u, z, m)
      BY <3>1, <3>4, <3>6, <1>11 DEF KidIs
    <3>8. \A z \in Sides : Kid(placed, z, new) = Kid(u, z, node)
      BY <3>1, <3>4, <1>2, <1>11 DEF KidIs
    <3> QED
      BY <3>4, <3>7, <3>8, <2>2, <1>10 DEF KidIs
  <2> QED
    BY <2>1, <2>2
<1>13. /\ v \in Trees /\ Root(v) = Root(placed) /\ SameKids(placed, v) /\ SameReds(placed, v)
       /\ \A m \in All : Parent(v, m) = IF m \in kids THEN new ELSE Parent(placed, m)
  <2> HIDE DEF placed, kids
  <2> QED
    BY <1>2, <1>7, <1>12, ParentsWritten
<1>14. \A n : n \in kids <=> n # Sentinel /\ \E z \in Sides : Kid(u, z, node) = n
  BY <1>12
<1> HIDE DEF placed, kids
<1>15. ASSUME NEW n \in U, NEW z \in Sides PROVE Kid(v, z, At(r, n)) = At(r, Kid(u, z, n))
  <2>1. Kid(u, z, n) \in All /\ n \in All /\ n # new
    BY <1>2
  <2>2. CASE n = node
    <3>1. Kid(v, z, At(r, n)) = Kid(u, z, node)
      BY <2>2, <1>3, <1>12, <1>13 DEF SameKids
    <3>2. At(r, Kid(u, z, node)) = Kid(u, z, node)
      BY <2>1, <2>2, <1>2, <1>3
    <3> QED
      BY <3>1, <3>2, <2>2
  <2>3. CASE n # node
    <3>1. Kid(v, z, At(r, n)) = IF Kid(u, z, n) = node THEN new ELSE Kid(u, z, n)
      BY <2>1, <2>3, <1>3, <1>12, <1>13 DEF SameKids
    <3> QED
      BY <3>1, <2>1, <1>3
  <2> QED
    BY <2>2, <2>3
<1>16. ASSUME NEW n \in (U \ {Root(u)}) \cup {x} PROVE Parent(v, At(r, n)) = At(r, Parent(u, n))
  <2>1. n \in All /\ n # new
    BY <1>2, <1>6
  <2>2. Parent(u, n) \in U
    BY <1>2
  <2>3. \A m \in All : Parent(v, m) = IF m \in kids THEN new ELSE IF m = new THEN p ELSE Parent(c, m)
    BY <1>11, <1>12, <1>13 DEF SameParents
  <2>4. CASE n = node
    <3>1. node # Root(u) /\ new \notin kids /\ p # node /\ p \in All
      BY <2>1, <2>2, <2>4, <1>2, <1>6, <1>14
    <3> QED
      BY <3>1, <2>3, <2>4, <1>2, <1>3
  <2>5. CASE n # node /\ n \in kids
    <3>1. Parent(u, n) = node
      BY <2>5, <1>2, <1>14
    <3> QED
      BY <3>1, <2>1, <2>3, <2>5, <1>3
  <2>6. CASE n # node /\ n \notin kids /\ n = x
    BY <2>1, <2>3, <2>6, <1>3, <1>5
  <2>7. CASE n # node /\ n \notin kids /\ n # x
    <3>1. Parent(u, n) # node
      <4>1. n \in U \ {Root(u)} /\ n # Sentinel
        BY <2>7, <1>2
      <4>2. \E z \in Sides : Kid(u, z, Parent(u, n)) = n
        BY <4>1 DEF Linked
      <4> QED
        BY <4>1, <4>2, <2>7, <1>14
    <3> QED
      BY <3>1, <2>1, <2>2, <2>3, <2>7, <1>2, <1>3, <1>5
  <2> QED
    BY <2>4, <2>5, <2>6, <2>7
<1>17. ASSUME NEW n \in U \cup {Sentinel} PROVE IsRed(v, At(r, n)) <=> IsRed(u, n)
  <2>1. \A m \in All : IsRed(v, m) <=> (m = new /\ IsRed(u, node)) \/ (m # new /\ IsRed(u, m))
    BY <1>10, <1>12, <1>13 DEF SameReds
  <2>2. n \in All /\ n # new
    BY <1>2
  <2> QED
    BY <2>1, <2>2, <1>2, <1>3
<1>18. Root(v) = At(r, Root(u))
  BY <1>2, <1>3, <1>12, <1>13
<1>19. /\ V \subseteq Nodes
       /\ \A n \in U : At(r, n) \in V
       /\ \A n \in V : \E m \in U : At(r, m) = n
       /\ \A n \in U, m \in U : At(r, n) = At(r, m) => n = m
       /\ At(r, Sentinel) = Sentinel /\ At(r, NULL) = NULL
  <2>1. U \subseteq Nodes
    BY <1>1 DEF Sane
  <2> QED
    BY <2>1, <1>2, <1>3
<1>20. Renamed(u, v, U, V, x, r)
  BY <1>13, <1>15, <1>16, <1>17, <1>18, <1>19 DEF Renamed
<1>21. Clean(u, U \cup {new}) => Clean(v, V \cup {node})
  <2> SUFFICES ASSUME Clean(u, U \cup {new}), NEW n \in Nodes \ (V \cup {node}), NEW z \in Sides
               PROVE  Kid(v, z, n) = NULL
    BY DEF Clean
  <2>1. n \in Nodes \ (U \cup {new}) /\ n \in All \ {new}
    BY DEF All
  <2>2. Kid(v, z, n) = Kid(u, z, n)
    BY <2>1, <1>12, <1>13 DEF SameKids
  <2> QED
    BY <2>1, <2>2 DEF Clean
<1> QED
  BY <1>13, <1>20, <1>21

\* The statements that cut a node off, one after the other.
LEMMA CutAs ==
  ASSUME NEW u \in Trees, NEW s \in Sides, NEW up \in All, NEW temp \in All, NEW q \in All,
         NEW v, v = WithParent(WithKid(u, s, up, temp), temp, q)
  PROVE  Cut(u, v, s, up, temp, q)
<1> PICK w : w = WithKid(u, s, up, temp)
  OBVIOUS
<1>1. KidIs(u, w, s, up, temp)
  BY KidWritten
<1>2. w \in Trees
  BY <1>1 DEF KidIs
<1>3. ParentIs(w, v, temp, q)
  BY <1>2, ParentWritten
<1> QED
  BY <1>1, <1>3 DEF Cut, KidIs, ParentIs, SameKids, SameParents, SameReds

\* what a delete leaves to its fixup
Unlinks(u, V, node, subst, temp, gone) ==
  /\ Clean(gone, V \ {node})
  /\ IsRed(u, subst) => Firm(gone, V \ {node})
  /\ ~ IsRed(u, subst) => \E h, p, s : Short(gone, V \ {node}, temp, h, p, s)

\* a node below another is the child on one side of its parent alone
LEMMA HeldOnce ==
  ASSUME NEW u, NEW V, Sane(u, V), NEW d \in V \ {Root(u)}, NEW s \in Sides, Kid(u, s, Parent(u, d)) = d,
         NEW n \in V, NEW z \in Sides
  PROVE  Kid(u, z, n) = d <=> n = Parent(u, d) /\ z = s
<1>1. Kid(u, z, n) = d => n = Parent(u, d)
  BY DEF Sane
<1>2. z = s \/ z = Other(s)
  BY SideFacts
<1> QED
  BY <1>1, <1>2 DEF Sane

\* The node of a delete has one child at most, and leaves its place to it.
LEMMA UnlinkedSelf ==
  ASSUME NEW u, NEW V, Sound(u, V), NEW node \in V \ {Root(u)},
         NEW k \in Sides, Kid(u, k, node) = Sentinel, NEW temp, temp = Kid(u, Other(k), node)
  PROVE  /\ Unlinks(u, V, node, node, temp, Cleared(Unlinked(u, node, node, temp), node))
         /\ Removes(u, Cleared(Unlinked(u, node, node, temp), node), V, node)
<1> PICK mu : Linked(u, V) /\ Falls(u, V, mu)
  BY DEF Sound, Tree
<1>1. Sane(u, V)
  BY LinkedFacts
<1>a. PICK up, s, W : up = Parent(u, node) /\ s = SideOf(u, node) /\ W = V \ {node}
  OBVIOUS
<1>2. s \in Sides /\ Kid(u, s, up) = node
  BY <1>a, SideTrue
<1>3. up \in All /\ temp \in All /\ u \in Trees
  BY <1>1, <1>a, SideFacts DEF Sane
<1>b. PICK v : v = WithParent(WithKid(u, s, up, temp), temp, up)
  OBVIOUS
<1>4. Cut(u, v, s, up, temp, up)
  BY <1>2, <1>3, <1>b, CutAs
<1>5. Unlinked(u, node, node, temp) = v
  BY <1>a, <1>b DEF Unlinked, Parent
<1>6. /\ IsRed(u, node) => Firm(v, W)
      /\ ~ IsRed(u, node) => \E h : Short(v, W, temp, h, up, s)
      /\ Clean(v, V)
  BY <1>2, <1>4, <1>a, CutKeeps
<1>7. node \in Nodes \ W /\ v \in Trees /\ W \cup {node} = V
  BY <1>1, <1>4, <1>a DEF Sane, Cut
<1> PICK gone : gone = Cleared(v, node)
  OBVIOUS
<1>8. /\ Firm(v, W) => Firm(gone, W)
      /\ \A x, h, p, z : Short(v, W, x, h, p, z) => Short(gone, W, x, h, p, z)
      /\ Clean(v, W \cup {node}) => Clean(gone, W)
      /\ Moves(v, gone, W)
  <2>1. W \subseteq Nodes
    BY <1>1, <1>a DEF Sane
  <2> QED
    BY <2>1, <1>7, ClearedKeeps
<1>9. Removes(u, v, V, node)
  <2>1. Root(v) = IF node = Root(u) THEN temp ELSE Root(u)
    BY <1>4 DEF Cut
  <2>2. \A n \in V \ {node}, z \in Sides : Kid(v, z, n) = IF Kid(u, z, n) = node THEN temp ELSE Kid(u, z, n)
    <3> TAKE n \in V \ {node}, z \in Sides
    <3>1. Kid(v, z, n) = IF n = up /\ z = s THEN temp ELSE Kid(u, z, n)
      BY <1>1, <1>4 DEF Cut, Sane
    <3>2. Kid(u, z, n) = node <=> n = up /\ z = s
      BY <1>1, <1>2, <1>a, HeldOnce
    <3> QED
      BY <3>1, <3>2
  <2> QED
    BY <2>1, <2>2, CutOrder
<1>10. Removes(u, gone, V, node)
  BY <1>8, <1>9, <1>a, RemovesOn
<1> QED
  BY <1>5, <1>6, <1>7, <1>8, <1>10, <1>a DEF Unlinks

(***************************************************************************)
(* The node of a delete has two children: the least node above it leaves   *)
(* its place to its right child, and takes the place of the node.          *)
(***************************************************************************)
LEMMA UnlinkedOther ==
  ASSUME NEW u, NEW V, Sound(u, V), NEW subst \in V \ {Root(u)}, NEW node \in V, node # subst,
         NEW k \in Sides, Kid(u, k, subst) = Sentinel, NEW temp, temp = Kid(u, Other(k), subst),
         temp # node
  PROVE  /\ Unlinks(u, V, node, subst, temp, Cleared(Unlinked(u, node, subst, temp), node))
         /\ Follows(u, V, node, subst) =>
              Removes(u, Cleared(Unlinked(u, node, subst, temp), node), V, node)
<1> PICK mu : Linked(u, V) /\ Falls(u, V, mu)
  BY DEF Sound, Tree
<1>1. Sane(u, V)
  BY LinkedFacts
<1>a. PICK up, s, U, W : up = Parent(u, subst) /\ s = SideOf(u, subst) /\ U = V \ {subst} /\ W = V \ {node}
  OBVIOUS
<1>b. PICK r : r = Renaming(node, subst)
  OBVIOUS
<1>2. s \in Sides /\ Kid(u, s, up) = subst
  BY <1>a, SideTrue
<1>3. /\ up \in All /\ temp \in All /\ u \in Trees /\ subst \in Nodes \ U /\ node \in U /\ up \in U
      /\ temp # Root(u) \/ temp = Sentinel
      /\ Sentinel \notin V /\ subst \in All /\ Root(u) \in U /\ Root(u) # Sentinel
  BY <1>1, <1>a, SideFacts DEF Sane
<1>c. PICK q : q = IF up = node THEN subst ELSE up
  OBVIOUS
<1>4. q \in All /\ q = At(r, up)
  BY <1>3, <1>b, <1>c DEF At, Renaming
<1>d. PICK b, c : /\ b = WithParent(WithKid(u, s, up, temp), temp, up)
                /\ c = WithParent(WithKid(u, s, up, temp), temp, q)
  OBVIOUS
<1>5. Cut(u, b, s, up, temp, up)
  BY <1>2, <1>3, <1>d, CutAs
<1>6. /\ IsRed(u, subst) => Firm(b, U)
      /\ ~ IsRed(u, subst) => \E h : Short(b, U, temp, h, up, s)
      /\ Clean(b, V) /\ temp \in U \cup {Sentinel}
  BY <1>2, <1>5, <1>a, CutKeeps
<1>7. Tree(b, U)
  BY <1>6 DEF Firm, Short
<1> PICK nu : Linked(b, U) /\ Falls(b, U, nu)
  BY <1>7 DEF Tree
<1>8. Root(b) = Root(u) /\ Parent(b, temp) = up
  BY <1>3, <1>5 DEF Cut
<1>9. /\ c \in Trees /\ Root(c) = Root(u) /\ SameReds(u, c)
      /\ \A m \in All, z \in Sides : Kid(c, z, m) = IF m = up /\ z = s THEN temp ELSE Kid(u, z, m)
      /\ \A m \in All : Parent(c, m) = IF m = temp THEN q ELSE Parent(u, m)
  <2>1. Cut(u, c, s, up, temp, q)
    BY <1>2, <1>3, <1>4, <1>d, CutAs
  <2> QED
    BY <2>1 DEF Cut
<1>10. /\ Root(c) = Root(b) /\ SameReds(b, c)
       /\ \A m \in All : Parent(c, m) = IF m = temp THEN At(r, up) ELSE Parent(b, m)
  BY <1>4, <1>5, <1>9 DEF Cut, SameReds
<1>11. SameKids(b, c)
  <2> PICK a : a = WithKid(u, s, up, temp)
    OBVIOUS
  <2>1. KidIs(u, a, s, up, temp)
    BY <1>2, <1>3, KidWritten
  <2>2. a \in Trees
    BY <2>1 DEF KidIs
  <2>3. ParentIs(a, b, temp, up) /\ ParentIs(a, c, temp, q)
    BY <2>2, <1>3, <1>4, <1>d, ParentWritten
  <2> QED
    BY <2>3 DEF ParentIs, SameKids
<1>e. PICK v : v = TakesPlace(c, node, subst)
  OBVIOUS
<1>12. Unlinked(u, node, subst, temp) = v
  BY <1>a, <1>c, <1>d, <1>e DEF Unlinked, Parent
<1>13. W = (U \ {node}) \cup {subst} /\ U \cup {subst} = V /\ W \cup {node} = V /\ node \in Nodes \ W
  BY <1>1, <1>3, <1>a DEF Sane
<1>14. /\ Renamed(b, v, U, W, temp, r) /\ v \in Trees
       /\ Clean(b, V) => Clean(v, V)
  <2>1. temp \in (U \ {Root(b), node}) \cup {Sentinel}
    BY <1>3, <1>6, <1>8
  <2>2. Reparented(b, c, temp, At(r, up))
    BY <1>9, <1>10, <1>11 DEF Reparented
  <2>3. /\ Renamed(b, v, U, W, temp, r) /\ v \in Trees
        /\ Clean(b, U \cup {subst}) => Clean(v, W \cup {node})
    <3>1. r = Renaming(node, subst) /\ v = TakesPlace(c, node, subst) /\ W = (U \ {node}) \cup {subst}
      BY <1>13, <1>b, <1>e
    <3>2. node \in U /\ subst \in Nodes \ U /\ up \in U /\ Parent(b, temp) = up
      BY <1>3, <1>8
    <3> QED
      BY <2>1, <2>2, <3>1, <3>2, TakesPlaceRenames
  <2> QED
    BY <2>3, <1>13
<1>15. /\ Firm(b, U) => Firm(v, W)
       /\ \A h, p, z : Short(b, U, temp, h, p, z) => \E g : Short(v, W, At(r, temp), g, At(r, p), z)
  <2>1. temp # Root(b)
    BY <1>3, <1>8
  <2> QED
    BY <2>1, <1>6, <1>7, <1>14, RenamedKeeps
<1>16. At(r, temp) = temp
  BY <1>3, <1>b, <1>c DEF At, Renaming
<1> PICK gone : gone = Cleared(v, node)
  OBVIOUS
<1>17. /\ Firm(v, W) => Firm(gone, W)
       /\ \A x, h, p, z : Short(v, W, x, h, p, z) => Short(gone, W, x, h, p, z)
       /\ Clean(v, W \cup {node}) => Clean(gone, W)
       /\ Moves(v, gone, W)
  <2>1. W \subseteq Nodes
    BY <1>1, <1>a DEF Sane
  <2> QED
    BY <2>1, <1>13, <1>14, ClearedKeeps
<1>18. Clean(gone, W)
  BY <1>6, <1>13, <1>14, <1>17
<1>19. IsRed(u, subst) => Firm(gone, W)
  BY <1>6, <1>15, <1>17
<1>20. ~ IsRed(u, subst) => \E h, p, z : Short(gone, W, temp, h, p, z)
  BY <1>6, <1>15, <1>16, <1>17
<1>21. Removes(u, b, V, subst)
  <2>1. Root(b) = IF subst = Root(u) THEN temp ELSE Root(u)
    BY <1>8
  <2>2. \A n \in V \ {subst}, z \in Sides : Kid(b, z, n) = IF Kid(u, z, n) = subst THEN temp ELSE Kid(u, z, n)
    <3> TAKE n \in V \ {subst}, z \in Sides
    <3>1. Kid(b, z, n) = IF n = up /\ z = s THEN temp ELSE Kid(u, z, n)
      BY <1>1, <1>5 DEF Cut, Sane
    <3>2. Kid(u, z, n) = subst <=> n = up /\ z = s
      BY <1>1, <1>2, <1>a, HeldOnce
    <3> QED
      BY <3>1, <3>2
  <2> QED
    BY <2>1, <2>2, CutOrder
<1>22. ASSUME Follows(u, V, node, subst) PROVE Removes(u, v, V, node)
  <2> SUFFICES ASSUME NEW pos, NEW N, NEW order, InOrder(u, V, pos, N), Dropped(V, pos, node, order)
               PROVE  InOrder(v, V \ {node}, order, N - 1)
    BY DEF Removes
  <2>1. At(pos, subst) = At(pos, node) + 1
    BY <1>22 DEF Follows
  <2>2. /\ \A n \in V : At(pos, n) \in Nat
        /\ \A n, m \in V : At(pos, n) = At(pos, m) => n = m
    BY DEF InOrder, Numbered
  <2> PICK f : f = [m \in All |-> IF m = node THEN At(pos, node) ELSE At(order, m)]
    OBVIOUS
  <2>3. \A m \in V : At(f, m) = IF m = node THEN At(pos, node) ELSE At(order, m)
    BY <1>1 DEF At, Sane
  <2>4. Dropped(V, pos, subst, f)
    <3> SUFFICES ASSUME NEW m \in V \ {subst}
                 PROVE  At(f, m) = IF At(pos, m) < At(pos, subst) THEN At(pos, m) ELSE At(pos, m) - 1
      BY DEF Dropped
    <3>1. CASE m = node
      BY <3>1, <2>1, <2>2, <2>3
    <3>2. CASE m # node
      <4>1. At(f, m) = IF At(pos, m) < At(pos, node) THEN At(pos, m) ELSE At(pos, m) - 1
        BY <3>2, <2>3 DEF Dropped
      <4>2. At(pos, m) # At(pos, node) /\ At(pos, m) # At(pos, subst)
        BY <3>2, <2>2
      <4> QED
        BY <4>1, <4>2, <2>1, <2>2
    <3> QED
      BY <3>1, <3>2
  <2>5. InOrder(b, U, f, N - 1)
    BY <2>4, <1>21, <1>a DEF Removes
  <2>6. \A n \in U : At(order, At(r, n)) = At(f, n)
    <3> TAKE n \in U
    <3>1. n \in V /\ n # subst /\ n \in All
      BY <1>1, <1>a DEF Sane
    <3>2. CASE n = node
      <4>1. At(r, n) = subst
        BY <3>1, <3>2, <1>b DEF At, Renaming
      <4>2. At(order, subst) = At(pos, subst) - 1
        BY <2>1, <2>2 DEF Dropped
      <4> QED
        BY <4>1, <4>2, <3>1, <3>2, <2>1, <2>2, <2>3
    <3>3. CASE n # node
      <4>1. At(r, n) = n
        BY <3>1, <3>3, <1>b DEF At, Renaming
      <4> QED
        BY <4>1, <3>1, <3>3, <2>3
    <3> QED
      BY <3>2, <3>3
  <2>7. InOrder(v, W, order, N - 1)
    BY <2>5, <2>6, <1>3, <1>14, RenamedOrder
  <2> QED
    BY <2>7, <1>a
<1>23. Follows(u, V, node, subst) => Removes(u, gone, V, node)
  BY <1>17, <1>22, <1>a, RemovesOn
<1> QED
  BY <1>12, <1>18, <1>19, <1>20, <1>23, <1>a DEF Unlinks

\* the root with a child at most leaves the tree
LEMMA RootUnlinked ==
  ASSUME NEW u, NEW V, Sound(u, V), NEW d \in V, d = Root(u),
         NEW k \in Sides, Kid(u, k, d) = Sentinel, NEW temp, temp = Kid(u, Other(k), d),
         NEW v, v = [u EXCEPT !.root = temp], NEW W, W = V \ {d}
  PROVE  Clean(v, V) /\ v \in Trees /\ Removes(u, v, V, d) /\ \E h : Short(v, W, temp, h, NULL, "left")
<1> PICK h : Level(u, V, h)
  BY DEF Sound
<1> PICK nu : Falls(u, V, nu) /\ \A n \in V : At(nu, n) <= 2 * Cardinality(V) + 1
  BY SoundFalls
<1>0. Linked(u, V)
  BY DEF Sound, Tree
<1>1. Sane(u, V)
  BY <1>0, LinkedFacts
<1>2. Other(k) \in Sides /\ \A z \in Sides : z = k \/ z = Other(k)
  BY SideFacts
<1>3. /\ u \in Trees /\ temp \in All /\ Sentinel \notin V /\ V \subseteq All /\ d # Sentinel
      /\ V \subseteq Nodes /\ temp \in W \cup {Sentinel} /\ NULL \notin V /\ Sentinel \in All
      /\ \A n \in V, z \in Sides :
           /\ Kid(u, z, n) \in (V \ {d}) \cup {Sentinel}
           /\ Kid(u, z, n) \in All
           /\ Kid(u, z, n) # Sentinel => Parent(u, Kid(u, z, n)) = n
      /\ \A n \in V \ {d} : Parent(u, n) \in V
  BY <1>1, <1>2 DEF Sane
<1>4. RootIs(u, v, temp)
  BY <1>3, RootWritten
<1>5. /\ v \in Trees /\ Root(v) = temp
      /\ \A z, n : Kid(v, z, n) = Kid(u, z, n)
      /\ \A n : Parent(v, n) = Parent(u, n)
      /\ \A n : IsRed(v, n) <=> IsRed(u, n)
  BY <1>4 DEF RootIs, SameKids, SameParents, SameReds
<1>6. W # {} => temp # Sentinel
  <2> SUFFICES ASSUME W # {}, temp = Sentinel PROVE FALSE
    OBVIOUS
  <2>1. \A n \in V : At(nu, n) \in Nat
    BY <1>3 DEF Falls, Counted
  <2> PICK most : most = 2 * Cardinality(V) + 1
    OBVIOUS
  <2>2. most \in Nat
    BY <1>3, MostFacts
  <2> DEFINE T == {most - At(nu, n) : n \in W}
  <2>3. T \subseteq Nat /\ T # {}
    BY <2>1, <2>2
  <2> HIDE DEF T
  <2>4. PICK a \in T : \A b \in T : a <= b
    BY <2>3, LeastElement
  <2>5. PICK n \in W : a = most - At(nu, n)
    BY DEF T
  <2>6. n \in V \ {Root(u)} /\ n \in V
    OBVIOUS
  <2>7. Parent(u, n) \in V /\ \E z \in Sides : Kid(u, z, Parent(u, n)) = n
    BY <2>6, <1>0 DEF Linked
  <2>8. PICK z \in Sides : Kid(u, z, Parent(u, n)) = n
    BY <2>7
  <2>9. Parent(u, n) # d
    BY <2>6, <2>8, <1>2, <1>3
  <2>10. At(nu, n) < At(nu, Parent(u, n))
    BY <2>6, <2>7, <2>8, <1>3 DEF Falls
  <2>11. most - At(nu, Parent(u, n)) \in T
    BY <2>7, <2>9 DEF T
  <2> QED
    BY <2>1, <2>2, <2>4, <2>5, <2>6, <2>7, <2>10, <2>11
<1>7. Linked(v, W)
  <2>1. Root(v) \in W \/ (W = {} /\ Root(v) = Sentinel)
    BY <1>3, <1>5, <1>6
  <2>2. ~ IsRed(v, Sentinel)
    BY <1>1, <1>5 DEF Sane
  <2>3. \A n \in W, s \in Sides : Kid(u, s, n) # temp \/ temp = Sentinel
    BY <1>2, <1>3
  <2>4. \A n \in W, s \in Sides : /\ Kid(v, s, n) \in (W \ {Root(v)}) \cup {Sentinel}
                                  /\ Kid(v, s, n) # Sentinel => Parent(v, Kid(v, s, n)) = n
    BY <2>3, <1>3, <1>5
  <2>5. ASSUME NEW n \in W \ {Root(v)} PROVE Parent(v, n) \in W /\ \E s \in Sides : Kid(v, s, Parent(v, n)) = n
    <3>1. n \in V \ {Root(u)} /\ n # temp /\ n # Sentinel
      BY <1>3, <1>5
    <3>2. Parent(u, n) \in V /\ \E s \in Sides : Kid(u, s, Parent(u, n)) = n
      BY <3>1, <1>0 DEF Linked
    <3>3. Parent(u, n) # d
      BY <3>1, <3>2, <1>2
    <3> QED
      BY <3>2, <3>3, <1>5
  <2>6. \A n \in W : Kid(v, "left", n) = Kid(v, "right", n) => Kid(v, "left", n) = Sentinel
    BY <1>0, <1>5 DEF Linked
  <2> QED
    BY <2>1, <2>2, <2>4, <2>5, <2>6, <1>3, <1>5 DEF Linked
<1>8. Falls(v, W, nu)
  BY <1>5 DEF Falls
<1>9. Clean(v, V)
  BY <1>5 DEF Sound, Clean
<1>10. Balances(v, W, h, NULL, "left")
  <2>1. /\ Counted(h) /\ At(h, Sentinel) = 0
        /\ \A m \in V, z \in Sides : At(h, m) = At(h, Kid(u, z, m)) + Weight(u, m)
    BY DEF Level
  <2>2. ASSUME NEW m \in W, NEW z \in Sides
        PROVE  At(h, m) = At(h, Kid(v, z, m)) + Weight(v, m) + Gap(NULL, "left", m, z)
    <3>1. Gap(NULL, "left", m, z) = 0
      BY <1>3 DEF Gap
    <3>2. Weight(v, m) = Weight(u, m) /\ Weight(u, m) \in Nat
      BY <1>5 DEF Weight
    <3>3. At(h, Kid(u, z, m)) \in Nat
      BY <2>1, <1>3 DEF Counted
    <3> QED
      BY <3>1, <3>2, <3>3, <2>1, <1>5
  <2> QED
    BY <2>1, <2>2 DEF Balances
<1>11. RedsAt(v, W, temp)
  BY <1>5 DEF Sound, RedsApart, RedsAt
<1>12. Short(v, W, temp, h, NULL, "left")
  BY <1>3, <1>5, <1>7, <1>8, <1>10, <1>11 DEF Short, Tree
<1>13. Removes(u, v, V, d)
  <2>1. Root(v) = IF d = Root(u) THEN temp ELSE Root(u)
    BY <1>5
  <2>2. \A n \in V \ {d}, z \in Sides : Kid(v, z, n) = IF Kid(u, z, n) = d THEN temp ELSE Kid(u, z, n)
    BY <1>3, <1>5
  <2> QED
    BY <2>1, <2>2, <1>0, CutOrder
<1> QED
  BY <1>5, <1>9, <1>12, <1>13

\* x, black and not the root, is short of a black; w is its brother
Lacks(u, V, x, h, p, s, w) ==
  /\ Tree(u, V) /\ Clean(u, V) /\ Balances(u, V, h, p, s) /\ RedsApart(u, V)
  /\ ~ IsRed(u, Root(u)) /\ ~ IsRed(u, x) /\ x \in V \cup {Sentinel}
  /\ p \in V /\ s \in Sides /\ Kid(u, s, p) = x /\ Parent(u, x) = p
  /\ w \in V /\ Kid(u, Other(s), p) = w

\* A black node that is a black short has a brother.
LEMMA ShortLacks ==
  ASSUME NEW u, NEW V, NEW x, NEW h, NEW p, NEW s, Short(u, V, x, h, p, s), Clean(u, V),
         x # Root(u), ~ IsRed(u, x)
  PROVE  Parent(u, x) = p /\ SideOf(u, x) = s /\ \E w : Lacks(u, V, x, h, p, s, w)
<1> PICK mu : Linked(u, V) /\ Falls(u, V, mu)
  BY DEF Short, Tree
<1>1. Sane(u, V)
  BY LinkedFacts
<1>2. /\ p \in V /\ s \in Sides /\ Parent(u, x) = p /\ Kid(u, s, p) = x /\ x \in V \cup {Sentinel}
      /\ Balances(u, V, h, p, s) /\ RedsAt(u, V, x) /\ (IsRed(u, Root(u)) => Root(u) = x)
  BY DEF Short
<1>a. PICK w : w = Kid(u, Other(s), p)
  OBVIOUS
<1>3. Other(s) \in Sides /\ Other(s) # s /\ Sides = {s, Other(s)}
  BY <1>2, SideFacts
<1>4. w \in V
  <2>1. /\ At(h, p) = At(h, x) + Weight(u, p) + Gap(p, s, p, s)
        /\ At(h, p) = At(h, w) + Weight(u, p) + Gap(p, s, p, Other(s))
    BY <1>2, <1>3, <1>a DEF Balances
  <2>2. Gap(p, s, p, s) = 1 /\ Gap(p, s, p, Other(s)) = 0
    BY <1>3 DEF Gap
  <2>3. w \in V \cup {Sentinel} /\ w \in All /\ x \in All
    BY <1>1, <1>2, <1>3, <1>a DEF Sane
  <2>4. At(h, w) \in Nat /\ At(h, x) \in Nat /\ At(h, Sentinel) = 0
    BY <2>3, <1>2 DEF Balances, Counted
  <2>5. Weight(u, p) \in Nat
    BY DEF Weight
  <2>6. At(h, w) # 0
    BY <2>1, <2>2, <2>4, <2>5
  <2> QED
    BY <2>3, <2>4, <2>6
<1>5. SideOf(u, x) = s
  <2>1. w # x
    BY <1>1, <1>2, <1>3, <1>4, <1>a DEF Sane
  <2>2. SideOf(u, x) = IF x = Kid(u, "left", p) THEN "left" ELSE "right"
    BY <1>2 DEF SideOf, Kid, Parent
  <2> QED
    BY <2>1, <2>2, <1>2, <1>a DEF Sides, Other
<1>6. RedsApart(u, V)
  BY <1>2 DEF RedsAt, RedsApart
<1>7. Lacks(u, V, x, h, p, s, w)
  BY <1>2, <1>4, <1>6, <1>a DEF Lacks, Short
<1> QED
  BY <1>2, <1>5, <1>7

\* what the proofs about the fixup use of it
LEMMA LacksFacts ==
  ASSUME NEW u, NEW V, NEW x, NEW h, NEW p, NEW s, NEW w, Lacks(u, V, x, h, p, s, w)
  PROVE  /\ Sane(u, V) /\ x \in All /\ p \in All /\ w \in All /\ w # x /\ w # p /\ x # p
         /\ w # Root(u) /\ x # Root(u) /\ Parent(u, w) = p
         /\ Other(s) \in Sides /\ Other(s) # s /\ Sides = {s, Other(s)} /\ Other(Other(s)) = s
         /\ \A z \in Sides : Kid(u, z, w) \notin {w, x, p} \/ Kid(u, z, w) = Sentinel
         /\ Counted(h) /\ At(h, Sentinel) = 0 /\ At(h, x) \in Nat
         /\ At(h, w) = At(h, x) + 1 /\ At(h, p) = At(h, x) + 1 + Weight(u, p)
         /\ \A m \in V \ {p}, z \in Sides : At(h, m) = At(h, Kid(u, z, m)) + Weight(u, m)
<1> PICK mu : Linked(u, V) /\ Falls(u, V, mu)
  BY DEF Lacks, Tree
<1>1. Sane(u, V)
  BY LinkedFacts
<1>2. /\ p \in V /\ s \in Sides /\ Parent(u, x) = p /\ Kid(u, s, p) = x /\ x \in V \cup {Sentinel}
      /\ w \in V /\ Kid(u, Other(s), p) = w /\ Balances(u, V, h, p, s)
  BY DEF Lacks
<1>3. Other(s) \in Sides /\ Other(s) # s /\ Sides = {s, Other(s)} /\ Other(Other(s)) = s
  BY <1>2, SideFacts
<1>4. /\ x \in All /\ p \in All /\ w \in All /\ w # x /\ w # p /\ x # p /\ w # Root(u) /\ x # Root(u)
      /\ Parent(u, w) = p
  BY <1>1, <1>2, <1>3 DEF Sane
<1>5. \A z \in Sides : Kid(u, z, w) \notin {w, x, p} \/ Kid(u, z, w) = Sentinel
  <2>1. \A z \in Sides : Kid(u, z, w) # p
    BY <1>2, <1>3, Distinct
  <2> QED
    BY <2>1, <1>1, <1>2, <1>4 DEF Sane
<1>6. Counted(h) /\ At(h, Sentinel) = 0 /\ At(h, x) \in Nat /\ At(h, w) \in Nat
  BY <1>2, <1>4 DEF Balances, Counted
<1>7. \A m \in V \ {p}, z \in Sides : At(h, m) = At(h, Kid(u, z, m)) + Weight(u, m)
  <2> TAKE m \in V \ {p}, z \in Sides
  <2>1. At(h, m) = At(h, Kid(u, z, m)) + Weight(u, m) + Gap(p, s, m, z)
    BY <1>2 DEF Balances
  <2>2. Gap(p, s, m, z) = 0
    BY DEF Gap
  <2>3. At(h, Kid(u, z, m)) \in Nat /\ Weight(u, m) \in Nat
    BY <1>1, <1>6 DEF Sane, Counted, Weight
  <2> QED
    BY <2>1, <2>2, <2>3
<1>8. /\ At(h, p) = At(h, x) + Weight(u, p) + Gap(p, s, p, s)
      /\ At(h, p) = At(h, w) + Weight(u, p) + Gap(p, s, p, Other(s))
  BY <1>2, <1>3 DEF Balances
<1>9. Gap(p, s, p, s) = 1 /\ Gap(p, s, p, Other(s)) = 0 /\ Weight(u, p) \in Nat
  BY <1>3 DEF Gap, Weight
<1>10. At(h, w) = At(h, x) + 1 /\ At(h, p) = At(h, x) + 1 + Weight(u, p)
  BY <1>6, <1>8, <1>9
<1> QED
  BY <1>1, <1>3, <1>4, <1>5, <1>6, <1>7, <1>10

\* A red brother is rotated above the parent, and the brother is black.
LEMMA BrotherBlackened ==
  ASSUME NEW u, NEW V, NEW x, NEW h, NEW p, NEW s, NEW w, Lacks(u, V, x, h, p, s, w),
         NEW v, v = BrotherBlack(u, s, p)
  PROVE  /\ Moves(u, v, V)
         /\ \E g, b : Lacks(v, V, x, g, p, s, b) /\ ~ IsRed(v, b) /\ At(g, x) = At(h, x)
<1>a. PICK o : o = Other(s)
  OBVIOUS
<1>1. /\ Tree(u, V) /\ Clean(u, V) /\ Balances(u, V, h, p, s) /\ RedsApart(u, V)
      /\ ~ IsRed(u, Root(u)) /\ ~ IsRed(u, x) /\ x \in V \cup {Sentinel}
      /\ p \in V /\ s \in Sides /\ Kid(u, s, p) = x /\ Parent(u, x) = p
      /\ w \in V /\ Kid(u, o, p) = w
  BY <1>a DEF Lacks
<1>2. /\ Sane(u, V) /\ x \in All /\ p \in All /\ w \in All /\ w # x /\ w # p /\ x # p
      /\ w # Root(u) /\ x # Root(u) /\ Parent(u, w) = p
      /\ o \in Sides /\ o # s /\ Sides = {s, o} /\ Other(o) = s
      /\ \A z \in Sides : Kid(u, z, w) \notin {w, x, p} \/ Kid(u, z, w) = Sentinel
      /\ Counted(h) /\ At(h, Sentinel) = 0 /\ At(h, x) \in Nat
      /\ At(h, w) = At(h, x) + 1 /\ At(h, p) = At(h, x) + 1 + Weight(u, p)
      /\ \A m \in V \ {p}, z \in Sides : At(h, m) = At(h, Kid(u, z, m)) + Weight(u, m)
  BY <1>a, LacksFacts
<1>3. CASE ~ IsRed(u, w)
  <2>1. v = u
    BY <1>1, <1>3, <1>a DEF BrotherBlack, Kid, IsRed
  <2>2. Moves(u, v, V)
    BY <2>1 DEF Moves
  <2> QED
    BY <2>1, <2>2, <1>3
<1>4. CASE IsRed(u, w)
  <2> PICK mu : Linked(u, V) /\ Falls(u, V, mu)
    BY <1>1 DEF Tree
  <2>1. u \in Trees /\ V \subseteq All /\ Sentinel \notin V /\ Sentinel \in All /\ ~ IsRed(u, Sentinel)
        /\ \A n \in V, z \in Sides : Kid(u, z, n) \in All
    BY <1>2 DEF Sane
  <2>a. PICK q : q = MadeRed(MadeBlack(u, w), p)
    OBVIOUS
  <2>2. v = Rotated(q, s, p)
    BY <1>1, <1>4, <1>a, <2>a DEF BrotherBlack, Kid, IsRed
  <2>3. /\ Repainted(u, q)
        /\ \A m \in All : IsRed(q, m) <=> m = p \/ (m # w /\ IsRed(u, m))
    BY <1>2, <2>1, <2>a, PaintedTwice
  <2>4. ~ IsRed(q, Sentinel)
    BY <1>1, <2>1, <2>3
  <2>5. Linked(q, V) /\ Falls(q, V, mu) /\ Clean(q, V)
    BY <1>1, <2>3, <2>4, RepaintedKeeps
  <2>6. /\ \A z, n : Kid(q, z, n) = Kid(u, z, n)
        /\ \A n : Parent(q, n) = Parent(u, n)
        /\ Root(q) = Root(u)
    BY <2>3 DEF Repainted, SameKids, SameParents
  <2>7. Kid(q, Other(s), p) = w
    BY <1>1, <2>6, <1>a
  <2>8. Turned(q, v, V, s, p)
    BY <1>1, <2>2, <2>5, <2>7, RotatedAs
  <2>9. Tree(v, V)
    BY <1>1, <2>5, <2>7, <2>8, TurnedKeepsLinks
  <2>10. Edges(q, v, V, s, p, w) /\ Unlike(q, V, s, p, w) /\ Clean(v, V)
    BY <1>1, <2>5, <2>7, <2>8, TurnedEdges
  <2>b. PICK near, far : near = Kid(u, s, w) /\ far = Kid(u, o, w)
    OBVIOUS
  <2>11. /\ Kid(v, s, p) = x /\ Kid(v, o, p) = near /\ Kid(v, s, w) = p /\ Kid(v, o, w) = far
         /\ \A m \in V \ {p, w}, z \in Sides :
              Kid(v, z, m) = IF Kid(u, z, m) = p THEN w ELSE Kid(u, z, m)
    BY <1>1, <1>2, <1>a, <2>b, <2>6, <2>10 DEF Edges
  <2>12. ~ IsRed(u, p) /\ ~ IsRed(u, near) /\ ~ IsRed(u, far)
    BY <1>1, <1>2, <1>4, <2>b DEF RedsApart
  <2>13. Weight(u, p) = 1 /\ Weight(u, w) = 0 /\ Weight(q, p) = 0 /\ Weight(q, w) = 1
    BY <1>2, <1>4, <2>3, <2>12 DEF Weight
  <2>14. near \in All /\ far \in All /\ At(h, near) = At(h, x) + 1 /\ At(h, far) = At(h, x) + 1
    <3>1. near \in All /\ far \in All
      BY <1>1, <1>2, <2>1, <2>b
    <3>2. At(h, w) = At(h, near) + 0 /\ At(h, w) = At(h, far) + 0
      BY <1>1, <1>2, <2>13, <2>b
    <3>3. At(h, near) \in Nat /\ At(h, far) \in Nat
      BY <3>1, <1>2 DEF Counted
    <3> QED
      BY <3>1, <3>2, <3>3, <1>2
  <2>15. near \in V /\ near \notin {p, w, x} /\ far \notin {p, w, x}
    <3>1. near # Sentinel /\ far # Sentinel
      BY <2>14, <1>2
    <3> QED
      BY <3>1, <1>1, <1>2, <2>b DEF Sane
  <2> DEFINE g == [m \in All |-> IF m = w THEN At(h, p) ELSE IF m = p THEN At(h, w) ELSE At(h, m)]
  <2>16. Counted(g) /\ At(g, w) = At(h, p) /\ At(g, p) = At(h, w)
         /\ \A m \in All \ {w, p} : At(g, m) = At(h, m)
    BY <1>2 DEF At, Counted
  <2> HIDE DEF g
  <2>17. Levelled(q, V, g, p, s, s, p, w)
    <3>1. At(g, Sentinel) = 0
      BY <1>1, <1>2, <2>1, <2>16
    <3>2. ASSUME NEW m \in V \ {p, w}, NEW z \in Sides
          PROVE  At(g, m) = (IF Kid(q, z, m) = p THEN At(g, w) ELSE At(g, Kid(q, z, m)))
                          + Weight(q, m) + Gap(p, s, m, z)
      <4>1. Gap(p, s, m, z) = 0
        BY DEF Gap
      <4>2. Weight(q, m) = Weight(u, m) /\ Weight(u, m) \in Nat
        BY <2>1, <2>3 DEF Weight
      <4>3. At(h, m) = At(h, Kid(u, z, m)) + Weight(u, m) /\ At(g, m) = At(h, m)
        BY <1>2, <2>1, <2>16
      <4>4. Kid(u, z, m) # w /\ Kid(u, z, m) \in All
        BY <2>1, <2>6, <2>10 DEF Unlike
      <4>5. (IF Kid(q, z, m) = p THEN At(g, w) ELSE At(g, Kid(q, z, m))) = At(h, Kid(u, z, m))
        BY <4>4, <2>6, <2>16
      <4>6. At(h, Kid(u, z, m)) \in Nat
        BY <4>4, <1>2 DEF Counted
      <4> QED
        BY <4>1, <4>2, <4>3, <4>5, <4>6
    <3>3. Gap(p, s, p, s) = 1 /\ Gap(p, s, p, o) = 0 /\ Gap(p, s, w, s) = 0 /\ Gap(p, s, w, o) = 0
      BY <1>2 DEF Gap
    <3>4. At(g, x) = At(h, x) /\ At(g, near) = At(h, near) /\ At(g, far) = At(h, far)
      BY <1>2, <2>14, <2>15, <2>16
    <3>5. /\ At(g, p) = At(g, x) + Weight(q, p) + Gap(p, s, p, s)
          /\ At(g, p) = At(g, near) + Weight(q, p) + Gap(p, s, p, o)
          /\ At(g, w) = At(g, p) + Weight(q, w) + Gap(p, s, w, s)
          /\ At(g, w) = At(g, far) + Weight(q, w) + Gap(p, s, w, o)
      BY <3>3, <3>4, <1>2, <2>13, <2>14, <2>16
    <3> QED
      BY <3>1, <3>2, <3>5, <1>1, <1>a, <2>b, <2>6, <2>16 DEF Levelled
  <2>18. Balances(v, V, g, p, s)
    BY <1>1, <2>8, <2>10, <2>17, TurnedBalances
  <2>19. \A m \in All : IsRed(v, m) <=> m = p \/ (m # w /\ IsRed(u, m))
    BY <2>3, <2>8 DEF Turned, SameReds
  <2>20. RedsApart(v, V)
    <3> SUFFICES ASSUME NEW m \in V, NEW z \in Sides, IsRed(v, m), IsRed(v, Kid(v, z, m)) PROVE FALSE
      BY DEF RedsApart
    <3>1. CASE m = p
      <4>1. Kid(v, z, m) \in {x, near}
        BY <3>1, <1>2, <2>11
      <4> QED
        BY <4>1, <1>1, <1>2, <2>12, <2>14, <2>15, <2>19
    <3>2. CASE m = w
      BY <3>2, <1>2, <2>19
    <3>3. CASE m \notin {p, w}
      <4>1. Kid(v, z, m) = IF Kid(u, z, m) = p THEN w ELSE Kid(u, z, m)
        BY <3>3, <2>11
      <4>2. Kid(v, z, m) # w
        BY <1>2, <2>19
      <4>3. Kid(v, z, m) = Kid(u, z, m) /\ Kid(u, z, m) # p /\ Kid(u, z, m) \in All
        BY <4>1, <4>2, <2>1
      <4> QED
        BY <4>3, <3>3, <2>1, <2>19, <1>1 DEF RedsApart
    <3> QED
      BY <3>1, <3>2, <3>3
  <2>21. ~ IsRed(v, Root(v))
    <3>1. Root(v) = IF p = Root(u) THEN w ELSE Root(u)
      BY <2>6, <2>7, <2>8 DEF Turned
    <3>2. Root(u) \in All
      BY <1>2 DEF Sane
    <3> QED
      BY <3>1, <3>2, <1>1, <1>2, <2>19
  <2>22. Parent(v, x) = p
    <3>1. x # Kid(q, s, w)
      BY <2>6, <2>15, <2>b
    <3> QED
      BY <3>1, <1>1, <1>2, <2>6, <2>7, <2>8 DEF Turned
  <2>23. ~ IsRed(v, x) /\ ~ IsRed(v, near)
    BY <1>1, <1>2, <2>12, <2>14, <2>15, <2>19
  <2>24. At(g, x) = At(h, x)
    BY <1>2, <2>16
  <2>25. Lacks(v, V, x, g, p, s, near)
    BY <1>1, <1>a, <2>9, <2>10, <2>11, <2>15, <2>18, <2>20, <2>21, <2>22, <2>23 DEF Lacks
  <2>26. Moves(u, v, V)
    <3>1. Moves(u, q, V)
      BY <2>3, RepaintedMoves DEF Repainted
    <3>2. Moves(q, v, V)
      BY <1>1, <2>5, <2>7, <2>8, TurnedMoves
    <3> QED
      BY <3>1, <3>2, MovesOn
  <2> QED
    BY <2>23, <2>24, <2>25, <2>26
<1> QED
  BY <1>3, <1>4

\* the brother gives its black to their parent
LEMMA BrotherReddened ==
  ASSUME NEW u, NEW V, NEW x, NEW h, NEW p, NEW s, NEW w, Lacks(u, V, x, h, p, s, w), ~ IsRed(u, w),
         \A z \in Sides : ~ IsRed(u, Kid(u, z, w)), NEW v, v = MadeRed(u, w)
  PROVE  /\ Clean(v, V) /\ Moves(u, v, V)
         /\ \E g, q, y : Short(v, V, p, g, q, y) /\ (IsRed(v, p) \/ At(g, p) = At(h, x) + 1)
<1>a. PICK o : o = Other(s)
  OBVIOUS
<1>1. /\ Tree(u, V) /\ Clean(u, V) /\ RedsApart(u, V)
      /\ ~ IsRed(u, Root(u)) /\ ~ IsRed(u, x) /\ x \in V \cup {Sentinel}
      /\ p \in V /\ s \in Sides /\ Kid(u, s, p) = x /\ Parent(u, x) = p
      /\ w \in V /\ Kid(u, o, p) = w
  BY <1>a DEF Lacks
<1>2. /\ Sane(u, V) /\ x \in All /\ p \in All /\ w \in All /\ w # x /\ w # p /\ x # p
      /\ w # Root(u) /\ x # Root(u) /\ Parent(u, w) = p
      /\ o \in Sides /\ o # s /\ Sides = {s, o} /\ Other(o) = s
      /\ \A z \in Sides : Kid(u, z, w) \notin {w, x, p} \/ Kid(u, z, w) = Sentinel
      /\ Counted(h) /\ At(h, Sentinel) = 0 /\ At(h, x) \in Nat
      /\ At(h, w) = At(h, x) + 1 /\ At(h, p) = At(h, x) + 1 + Weight(u, p)
      /\ \A m \in V \ {p}, z \in Sides : At(h, m) = At(h, Kid(u, z, m)) + Weight(u, m)
  BY <1>a, LacksFacts
<1> PICK mu : Linked(u, V) /\ Falls(u, V, mu)
  BY <1>1 DEF Tree
<1>3. /\ u \in Trees /\ V \subseteq All /\ Sentinel \notin V /\ Sentinel \in All /\ ~ IsRed(u, Sentinel)
      /\ NULL \notin V /\ Root(u) \in V
      /\ \A n \in V, z \in Sides :
           /\ Kid(u, z, n) \in All /\ Kid(u, z, n) # n
           /\ Kid(u, z, n) # Sentinel => Parent(u, Kid(u, z, n)) = n
      /\ \A n \in V \ {Root(u)} : Parent(u, n) \in V /\ Parent(u, n) # n
      /\ \A n \in V, z \in Sides : Kid(u, z, n) = Kid(u, Other(z), n) => Kid(u, z, n) = Sentinel
  BY <1>1, <1>2 DEF Sane
<1>4. RedIs(u, v, w)
  BY <1>2, <1>3, ColourWritten
<1>5. Repainted(u, v) /\ \A m \in All : IsRed(v, m) <=> m = w \/ IsRed(u, m)
  BY <1>4 DEF RedIs
<1>6. ~ IsRed(v, Sentinel)
  BY <1>1, <1>3, <1>5
<1>7. Tree(v, V) /\ Clean(v, V)
  BY <1>1, <1>5, <1>6, RepaintedKeeps
<1>8. /\ Root(v) = Root(u) /\ \A z, n : Kid(v, z, n) = Kid(u, z, n)
      /\ \A n : Parent(v, n) = Parent(u, n)
  BY <1>5 DEF Repainted, SameKids, SameParents
<1>b. PICK q, y : /\ q = IF p = Root(u) THEN NULL ELSE Parent(u, p)
                  /\ y = IF p = Root(u) THEN "left" ELSE SideOf(u, p)
  OBVIOUS
<1>9. p # Root(u) => q \in V /\ y \in Sides /\ Kid(u, y, q) = p /\ q = Parent(u, p)
  BY <1>1, <1>3, <1>b, SideTrue
<1>10. ASSUME NEW m \in V, NEW z \in Sides, m # p
       PROVE  Gap(q, y, m, z) = IF Kid(u, z, m) = p THEN 1 ELSE 0
  <2>1. CASE p = Root(u)
    <3>1. Kid(u, z, m) # p /\ q # m
      BY <2>1, <1>1, <1>2, <1>3, <1>b DEF Sane
    <3> QED
      BY <3>1 DEF Gap
  <2>2. CASE p # Root(u)
    <3>1. Kid(u, z, m) = p => m = q /\ z = y
      <4> SUFFICES ASSUME Kid(u, z, m) = p PROVE m = q /\ z = y
        OBVIOUS
      <4>1. m = q
        BY <2>2, <1>1, <1>3, <1>9
      <4>2. z = y \/ z = Other(y)
        BY <2>2, <1>9, SideFacts
      <4>3. p # Sentinel
        BY <1>1, <1>3
      <4> QED
        BY <4>1, <4>2, <4>3, <2>2, <1>3, <1>9
    <3> QED
      BY <3>1, <2>2, <1>9 DEF Gap
  <2> QED
    BY <2>1, <2>2
<1> DEFINE g == [m \in All |-> IF m \in {w, p} THEN At(h, m) - 1 ELSE At(h, m)]
<1>11. At(h, w) - 1 = At(h, x) /\ At(h, p) - 1 = At(h, x) + Weight(u, p) /\ Weight(u, p) \in Nat
  BY <1>2 DEF Weight
<1>12. /\ Counted(g) /\ At(g, w) = At(h, x) /\ At(g, p) = At(h, x) + Weight(u, p)
       /\ \A m \in All \ {w, p} : At(g, m) = At(h, m)
  <2>1. /\ At(g, w) = At(h, x) /\ At(g, p) = At(h, x) + Weight(u, p)
        /\ \A m \in All \ {w, p} : At(g, m) = At(h, m)
    BY <1>2, <1>11 DEF At
  <2> HIDE DEF g
  <2> QED
    BY <2>1, <1>2, <1>11 DEF Counted
<1> HIDE DEF g
<1>13. Balances(v, V, g, q, y)
  <2>1. At(g, Sentinel) = 0
    BY <1>1, <1>2, <1>3, <1>12
  <2>2. ASSUME NEW m \in V, NEW z \in Sides
        PROVE  At(g, m) = At(g, Kid(u, z, m)) + Weight(v, m) + Gap(q, y, m, z)
    <3>1. CASE m = p
      <4>1. Weight(v, m) = Weight(u, m) /\ Gap(q, y, m, z) = 0
        <5>1. q # p
          BY <1>1, <1>3, <1>b
        <5> QED
          BY <5>1, <3>1, <1>2, <1>5 DEF Weight, Gap
      <4>2. Kid(u, z, m) \in {x, w}
        BY <3>1, <1>1, <1>2
      <4>3. At(g, Kid(u, z, m)) = At(h, x)
        BY <4>2, <1>2, <1>12
      <4> QED
        BY <4>1, <4>3, <3>1, <1>2, <1>11, <1>12
    <3>2. CASE m = w
      <4> PICK c : c = Kid(u, z, w)
        OBVIOUS
      <4>1. c \in All \ {w, p}
        BY <1>1, <1>2, <1>3
      <4>2. At(h, w) = At(h, c) + Weight(u, w) /\ Weight(u, w) = 1 /\ Weight(v, w) = 0
        BY <1>1, <1>2, <1>5 DEF Weight
      <4>3. Gap(q, y, m, z) = 0
        BY <4>1, <3>2, <1>1, <1>2, <1>10
      <4>4. At(h, c) \in Nat
        BY <4>1, <1>2 DEF Counted
      <4> QED
        BY <4>1, <4>2, <4>3, <4>4, <3>2, <1>2, <1>12
    <3>3. CASE m \notin {p, w}
      <4> PICK c : c = Kid(u, z, m)
        OBVIOUS
      <4>1. c \in All /\ At(h, m) = At(h, c) + Weight(u, m) /\ At(h, c) \in Nat /\ At(g, m) = At(h, m)
        BY <3>3, <1>2, <1>3, <1>12 DEF Counted
      <4>2. Weight(v, m) = Weight(u, m) /\ Weight(u, m) \in Nat
        BY <3>3, <1>3, <1>5 DEF Weight
      <4>3. c # w
        BY <3>3, <1>1, <1>2, <1>3
      <4>4. CASE c = p
        <5>1. Gap(q, y, m, z) = 1
          BY <4>4, <3>3, <1>10
        <5>2. At(g, c) = At(h, c) - 1
          BY <4>4, <1>2, <1>11, <1>12
        <5> QED
          BY <4>1, <4>2, <5>1, <5>2
      <4>5. CASE c # p
        <5>1. Gap(q, y, m, z) = 0 /\ At(g, c) = At(h, c)
          BY <4>1, <4>3, <4>5, <3>3, <1>10, <1>12
        <5> QED
          BY <4>1, <4>2, <5>1
      <4> QED
        BY <4>4, <4>5
    <3> QED
      BY <3>1, <3>2, <3>3
  <2> QED
    BY <2>1, <2>2, <1>8, <1>12 DEF Balances
<1>14. RedsAt(v, V, p)
  <2> SUFFICES ASSUME NEW m \in V, NEW z \in Sides, IsRed(v, m), IsRed(v, Kid(u, z, m))
               PROVE  p \in {m, Kid(u, z, m)}
    BY <1>8 DEF RedsAt
  <2>1. m \in All /\ Kid(u, z, m) \in All
    BY <1>3
  <2>2. CASE Kid(u, z, m) = w
    BY <2>2, <1>1, <1>2, <1>3
  <2>3. CASE Kid(u, z, m) # w
    <3>1. IsRed(u, Kid(u, z, m))
      BY <2>1, <2>3, <1>5
    <3>2. m # w
      BY <3>1
    <3> QED
      BY <2>1, <3>1, <3>2, <1>1, <1>5 DEF RedsApart
  <2> QED
    BY <2>2, <2>3
<1>15. ~ IsRed(v, Root(v))
  BY <1>1, <1>2, <1>3, <1>5, <1>8
<1>16. Short(v, V, p, g, q, y)
  BY <1>1, <1>7, <1>8, <1>9, <1>b, <1>13, <1>14, <1>15 DEF Short
<1>17. IsRed(v, p) \/ At(g, p) = At(h, x) + 1
  BY <1>2, <1>5, <1>12 DEF Weight
<1>18. Moves(u, v, V)
  BY <1>5, RepaintedMoves DEF Repainted
<1> QED
  BY <1>7, <1>16, <1>17, <1>18

\* a black brother with a red child gets a red child on the far side
LEMMA FarReddened ==
  ASSUME NEW u, NEW V, NEW x, NEW h, NEW p, NEW s, NEW w, Lacks(u, V, x, h, p, s, w), ~ IsRed(u, w),
         ~ \A z \in Sides : ~ IsRed(u, Kid(u, z, w)), NEW v, v = FarRed(u, s, p)
  PROVE  /\ Moves(u, v, V)
         /\ \E g, b : /\ Lacks(v, V, x, g, p, s, b) /\ ~ IsRed(v, b)
                      /\ IsRed(v, Kid(v, Other(s), b))
<1>a. PICK o : o = Other(s)
  OBVIOUS
<1>1. /\ Tree(u, V) /\ Clean(u, V) /\ Balances(u, V, h, p, s) /\ RedsApart(u, V)
      /\ ~ IsRed(u, Root(u)) /\ ~ IsRed(u, x) /\ x \in V \cup {Sentinel}
      /\ p \in V /\ s \in Sides /\ Kid(u, s, p) = x /\ Parent(u, x) = p
      /\ w \in V /\ Kid(u, o, p) = w
  BY <1>a DEF Lacks
<1>2. /\ Sane(u, V) /\ x \in All /\ p \in All /\ w \in All /\ w # x /\ w # p /\ x # p
      /\ w # Root(u) /\ x # Root(u) /\ Parent(u, w) = p
      /\ o \in Sides /\ o # s /\ Sides = {s, o} /\ Other(o) = s
      /\ \A z \in Sides : Kid(u, z, w) \notin {w, x, p} \/ Kid(u, z, w) = Sentinel
      /\ Counted(h) /\ At(h, Sentinel) = 0 /\ At(h, x) \in Nat
      /\ At(h, w) = At(h, x) + 1 /\ At(h, p) = At(h, x) + 1 + Weight(u, p)
      /\ \A m \in V \ {p}, z \in Sides : At(h, m) = At(h, Kid(u, z, m)) + Weight(u, m)
  BY <1>a, LacksFacts
<1>b. PICK near, far : near = Kid(u, s, w) /\ far = Kid(u, o, w)
  OBVIOUS
<1>3. CASE IsRed(u, far)
  <2>1. v = u
    BY <1>1, <1>3, <1>a, <1>b DEF FarRed, Kid, IsRed
  <2>2. Moves(u, v, V)
    BY <2>1 DEF Moves
  <2> QED
    BY <2>1, <2>2, <1>3, <1>a, <1>b
<1>4. CASE ~ IsRed(u, far)
  <2>0. IsRed(u, near)
    BY <1>2, <1>4, <1>b
  <2> PICK mu : Linked(u, V) /\ Falls(u, V, mu)
    BY <1>1 DEF Tree
  <2>1. u \in Trees /\ V \subseteq All /\ Sentinel \notin V /\ Sentinel \in All /\ ~ IsRed(u, Sentinel)
        /\ \A n \in V, z \in Sides : Kid(u, z, n) \in All /\ Kid(u, z, n) \in V \cup {Sentinel}
    BY <1>2 DEF Sane
  <2>2. near \in V /\ near \in All /\ far \in All /\ near \notin {p, w, x} /\ far \notin {p, w, near}
        /\ Parent(u, near) = w
    <3>1. near # Sentinel /\ near \in V /\ near \in All /\ far \in All
      BY <2>0, <2>1, <1>1, <1>2, <1>b
    <3> QED
      BY <3>1, <2>1, <1>1, <1>2, <1>b DEF Sane
  <2>a. PICK q : q = MadeRed(MadeBlack(u, near), w)
    OBVIOUS
  <2>3. v = Rotated(q, o, w)
    BY <1>1, <1>4, <1>a, <1>b, <2>a DEF FarRed, Kid, IsRed
  <2>4. /\ Repainted(u, q)
        /\ \A m \in All : IsRed(q, m) <=> m = w \/ (m # near /\ IsRed(u, m))
    BY <1>2, <2>1, <2>2, <2>a, PaintedTwice
  <2>5. ~ IsRed(q, Sentinel)
    BY <1>1, <2>1, <2>4
  <2>6. Linked(q, V) /\ Falls(q, V, mu) /\ Clean(q, V)
    BY <1>1, <2>4, <2>5, RepaintedKeeps
  <2>7. /\ \A z, n : Kid(q, z, n) = Kid(u, z, n)
        /\ \A n : Parent(q, n) = Parent(u, n)
        /\ Root(q) = Root(u)
    BY <2>4 DEF Repainted, SameKids, SameParents
  <2>8. Kid(q, Other(o), w) = near
    BY <1>2, <1>b, <2>7
  <2>9. Turned(q, v, V, o, w)
    BY <1>1, <1>2, <2>2, <2>3, <2>6, <2>8, RotatedAs
  <2>10. Tree(v, V)
    BY <1>1, <1>2, <2>2, <2>6, <2>8, <2>9, TurnedKeepsLinks
  <2>11. Edges(q, v, V, o, w, near) /\ Unlike(q, V, o, w, near) /\ Clean(v, V)
    BY <1>1, <1>2, <2>2, <2>6, <2>8, <2>9, TurnedEdges
  <2>b. PICK inner, outer : inner = Kid(u, o, near) /\ outer = Kid(u, s, near)
    OBVIOUS
  <2>12. /\ Kid(v, o, w) = far /\ Kid(v, s, w) = inner /\ Kid(v, o, near) = w /\ Kid(v, s, near) = outer
         /\ \A m \in V \ {w, near}, z \in Sides :
              Kid(v, z, m) = IF Kid(u, z, m) = w THEN near ELSE Kid(u, z, m)
    BY <1>1, <1>2, <1>b, <2>b, <2>7, <2>11 DEF Edges
  <2>13. ~ IsRed(u, inner) /\ ~ IsRed(u, outer)
    BY <1>1, <1>2, <2>0, <2>2, <2>b DEF RedsApart
  <2>14. Weight(u, w) = 1 /\ Weight(u, near) = 0 /\ Weight(q, w) = 0 /\ Weight(q, near) = 1
    BY <1>2, <2>0, <2>2, <2>4 DEF Weight
  <2>15. inner \in All /\ outer \in All /\ inner \notin {w, near} /\ outer \notin {w, near}
    BY <2>1, <2>2, <1>2, <2>b, <2>7, <2>11 DEF Unlike, Sane
  <2>16. /\ At(h, near) = At(h, x) /\ At(h, far) = At(h, x)
         /\ At(h, inner) = At(h, x) /\ At(h, outer) = At(h, x)
    <3>1. At(h, w) = At(h, near) + 1 /\ At(h, w) = At(h, far) + 1
      BY <1>1, <1>2, <1>b, <2>14
    <3>2. At(h, near) = At(h, inner) + 0 /\ At(h, near) = At(h, outer) + 0
      BY <1>1, <1>2, <2>2, <2>b, <2>14
    <3>3. At(h, near) \in Nat /\ At(h, far) \in Nat /\ At(h, inner) \in Nat /\ At(h, outer) \in Nat
      BY <2>2, <2>15, <1>2 DEF Counted
    <3> QED
      BY <3>1, <3>2, <3>3, <1>2
  <2> DEFINE g == [m \in All |-> IF m = near THEN At(h, w) ELSE IF m = w THEN At(h, near) ELSE At(h, m)]
  <2>17. Counted(g) /\ At(g, near) = At(h, w) /\ At(g, w) = At(h, near)
         /\ \A m \in All \ {w, near} : At(g, m) = At(h, m)
    BY <1>2, <2>2 DEF At, Counted
  <2> HIDE DEF g
  <2>18. Levelled(q, V, g, p, s, o, w, near)
    <3>1. At(g, Sentinel) = 0
      BY <1>1, <1>2, <2>1, <2>2, <2>17
    <3>2. ASSUME NEW m \in V \ {w, near}, NEW z \in Sides
          PROVE  At(g, m) = (IF Kid(q, z, m) = w THEN At(g, near) ELSE At(g, Kid(q, z, m)))
                          + Weight(q, m) + Gap(p, s, m, z)
      <4>1. At(h, m) = At(h, Kid(u, z, m)) + Weight(u, m) + Gap(p, s, m, z)
        BY <1>1 DEF Balances
      <4>2. Weight(q, m) = Weight(u, m)
        BY <2>1, <2>4 DEF Weight
      <4>3. Kid(u, z, m) # near /\ Kid(u, z, m) \in All
        BY <2>1, <2>7, <2>11 DEF Unlike
      <4>4. (IF Kid(q, z, m) = w THEN At(g, near) ELSE At(g, Kid(q, z, m))) = At(h, Kid(u, z, m))
        BY <4>3, <2>7, <2>17
      <4>5. At(g, m) = At(h, m)
        BY <2>1, <2>17
      <4> QED
        BY <4>1, <4>2, <4>4, <4>5
    <3>3. \A z : Gap(p, s, w, z) = 0 /\ Gap(p, s, near, z) = 0
      BY <1>2, <2>2 DEF Gap
    <3>4. At(g, far) = At(h, x) /\ At(g, inner) = At(h, x) /\ At(g, outer) = At(h, x)
      BY <2>2, <2>15, <2>16, <2>17
    <3>5. At(g, w) = At(h, x) /\ At(g, near) = At(h, x) + 1
      BY <1>2, <2>16, <2>17
    <3>6. /\ At(g, w) = At(g, far) + Weight(q, w) + Gap(p, s, w, o)
          /\ At(g, w) = At(g, inner) + Weight(q, w) + Gap(p, s, w, s)
          /\ At(g, near) = At(g, w) + Weight(q, near) + Gap(p, s, near, o)
          /\ At(g, near) = At(g, outer) + Weight(q, near) + Gap(p, s, near, s)
      BY <3>3, <3>4, <3>5, <1>2, <2>14
    <3>7. Kid(q, o, w) = far /\ Kid(q, o, near) = inner /\ Kid(q, s, near) = outer
      BY <2>7, <1>b, <2>b
    <3> QED
      BY <3>1, <3>2, <3>6, <3>7, <1>2, <2>17 DEF Levelled
  <2>19. Balances(v, V, g, p, s)
    BY <1>1, <1>2, <2>9, <2>11, <2>18, TurnedBalances
  <2>20. \A m \in All : IsRed(v, m) <=> m = w \/ (m # near /\ IsRed(u, m))
    BY <2>4, <2>9 DEF Turned, SameReds
  <2>21. RedsApart(v, V)
    <3> SUFFICES ASSUME NEW m \in V, NEW z \in Sides, IsRed(v, m), IsRed(v, Kid(v, z, m)) PROVE FALSE
      BY DEF RedsApart
    <3>1. CASE m = w
      <4>1. Kid(v, z, m) \in {far, inner}
        BY <3>1, <1>2, <2>12
      <4> QED
        BY <4>1, <1>4, <2>2, <2>13, <2>15, <2>20
    <3>2. CASE m = near
      BY <3>2, <2>2, <2>20
    <3>3. CASE m \notin {w, near}
      <4>1. Kid(v, z, m) = IF Kid(u, z, m) = w THEN near ELSE Kid(u, z, m)
        BY <3>3, <2>12
      <4>2. Kid(v, z, m) # near
        BY <2>2, <2>20
      <4>3. Kid(v, z, m) = Kid(u, z, m) /\ Kid(u, z, m) # w /\ Kid(u, z, m) \in All
        BY <4>1, <4>2, <2>1
      <4> QED
        BY <4>3, <3>3, <2>1, <2>20, <1>1 DEF RedsApart
    <3> QED
      BY <3>1, <3>2, <3>3
  <2>22. ~ IsRed(v, Root(v))
    <3>1. Root(v) = Root(u)
      BY <1>2, <2>7, <2>8, <2>9 DEF Turned
    <3>2. Root(u) \in All
      BY <1>2 DEF Sane
    <3> QED
      BY <3>1, <3>2, <1>1, <1>2, <2>20
  <2>23. Kid(v, s, p) = x /\ Kid(v, o, p) = near
    BY <1>1, <1>2, <2>2, <2>12
  <2>24. Parent(v, x) = p
    <3>1. x # Kid(q, o, near) \/ x = Sentinel
      <4>1. Parent(u, x) # near
        BY <1>1, <2>2
      <4> QED
        BY <4>1, <2>2, <2>7, <1>2 DEF Sane
    <3> QED
      BY <3>1, <1>1, <1>2, <2>2, <2>7, <2>8, <2>9 DEF Turned
  <2>25. ~ IsRed(v, x) /\ ~ IsRed(v, near) /\ IsRed(v, w)
    BY <1>1, <1>2, <2>2, <2>20
  <2>26. Lacks(v, V, x, g, p, s, near)
    BY <1>1, <1>a, <2>2, <2>10, <2>11, <2>19, <2>21, <2>22, <2>23, <2>24, <2>25 DEF Lacks
  <2>27. Moves(u, v, V)
    <3>1. Moves(u, q, V)
      BY <2>4, RepaintedMoves DEF Repainted
    <3>2. Moves(q, v, V)
      BY <1>1, <1>2, <2>2, <2>6, <2>8, <2>9, TurnedMoves
    <3> QED
      BY <3>1, <3>2, MovesOn
  <2> QED
    BY <2>12, <2>25, <2>26, <2>27, <1>a
<1> QED
  BY <1>3, <1>4

\* the parent lends its black to x
LEMMA LentFirm ==
  ASSUME NEW u, NEW V, NEW x, NEW h, NEW p, NEW s, NEW w, Lacks(u, V, x, h, p, s, w), ~ IsRed(u, w),
         IsRed(u, Kid(u, Other(s), w)), NEW v, v = Lent(u, s, p)
  PROVE  Firm(v, V) /\ Clean(v, V) /\ Moves(u, v, V)
<1>a. PICK o : o = Other(s)
  OBVIOUS
<1>1. /\ Tree(u, V) /\ Clean(u, V) /\ Balances(u, V, h, p, s) /\ RedsApart(u, V)
      /\ ~ IsRed(u, Root(u)) /\ ~ IsRed(u, x) /\ x \in V \cup {Sentinel}
      /\ p \in V /\ s \in Sides /\ Kid(u, s, p) = x /\ Parent(u, x) = p
      /\ w \in V /\ Kid(u, o, p) = w
  BY <1>a DEF Lacks
<1>2. /\ Sane(u, V) /\ x \in All /\ p \in All /\ w \in All /\ w # x /\ w # p /\ x # p
      /\ w # Root(u) /\ x # Root(u) /\ Parent(u, w) = p
      /\ o \in Sides /\ o # s /\ Sides = {s, o} /\ Other(o) = s
      /\ \A z \in Sides : Kid(u, z, w) \notin {w, x, p} \/ Kid(u, z, w) = Sentinel
      /\ Counted(h) /\ At(h, Sentinel) = 0 /\ At(h, x) \in Nat
      /\ At(h, w) = At(h, x) + 1 /\ At(h, p) = At(h, x) + 1 + Weight(u, p)
      /\ \A m \in V \ {p}, z \in Sides : At(h, m) = At(h, Kid(u, z, m)) + Weight(u, m)
  BY <1>a, LacksFacts
<1>b. PICK near, far : near = Kid(u, s, w) /\ far = Kid(u, o, w)
  OBVIOUS
<1>3. IsRed(u, far)
  BY <1>a, <1>b
<1> PICK mu : Linked(u, V) /\ Falls(u, V, mu)
  BY <1>1 DEF Tree
<1>4. /\ u \in Trees /\ V \subseteq All /\ Sentinel \notin V /\ Sentinel \in All /\ ~ IsRed(u, Sentinel)
      /\ Root(u) \in All
      /\ \A n \in V, z \in Sides : Kid(u, z, n) \in All /\ Kid(u, z, n) \in V \cup {Sentinel}
      /\ \A n \in V, z \in Sides : Kid(u, z, n) # Sentinel => Parent(u, Kid(u, z, n)) = n
  BY <1>1, <1>2 DEF Sane
<1>5. far \in V /\ near \in All /\ far \in All /\ far \notin {p, w, x} /\ near \notin {p, w, far}
      /\ Parent(u, far) = w
  <2>1. far # Sentinel /\ far \in V /\ near \in All /\ far \in All
    BY <1>1, <1>2, <1>3, <1>4, <1>b
  <2> QED
    BY <2>1, <1>1, <1>2, <1>4, <1>b DEF Sane
<1>c. PICK q : q = MadeBlack(MadeBlack(MadeLike(u, w, p), p), far)
  OBVIOUS
<1>6. /\ Repainted(u, q)
      /\ \A m \in All : IsRed(q, m) <=> /\ m # p /\ m # far
                                        /\ ((m = w /\ IsRed(u, p)) \/ (m # w /\ IsRed(u, m)))
  BY <1>2, <1>4, <1>5, <1>c, PaintedForLoan
<1>7. v = Rotated(q, s, p)
  <2>1. Kid(u, Other(s), p) = w /\ Kid(u, Other(s), w) = far
    BY <1>1, <1>a, <1>b
  <2>2. v = Rotated(MadeBlack(MadeBlack(MadeLike(u, Kid(u, Other(s), p), p), p),
                              Kid(u, Other(s), Kid(u, Other(s), p))), s, p)
    BY DEF Lent, Kid
  <2> QED
    BY <2>1, <2>2, <1>c
<1>8. ~ IsRed(q, Sentinel)
  BY <1>1, <1>4, <1>6
<1>9. Linked(q, V) /\ Falls(q, V, mu) /\ Clean(q, V)
  BY <1>1, <1>6, <1>8, RepaintedKeeps
<1>10. /\ \A z, n : Kid(q, z, n) = Kid(u, z, n)
       /\ \A n : Parent(q, n) = Parent(u, n)
       /\ Root(q) = Root(u)
  BY <1>6 DEF Repainted, SameKids, SameParents
<1>11. Kid(q, Other(s), p) = w
  BY <1>1, <1>a, <1>10
<1>12. Turned(q, v, V, s, p)
  BY <1>1, <1>7, <1>9, <1>11, RotatedAs
<1>13. Tree(v, V)
  BY <1>1, <1>9, <1>11, <1>12, TurnedKeepsLinks
<1>14. Edges(q, v, V, s, p, w) /\ Unlike(q, V, s, p, w) /\ Clean(v, V)
  BY <1>1, <1>9, <1>11, <1>12, TurnedEdges
<1>15. /\ Kid(v, s, p) = x /\ Kid(v, o, p) = near /\ Kid(v, s, w) = p /\ Kid(v, o, w) = far
       /\ \A m \in V \ {p, w}, z \in Sides :
            Kid(v, z, m) = IF Kid(u, z, m) = p THEN w ELSE Kid(u, z, m)
  BY <1>1, <1>2, <1>a, <1>b, <1>10, <1>14 DEF Edges
<1>16. /\ Weight(u, w) = 1 /\ Weight(u, far) = 0 /\ Weight(q, p) = 1 /\ Weight(q, far) = 1
       /\ Weight(q, w) = Weight(u, p) /\ Weight(u, p) \in Nat
  BY <1>2, <1>3, <1>5, <1>6 DEF Weight
<1>17. At(h, near) = At(h, x) /\ At(h, far) = At(h, x)
  <2>1. At(h, w) = At(h, near) + 1 /\ At(h, w) = At(h, far) + 1
    BY <1>1, <1>2, <1>b, <1>16
  <2>2. At(h, near) \in Nat /\ At(h, far) \in Nat
    BY <1>2, <1>5 DEF Counted
  <2> QED
    BY <2>1, <2>2, <1>2
<1> DEFINE g == [m \in All |-> IF m = w THEN At(h, p) ELSE IF m = p THEN At(h, w)
                               ELSE IF m = far THEN At(h, w) ELSE At(h, m)]
<1>18. Counted(g) /\ At(g, w) = At(h, p) /\ At(g, p) = At(h, w) /\ At(g, far) = At(h, w)
       /\ \A m \in All \ {w, p, far} : At(g, m) = At(h, m)
  BY <1>2, <1>5 DEF At, Counted
<1> HIDE DEF g
<1>19. At(g, Sentinel) = 0
  BY <1>1, <1>2, <1>4, <1>5, <1>18
<1>20. ASSUME NEW m \in V \ {p, w}, NEW z \in Sides
       PROVE  At(g, m) = (IF Kid(q, z, m) = p THEN At(g, w) ELSE At(g, Kid(q, z, m))) + Weight(q, m)
  <2>1. At(h, m) = At(h, Kid(u, z, m)) + Weight(u, m)
    BY <1>2
  <2>2. Kid(u, z, m) # w /\ Kid(u, z, m) \in All
    BY <1>4, <1>10, <1>14 DEF Unlike
  <2>3. Kid(u, z, m) # far
    BY <1>4, <1>5
  <2>4. (IF Kid(q, z, m) = p THEN At(g, w) ELSE At(g, Kid(q, z, m))) = At(h, Kid(u, z, m))
    BY <2>2, <2>3, <1>10, <1>18
  <2>5. At(h, Kid(u, z, m)) \in Nat
    BY <2>2, <1>2 DEF Counted
  <2>6. CASE m = far
    <3>1. At(h, far) = At(h, Kid(u, z, m)) + 0
      BY <2>1, <2>6, <1>16
    <3>2. At(g, m) = At(h, x) + 1
      BY <2>6, <1>2, <1>18
    <3> QED
      BY <3>1, <3>2, <2>4, <2>5, <2>6, <1>2, <1>16, <1>17
  <2>7. CASE m # far
    <3>1. Weight(q, m) = Weight(u, m) /\ At(g, m) = At(h, m)
      BY <2>7, <1>4, <1>6, <1>18 DEF Weight
    <3> QED
      BY <3>1, <2>1, <2>4
  <2> QED
    BY <2>6, <2>7
<1>21. /\ At(g, p) = At(g, x) + Weight(q, p) /\ At(g, p) = At(g, near) + Weight(q, p)
       /\ At(g, w) = At(g, p) + Weight(q, w) /\ At(g, w) = At(g, far) + Weight(q, w)
  <2>1. At(g, x) = At(h, x) /\ At(g, near) = At(h, x)
    BY <1>2, <1>5, <1>17, <1>18
  <2> QED
    BY <2>1, <1>2, <1>16, <1>18
<1>22. Level(v, V, g)
  <2>1. /\ Kid(q, s, p) = x /\ Kid(q, s, w) = near /\ Kid(q, o, w) = far
    BY <1>1, <1>10, <1>b
  <2>2. /\ At(g, p) = At(g, Kid(q, s, p)) + Weight(q, p)
        /\ At(g, p) = At(g, Kid(q, s, w)) + Weight(q, p)
        /\ At(g, w) = At(g, p) + Weight(q, w)
        /\ At(g, w) = At(g, Kid(q, Other(s), w)) + Weight(q, w)
    BY <2>1, <1>21, <1>a
  <2> QED
    BY <2>2, <1>1, <1>12, <1>14, <1>18, <1>19, <1>20, TurnedLevel
<1>23. \A m \in All : IsRed(v, m) <=> /\ m # p /\ m # far
                                      /\ ((m = w /\ IsRed(u, p)) \/ (m # w /\ IsRed(u, m)))
  BY <1>6, <1>12 DEF Turned, SameReds
<1>24. RedsApart(v, V)
  <2> SUFFICES ASSUME NEW m \in V, NEW z \in Sides, IsRed(v, m), IsRed(v, Kid(v, z, m)) PROVE FALSE
    BY DEF RedsApart
  <2>1. m \notin {p, far}
    BY <1>2, <1>5, <1>23
  <2>2. CASE m = w
    <3>1. Kid(v, z, m) \in {p, far}
      BY <2>2, <1>2, <1>15
    <3> QED
      BY <3>1, <1>2, <1>5, <1>23
  <2>3. CASE m # w
    <3>1. Kid(v, z, m) = IF Kid(u, z, m) = p THEN w ELSE Kid(u, z, m)
      BY <2>1, <2>3, <1>15
    <3>2. IsRed(u, m) /\ ~ IsRed(u, Kid(u, z, m)) /\ Kid(u, z, m) \in All
      BY <2>1, <2>3, <1>1, <1>4, <1>23 DEF RedsApart
    <3>3. CASE Kid(u, z, m) = p
      BY <3>1, <3>2, <3>3, <1>2, <1>23
    <3>4. CASE Kid(u, z, m) # p
      <4>1. Kid(u, z, m) # w
        BY <2>1, <2>3, <1>1, <1>2, <1>4
      <4> QED
        BY <4>1, <3>1, <3>2, <3>4, <1>23
    <3> QED
      BY <3>3, <3>4
  <2> QED
    BY <2>2, <2>3
<1>25. ~ IsRed(v, Root(v))
  <2>1. Root(v) = IF p = Root(u) THEN w ELSE Root(u)
    BY <1>10, <1>11, <1>12 DEF Turned
  <2> QED
    BY <2>1, <1>1, <1>2, <1>4, <1>23
<1>26. Moves(u, v, V)
  <2>1. Moves(u, q, V)
    BY <1>6, RepaintedMoves DEF Repainted
  <2>2. Moves(q, v, V)
    BY <1>1, <1>9, <1>11, <1>12, TurnedMoves
  <2> QED
    BY <2>1, <2>2, MovesOn
<1> QED
  BY <1>13, <1>14, <1>22, <1>24, <1>25, <1>26 DEF Firm

\* The branches of the fixup of rap_rbtree_delete.
LEMMA FixUpCases ==
  ASSUME NEW y, NEW u, u = TreeOf(y), NEW x, x = Place(y), NEW p, p = Parent(u, x),
         NEW s, s = SideOf(u, x), NEW v, v = BrotherBlack(u, s, p),
         NEW w, w = Kid(v, Other(s), p), NEW done, done = Lent(FarRed(v, s, p), s, p)
  PROVE  /\ (\A z \in Sides : ~ IsRed(v, Kid(v, z, w))) =>
              TreeOf(FixUp(y)) = MadeRed(v, w) /\ Place(FixUp(y)) = p
         /\ ~ (\A z \in Sides : ~ IsRed(v, Kid(v, z, w))) =>
              TreeOf(FixUp(y)) = done /\ Place(FixUp(y)) = Root(done)
<1>1. (\A z \in Sides : ~ IsRed(v, Kid(v, z, w))) => FixUp(y) = [tree |-> MadeRed(v, w), at |-> p]
  BY DEF FixUp, IsRed, Kid, Parent, TreeOf, Place
<1>2. ~ (\A z \in Sides : ~ IsRed(v, Kid(v, z, w))) => FixUp(y) = [tree |-> done, at |-> Root(done)]
  BY DEF FixUp, IsRed, Kid, Parent, TreeOf, Place, Root
<1> QED
  BY <1>1, <1>2 DEF TreeOf, Place

\* A balanced tree is a black short at the root.
LEMMA FirmShort ==
  ASSUME NEW u, NEW V, Firm(u, V)
  PROVE  \E h : Short(u, V, Root(u), h, NULL, "left")
<1> PICK h : Level(u, V, h)
  BY DEF Firm
<1> PICK mu : Linked(u, V) /\ Falls(u, V, mu)
  BY DEF Firm, Tree
<1>1. Sane(u, V)
  BY LinkedFacts
<1>2. Root(u) \in V \cup {Sentinel}
  BY DEF Linked
<1>3. Balances(u, V, h, NULL, "left")
  <2>1. /\ Counted(h) /\ At(h, Sentinel) = 0
        /\ \A m \in V, z \in Sides : At(h, m) = At(h, Kid(u, z, m)) + Weight(u, m)
    BY DEF Level
  <2>2. ASSUME NEW m \in V, NEW z \in Sides
        PROVE  At(h, m) = At(h, Kid(u, z, m)) + Weight(u, m) + Gap(NULL, "left", m, z)
    <3>1. Gap(NULL, "left", m, z) = 0
      BY <1>1 DEF Sane, Gap
    <3>2. At(h, Kid(u, z, m)) \in Nat /\ Weight(u, m) \in Nat
      BY <1>1, <2>1 DEF Sane, Counted, Weight
    <3> QED
      BY <3>1, <3>2, <2>1
  <2> QED
    BY <2>1, <2>2 DEF Balances
<1>4. RedsAt(u, V, Root(u))
  BY DEF Firm, RedsApart, RedsAt
<1> QED
  BY <1>2, <1>3, <1>4 DEF Short, Firm

(***************************************************************************)
(* A turn of the fixup of rap_rbtree_delete ends the loop, or the node     *)
(* that is a black short is higher by a level of black.                    *)
(***************************************************************************)
LEMMA FixUpAdvances ==
  ASSUME NEW V, NEW y, NEW h, NEW p, NEW s, Short(TreeOf(y), V, Place(y), h, p, s),
         Clean(TreeOf(y), V), ~ Fixed(y)
  PROVE  /\ Clean(TreeOf(FixUp(y)), V) /\ Moves(TreeOf(y), TreeOf(FixUp(y)), V)
         /\ \E g, q, z : /\ Short(TreeOf(FixUp(y)), V, Place(FixUp(y)), g, q, z)
                         /\ Fixed(FixUp(y)) \/ At(g, Place(FixUp(y))) = At(h, Place(y)) + 1
<1>a. PICK u, x, r : u = TreeOf(y) /\ x = Place(y) /\ r = FixUp(y)
  OBVIOUS
<1>1. \A z : Fixed(z) <=> Place(z) = Root(TreeOf(z)) \/ IsRed(TreeOf(z), Place(z))
  BY DEF Fixed, Place, TreeOf, Root, IsRed
<1>2. x # Root(u) /\ ~ IsRed(u, x) /\ Short(u, V, x, h, p, s) /\ Clean(u, V)
  BY <1>1, <1>a
<1>3. PICK w0 : Parent(u, x) = p /\ SideOf(u, x) = s /\ Lacks(u, V, x, h, p, s, w0)
  BY <1>2, ShortLacks
<1>b. PICK v : v = BrotherBlack(u, s, p)
  OBVIOUS
<1>9. Moves(u, v, V)
  BY <1>3, <1>b, BrotherBlackened
<1>4. PICK g, w : Lacks(v, V, x, g, p, s, w) /\ ~ IsRed(v, w) /\ At(g, x) = At(h, x)
  BY <1>3, <1>b, BrotherBlackened
<1>5. w = Kid(v, Other(s), p)
  BY <1>4 DEF Lacks
<1>c. PICK far, done : far = FarRed(v, s, p) /\ done = Lent(far, s, p)
  OBVIOUS
<1>6. /\ (\A z \in Sides : ~ IsRed(v, Kid(v, z, w))) =>
              TreeOf(r) = MadeRed(v, w) /\ Place(r) = p
      /\ ~ (\A z \in Sides : ~ IsRed(v, Kid(v, z, w))) =>
              TreeOf(r) = done /\ Place(r) = Root(done)
  BY <1>3, <1>5, <1>a, <1>b, <1>c, FixUpCases
<1>7. CASE \A z \in Sides : ~ IsRed(v, Kid(v, z, w))
  <2>a. PICK t1 : t1 = MadeRed(v, w)
    OBVIOUS
  <2>1. /\ Clean(t1, V) /\ Moves(v, t1, V)
        /\ \E k, q, z : Short(t1, V, p, k, q, z) /\ (IsRed(t1, p) \/ At(k, p) = At(g, x) + 1)
    BY <1>4, <1>7, <2>a, BrotherReddened
  <2>2. TreeOf(r) = t1 /\ Place(r) = p
    BY <1>6, <1>7, <2>a
  <2>3. IsRed(t1, p) => Fixed(r)
    BY <1>1, <2>2
  <2>4. Moves(u, t1, V)
    BY <2>1, <1>9, MovesOn
  <2> QED
    BY <2>1, <2>2, <2>3, <2>4, <1>4, <1>a
<1>8. CASE ~ \A z \in Sides : ~ IsRed(v, Kid(v, z, w))
  <2>6. Moves(v, far, V)
    BY <1>4, <1>8, <1>c, FarReddened
  <2>1. PICK k, b : Lacks(far, V, x, k, p, s, b) /\ ~ IsRed(far, b) /\ IsRed(far, Kid(far, Other(s), b))
    BY <1>4, <1>8, <1>c, FarReddened
  <2>2. Firm(done, V) /\ Clean(done, V) /\ Moves(far, done, V)
    BY <2>1, <1>c, LentFirm
  <2>3. TreeOf(r) = done /\ Place(r) = Root(done)
    BY <1>6, <1>8
  <2>4. \E l : Short(done, V, Root(done), l, NULL, "left")
    BY <2>2, FirmShort
  <2>5. Fixed(r)
    BY <1>1, <2>3
  <2>7. Moves(u, done, V)
    <3>1. Moves(u, far, V)
      BY <2>6, <1>9, MovesOn
    <3> QED
      BY <3>1, <2>2, MovesOn
  <2> QED
    BY <2>2, <2>3, <2>4, <2>5, <2>7, <1>a
<1> QED
  BY <1>7, <1>8

(***************************************************************************)
(* The height of the tree falls by one at most with every step down, where *)
(* a path is a black short too.                                            *)
(***************************************************************************)
LEMMA ShortSteps ==
  ASSUME NEW u, NEW V, NEW x, NEW h, NEW p, NEW s, Short(u, V, x, h, p, s)
  PROVE  \E mu : Steps(V, h, mu)
<1> PICK mu : Linked(u, V) /\ Falls(u, V, mu)
  BY DEF Short, Tree
<1>1. Sane(u, V)
  BY LinkedFacts
<1>2. V \subseteq All /\ Sentinel \notin V /\ Counted(h) /\ Counted(mu) /\ At(h, Sentinel) = 0
  BY <1>1 DEF Sane, Falls, Short, Balances
<1>3. ASSUME NEW n \in V
      PROVE  \E c \in V \cup {Sentinel} : At(h, n) <= At(h, c) + 1 /\ (c \in V => At(mu, c) < At(mu, n))
  <2>a. PICK z \in Sides : z # s
    BY DEF Sides
  <2>b. PICK c : c = Kid(u, z, n)
    OBVIOUS
  <2>2. c \in V \cup {Sentinel} /\ c \in All
    BY <1>1, <2>b DEF Sane
  <2>3. c \in V => At(mu, c) < At(mu, n)
    BY <1>2, <2>b DEF Falls
  <2>4. At(h, n) = At(h, c) + Weight(u, n) + Gap(p, s, n, z)
    BY <2>b DEF Short, Balances
  <2>5. At(h, c) \in Nat
    BY <1>2, <2>2 DEF Counted
  <2>6. (Weight(u, n) = 0 \/ Weight(u, n) = 1) /\ Gap(p, s, n, z) = 0
    BY <2>a DEF Weight, Gap
  <2>7. At(h, n) <= At(h, c) + 1
    BY <2>4, <2>5, <2>6
  <2> QED
    BY <2>2, <2>3, <2>7
<1> QED
  BY <1>2, <1>3 DEF Steps

\* A turn of the fixup ends at a place in a tree.
LEMMA FixUpSpot ==
  ASSUME NEW y, TreeOf(FixUp(y)) \in Trees, Place(FixUp(y)) \in All
  PROVE  FixUp(y) \in Spots
<1>1. \E a, b : FixUp(y) = [tree |-> a, at |-> b]
  BY DEF FixUp
<1>2. PICK a, b : FixUp(y) = [tree |-> a, at |-> b]
  BY <1>1
<1> QED
  BY <1>2 DEF Spots, TreeOf, Place

\* The fixup of rap_rbtree_delete makes the tree balanced.
LEMMA FixedUpSound ==
  ASSUME NEW u, NEW V, NEW x, NEW h0, NEW p0, NEW s0, Short(u, V, x, h0, p0, s0), Clean(u, V)
  PROVE  Sound(FixedUp(u, x), V) /\ Moves(u, FixedUp(u, x), V)
<1> DEFINE body(g) == [k \in 0 .. Most |->
                         IF k = 0 THEN [tree |-> u, at |-> x]
                         ELSE LET y == g[k - 1] IN IF Fixed(y) THEN y ELSE FixUp(y)]
<1> DEFINE Eq(g) == g = body(g)
<1> DEFINE c == CHOOSE g : Eq(g)
<1>1. FixedUp(u, x) = MadeBlack(TreeOf(c[Most]), Place(c[Most]))
  BY DEF FixedUp, Loop, TreeOf, Place
<1> DEFINE ok(k, y) == /\ Clean(TreeOf(y), V) /\ Moves(u, TreeOf(y), V)
                       /\ \E h, p, s : /\ Short(TreeOf(y), V, Place(y), h, p, s)
                                       /\ Fixed(y) \/ At(h, Place(y)) >= k
<1> DEFINE R == [k \in Nat |-> {y \in Spots : ok(k, y)}]
<1> DEFINE next == [y \in Spots |-> IF Fixed(y) THEN y ELSE FixUp(y)]
<1>2. V \subseteq Nodes /\ V \subseteq All /\ u \in Trees /\ x \in V \cup {Sentinel} /\ Counted(h0)
      /\ Sentinel \in All
  BY TreeAssumption DEF Short, Tree, Linked, Balances, All
<1>3. Most \in Nat
  BY <1>2, MostFacts
<1>4. [tree |-> u, at |-> x] \in R[0]
  <2>1. x \in All /\ At(h0, x) \in Nat
    BY <1>2 DEF Counted
  <2>2. /\ [tree |-> u, at |-> x] \in Spots /\ TreeOf([tree |-> u, at |-> x]) = u
        /\ Place([tree |-> u, at |-> x]) = x
    BY <2>1, <1>2, SpotIs
  <2>3. At(h0, x) >= 0
    BY <2>1
  <2>4. Moves(u, u, V)
    BY DEF Moves
  <2> QED
    BY <2>2, <2>3, <2>4
<1>5. ASSUME NEW k \in Nat, NEW y \in R[k] PROVE next[y] \in R[k + 1]
  <2>1. y \in Spots
    OBVIOUS
  <2>a. ok(k, y)
    <3> HIDE DEF ok
    <3> QED
      OBVIOUS
  <2>2. PICK h, p, s : Short(TreeOf(y), V, Place(y), h, p, s) /\ (Fixed(y) \/ At(h, Place(y)) >= k)
    BY <2>a
  <2>3. CASE Fixed(y)
    <3>1. next[y] = y
      BY <2>1, <2>3
    <3> QED
      BY <2>1, <2>2, <2>3, <2>a, <3>1
  <2>4. CASE ~ Fixed(y)
    <3>1. next[y] = FixUp(y)
      BY <2>1, <2>4
    <3>2. /\ Clean(TreeOf(FixUp(y)), V) /\ Moves(TreeOf(y), TreeOf(FixUp(y)), V)
          /\ \E g, q, z : /\ Short(TreeOf(FixUp(y)), V, Place(FixUp(y)), g, q, z)
                          /\ Fixed(FixUp(y)) \/ At(g, Place(FixUp(y))) = At(h, Place(y)) + 1
      BY <2>2, <2>4, <2>a, FixUpAdvances
    <3>3. PICK g, q, z : /\ Short(TreeOf(FixUp(y)), V, Place(FixUp(y)), g, q, z)
                         /\ Fixed(FixUp(y)) \/ At(g, Place(FixUp(y))) = At(h, Place(y)) + 1
      BY <3>2
    <3>4. TreeOf(FixUp(y)) \in Trees /\ Place(FixUp(y)) \in All
      BY <3>3, <1>2 DEF Short, Tree, Linked
    <3>5. FixUp(y) \in Spots
      BY <3>4, FixUpSpot
    <3>6. At(h, Place(y)) \in Nat
      BY <2>2, <1>2 DEF Short, Balances, Counted
    <3>7. Fixed(FixUp(y)) \/ At(g, Place(FixUp(y))) >= k + 1
      BY <3>3, <3>6, <2>2, <2>4
    <3>9. Moves(u, TreeOf(FixUp(y)), V)
      BY <3>2, <2>a, MovesOn
    <3>8. ok(k + 1, FixUp(y))
      BY <3>2, <3>3, <3>7, <3>9
    <3> HIDE DEF ok
    <3> QED
      BY <3>1, <3>5, <3>8
  <2> QED
    BY <2>3, <2>4
<1>6. Reached(R) \subseteq Spots
  BY DEF Reached
<1>7. Eq(c)
  <2>1. \E f : Runs(f, Reached(R), [tree |-> u, at |-> x], next, Most)
    <3> HIDE DEF R, next
    <3> QED
      BY <1>3, <1>4, <1>5, LoopRuns
  <2>2. PICK f : Runs(f, Reached(R), [tree |-> u, at |-> x], next, Most)
    BY <2>1
  <2>3. Eq(f)
    <3>1. f \in [0 .. Most -> Reached(R)] /\ f[0] = [tree |-> u, at |-> x]
          /\ \A k \in 1 .. Most : f[k] = next[f[k - 1]]
      BY <2>2 DEF Runs
    <3>2. \A k \in 1 .. Most : f[k] = IF Fixed(f[k - 1]) THEN f[k - 1] ELSE FixUp(f[k - 1])
      <4> TAKE k \in 1 .. Most
      <4>1. k - 1 \in 0 .. Most
        BY <1>3
      <4>2. f[k - 1] \in Spots
        BY <4>1, <3>1, <1>6
      <4> QED
        BY <4>2, <3>1
    <3>3. \A k \in 0 .. Most : k # 0 => k \in 1 .. Most
      BY <1>3
    <3> HIDE DEF R, next
    <3> QED
      BY <3>1, <3>2, <3>3
  <2> HIDE DEF Eq
  <2> QED
    BY <2>3
<1>8. /\ c[0] = [tree |-> u, at |-> x]
      /\ \A k \in 1 .. Most : c[k - 1] \in Reached(R) => c[k] = next[c[k - 1]]
  <2>1. c = body(c)
    BY <1>7
  <2> HIDE DEF c, R
  <2>2. c[0] = [tree |-> u, at |-> x]
    BY <2>1, <1>3
  <2>3. ASSUME NEW k \in 1 .. Most, c[k - 1] \in Reached(R)
        PROVE  c[k] = next[c[k - 1]]
    <3>1. c[k] = IF Fixed(c[k - 1]) THEN c[k - 1] ELSE FixUp(c[k - 1])
      BY <2>1, <1>3
    <3> QED
      BY <3>1, <2>3, <1>6
  <2> HIDE DEF next
  <2> QED
    BY <2>2, <2>3
<1>9. c[Most] \in R[Most]
  <2> HIDE DEF c, R, next
  <2>1. Most \in 0 .. Most
    BY <1>3
  <2> QED
    BY <1>3, <1>4, <1>5, <1>8, <2>1, LoopRuns
<1> PICK y : y = c[Most]
  OBVIOUS
<1>10. ok(Most, y)
  <2> HIDE DEF c, ok
  <2> QED
    BY <1>3, <1>9
<1>11. PICK h, p, s : Short(TreeOf(y), V, Place(y), h, p, s) /\ (Fixed(y) \/ At(h, Place(y)) >= Most)
  BY <1>10
<1>12. Fixed(y)
  <2>1. PICK mu : Steps(V, h, mu)
    BY <1>11, ShortSteps
  <2>2. Cardinality(V) \in Nat /\ Most >= 2 * Cardinality(V) + 2 /\ IsFiniteSet(V)
    BY <1>2, MostFacts
  <2>3. Place(y) \in V \cup {Sentinel} /\ Counted(h) /\ At(h, Sentinel) = 0
    BY <1>11 DEF Short, Balances
  <2>4. At(h, Place(y)) <= Cardinality(V) /\ At(h, Place(y)) \in Nat
    BY <1>2, <2>1, <2>2, <2>3, HeightBound DEF Counted
  <2> QED
    BY <1>3, <1>11, <2>2, <2>4
<1>13. Place(y) = Root(TreeOf(y)) \/ IsRed(TreeOf(y), Place(y))
  BY <1>12 DEF Fixed, Place, TreeOf, Root, IsRed
<1>14. FixedUp(u, x) = MadeBlack(TreeOf(y), Place(y))
  BY <1>1
<1>15. Clean(TreeOf(y), V) /\ Moves(u, TreeOf(y), V)
  BY <1>10
<1> HIDE DEF c
<1>16. Firm(FixedUp(u, x), V) /\ Clean(FixedUp(u, x), V) /\ Moves(TreeOf(y), FixedUp(u, x), V)
  BY <1>11, <1>13, <1>14, <1>15, ShortPainted
<1>17. Moves(u, FixedUp(u, x), V)
  BY <1>15, <1>16, MovesOn
<1> QED
  BY <1>16, <1>17 DEF Firm, Sound

\* rap_rbtree_delete leaves a balanced tree of the nodes but for the one.
LEMMA DeletedSound ==
  ASSUME NEW u, NEW V, Sound(u, V), NEW node \in V
  PROVE  Sound(Deleted(u, node), V \ {node}) /\ Removes(u, Deleted(u, node), V, node)
<1> PICK mu : Linked(u, V) /\ Falls(u, V, mu)
  BY DEF Sound, Tree
<1>1. Sane(u, V)
  BY LinkedFacts
<1>2. "left" \in Sides /\ "right" \in Sides /\ Other("left") = "right" /\ Other("right") = "left"
  BY DEF Sides, Other
<1> DEFINE leaf == Kid(u, "left", node) = Sentinel \/ Kid(u, "right", node) = Sentinel
<1>a. PICK subst : subst = IF leaf THEN node ELSE Least(u, Kid(u, "right", node))
  OBVIOUS
<1>b. PICK temp : temp = IF Kid(u, "left", subst) = Sentinel THEN Kid(u, "right", subst) ELSE Kid(u, "left", subst)
  OBVIOUS
<1>c. PICK gone, W : gone = Cleared(Unlinked(u, node, subst, temp), node) /\ W = V \ {node}
  OBVIOUS
<1>d. PICK top : top = [u EXCEPT !.root = temp]
  OBVIOUS
<1>3. Deleted(u, node) = IF subst = Root(u) THEN Cleared(MadeBlack(top, temp), node)
                         ELSE IF IsRed(u, subst) THEN gone ELSE FixedUp(gone, temp)
  <2>1. Deleted(u, node) = IF subst = u.root THEN Cleared(MadeBlack(top, temp), node)
                           ELSE IF u.red[subst] THEN gone ELSE FixedUp(gone, temp)
    BY <1>a, <1>b, <1>c, <1>d DEF Deleted, Kid
  <2> QED
    BY <2>1 DEF Root, IsRed
<1>4. /\ subst \in V /\ (subst = Root(u) => node = subst)
      /\ node # subst => temp # node /\ Follows(u, V, node, subst)
      /\ \E k \in Sides : Kid(u, k, subst) = Sentinel /\ temp = Kid(u, Other(k), subst)
  <2>1. CASE leaf
    <3>1. subst = node
      BY <2>1, <1>a
    <3>2. CASE Kid(u, "left", node) = Sentinel
      BY <3>1, <3>2, <1>2, <1>b
    <3>3. CASE Kid(u, "left", node) # Sentinel
      <4>1. Kid(u, "right", node) = Sentinel /\ temp = Kid(u, "left", node)
        BY <3>1, <3>3, <2>1, <1>b
      <4> QED
        BY <3>1, <4>1, <1>2
    <3> QED
      BY <3>2, <3>3
  <2>2. CASE ~ leaf
    <3>a. PICK right : right = Kid(u, "right", node)
      OBVIOUS
    <3>1. right \in V /\ right # Root(u) /\ subst = Least(u, right)
      BY <2>2, <3>a, <1>1, <1>2, <1>a DEF Sane
    <3>2. /\ subst \in V /\ Kid(u, "left", subst) = Sentinel /\ subst # Root(u)
          /\ \E nu : Falls(u, V, nu) /\ At(nu, subst) <= At(nu, right)
      BY <3>1, LeastAs
    <3>3. PICK nu : Falls(u, V, nu) /\ At(nu, subst) <= At(nu, right)
      BY <3>2
    <3>4. \A n \in V : At(nu, n) \in Nat
      BY <3>3, <1>1 DEF Sane, Falls, Counted
    <3>5. At(nu, right) < At(nu, node)
      BY <3>1, <3>3, <3>a, <1>1, <1>2 DEF Falls, Sane
    <3>6. temp = Kid(u, "right", subst)
      BY <3>2, <1>b
    <3>7. temp # node
      <4>1. temp \in V => At(nu, temp) < At(nu, subst)
        BY <3>2, <3>3, <3>6, <1>1, <1>2 DEF Falls, Sane
      <4> QED
        BY <4>1, <3>1, <3>2, <3>3, <3>4, <3>5
    <3>8. Follows(u, V, node, subst)
      BY <2>2, <3>1, <3>a, LeastFollows
    <3> QED
      BY <3>2, <3>6, <3>7, <3>8, <1>2
  <2> QED
    BY <2>1, <2>2
<1>5. PICK k \in Sides : Kid(u, k, subst) = Sentinel /\ temp = Kid(u, Other(k), subst)
  BY <1>4
<1>6. node \in Nodes \ W /\ W \cup {node} = V /\ temp \in All
  BY <1>1, <1>4, <1>5, <1>c, SideFacts DEF Sane
<1>7. CASE subst = Root(u)
  <2>1. node = subst
    BY <1>4, <1>7
  <2>2. Clean(top, V) /\ top \in Trees /\ Removes(u, top, V, node) /\ \E h : Short(top, W, temp, h, NULL, "left")
    BY <2>1, <1>5, <1>7, <1>c, <1>d, RootUnlinked
  <2>3. PICK h : Short(top, W, temp, h, NULL, "left")
    BY <2>2
  <2>a. PICK v : v = MadeBlack(top, temp)
    OBVIOUS
  <2>4. temp = Root(top)
    BY <2>3, <1>1, <1>c DEF Short, Sane
  <2>5. Firm(v, W) /\ Moves(top, v, W)
    BY <2>3, <2>4, <2>a, ShortPainted
  <2>6. v \in Trees /\ Clean(v, V)
    <3>1. BlackIs(top, v, temp)
      BY <2>2, <2>a, <1>6, ColourWritten
    <3> QED
      BY <3>1, <2>2 DEF BlackIs, Repainted, SameKids, Clean
  <2>7. Firm(Cleared(v, node), W) /\ Clean(Cleared(v, node), W) /\ Moves(v, Cleared(v, node), W)
    <3>1. W \subseteq Nodes
      BY <1>1, <1>c DEF Sane
    <3> QED
      BY <3>1, <2>5, <2>6, <1>6, ClearedKeeps
  <2>9. Removes(u, Cleared(v, node), V, node)
    BY <2>2, <2>5, <2>7, <1>c, RemovesOn
  <2>8. Deleted(u, node) = Cleared(v, node)
    BY <1>3, <1>7, <2>a
  <2> QED
    BY <2>7, <2>8, <2>9, <1>c DEF Firm, Sound
<1>8. CASE subst # Root(u)
  <2>1. Unlinks(u, V, node, subst, temp, gone) /\ Removes(u, gone, V, node)
    <3>1. subst \in V \ {Root(u)}
      BY <1>4, <1>8
    <3>2. CASE node = subst
      BY <3>1, <3>2, <1>5, <1>c, UnlinkedSelf
    <3>3. CASE node # subst
      <4>1. temp # node /\ Follows(u, V, node, subst)
        BY <3>3, <1>4
      <4> QED
        BY <4>1, <3>1, <3>3, <1>5, <1>c, UnlinkedOther
    <3> QED
      BY <3>2, <3>3
  <2>2. /\ Clean(gone, W) /\ Removes(u, gone, V, node) /\ (IsRed(u, subst) => Firm(gone, W))
        /\ ~ IsRed(u, subst) => \E h, p, s : Short(gone, W, temp, h, p, s)
    BY <2>1, <1>c DEF Unlinks
  <2>3. CASE IsRed(u, subst)
    <3>1. Deleted(u, node) = gone
      BY <1>3, <1>8, <2>3
    <3> QED
      BY <3>1, <2>2, <2>3, <1>c DEF Firm, Sound
  <2>4. CASE ~ IsRed(u, subst)
    <3>1. Deleted(u, node) = FixedUp(gone, temp)
      BY <1>3, <1>8, <2>4
    <3>2. Sound(FixedUp(gone, temp), W) /\ Moves(gone, FixedUp(gone, temp), W)
      BY <2>2, <2>4, FixedUpSound
    <3> QED
      BY <3>1, <3>2, <2>2, <1>c, RemovesOn
  <2> QED
    BY <2>3, <2>4
<1> QED
  BY <1>7, <1>8

\* m ends the way up of rap_rbtree_next
Tops(u, m) == m = Root(u) \/ m = Kid(u, "left", Parent(u, m))

\* K is closed under the steps of that way
UpClosed(u, V, K) == \A m \in V \cap K : ~ Tops(u, m) => Parent(u, m) \in K

(***************************************************************************)
(* The way up of rap_rbtree_next: it ends at the root, or at a left child, *)
(* and what its steps keep holds there.                                    *)
(***************************************************************************)
LEMMA AscendedAs ==
  ASSUME NEW u, NEW V, Sound(u, V), NEW x \in V, NEW K, x \in K, UpClosed(u, V, K)
  PROVE  \E m \in V \cap K :
           Tops(u, m) /\ Ascended(u, x) = IF m = Root(u) THEN NULL ELSE Parent(u, m)
<1>1. Linked(u, V)
  BY DEF Sound, Tree
<1> PICK nu : Falls(u, V, nu) /\ \A n \in V : At(nu, n) <= 2 * Cardinality(V) + 1
  BY SoundFalls
<1> DEFINE body(g) == [k \in 0 .. Most |->
                         IF k = 0 THEN x
                         ELSE LET y == g[k - 1] IN IF Tops(u, y) THEN y ELSE Parent(u, y)]
<1> DEFINE Eq(g) == g = body(g)
<1> DEFINE c == CHOOSE g : Eq(g)
<1>2. Ascended(u, x) = IF c[Most] = Root(u) THEN NULL ELSE Parent(u, c[Most])
  BY DEF Ascended, Loop, Kid, Parent, Root, Tops
<1>3. /\ Most \in Nat /\ Cardinality(V) \in Nat /\ Most >= 2 * Cardinality(V) + 2
      /\ \A m \in V : At(nu, m) \in Nat
  BY <1>1, MostFacts DEF Linked, Falls, Counted, All
<1> DEFINE ok(k, m) == m \in K /\ (Tops(u, m) \/ At(nu, m) >= k)
<1> DEFINE R == [k \in Nat |-> {m \in V : ok(k, m)}]
<1> DEFINE next == [m \in V |-> IF Tops(u, m) THEN m ELSE Parent(u, m)]
<1>4. x \in R[0]
  BY <1>3
<1>5. ASSUME NEW k \in Nat, NEW m \in R[k] PROVE next[m] \in R[k + 1]
  <2>1. m \in V /\ ok(k, m)
    <3> HIDE DEF ok
    <3> QED
      OBVIOUS
  <2>2. CASE Tops(u, m)
    <3>1. next[m] = m /\ ok(k + 1, m)
      BY <2>1, <2>2
    <3> HIDE DEF ok, next
    <3> QED
      BY <2>1, <3>1
  <2>3. CASE ~ Tops(u, m)
    <3> PICK d : d = Parent(u, m)
      OBVIOUS
    <3>1. next[m] = d
      BY <2>1, <2>3
    <3>2. d \in V /\ d \in K /\ \E s \in Sides : Kid(u, s, d) = m
      BY <2>1, <2>3, <1>1 DEF Tops, Linked, UpClosed
    <3>3. m # Sentinel
      BY <2>1, <1>1, TreeAssumption DEF Linked
    <3>4. At(nu, m) < At(nu, d)
      BY <2>1, <3>2, <3>3 DEF Falls
    <3>5. At(nu, d) >= k + 1
      BY <2>1, <2>3, <3>2, <3>4, <1>3
    <3>6. ok(k + 1, d)
      BY <3>2, <3>5
    <3> HIDE DEF ok, next
    <3> QED
      BY <3>1, <3>2, <3>6
  <2> QED
    BY <2>2, <2>3
<1>6. Reached(R) \subseteq V
  BY DEF Reached
<1>7. Eq(c)
  <2>1. \E f : Runs(f, Reached(R), x, next, Most)
    <3> HIDE DEF R, next
    <3> QED
      BY <1>3, <1>4, <1>5, LoopRuns
  <2>2. PICK f : Runs(f, Reached(R), x, next, Most)
    BY <2>1
  <2>3. Eq(f)
    <3>1. f \in [0 .. Most -> Reached(R)] /\ f[0] = x
          /\ \A k \in 1 .. Most : f[k] = next[f[k - 1]]
      BY <2>2 DEF Runs
    <3>2. \A k \in 1 .. Most : f[k] = IF Tops(u, f[k - 1]) THEN f[k - 1] ELSE Parent(u, f[k - 1])
      <4> TAKE k \in 1 .. Most
      <4>1. k - 1 \in 0 .. Most
        BY <1>3
      <4>2. f[k - 1] \in V
        BY <4>1, <3>1, <1>6
      <4> QED
        BY <4>2, <3>1
    <3>3. \A k \in 0 .. Most : k # 0 => k \in 1 .. Most
      BY <1>3
    <3> HIDE DEF R, next
    <3> QED
      BY <3>1, <3>2, <3>3
  <2> HIDE DEF Eq
  <2> QED
    BY <2>3
<1>8. /\ c[0] = x
      /\ \A k \in 1 .. Most : c[k - 1] \in Reached(R) => c[k] = next[c[k - 1]]
  <2>1. c = body(c)
    BY <1>7
  <2> HIDE DEF c, R
  <2>2. c[0] = x
    BY <2>1, <1>3
  <2>3. ASSUME NEW k \in 1 .. Most, c[k - 1] \in Reached(R)
        PROVE  c[k] = next[c[k - 1]]
    <3>1. c[k] = IF Tops(u, c[k - 1]) THEN c[k - 1] ELSE Parent(u, c[k - 1])
      BY <2>1, <1>3
    <3> QED
      BY <3>1, <2>3, <1>6
  <2> HIDE DEF next
  <2> QED
    BY <2>2, <2>3
<1>9. c[Most] \in R[Most]
  <2> HIDE DEF c, R, next
  <2>1. Most \in 0 .. Most
    BY <1>3
  <2> QED
    BY <1>3, <1>4, <1>5, <1>8, <2>1, LoopRuns
<1> PICK m : m = c[Most]
  OBVIOUS
<1>10. m \in V /\ ok(Most, m)
  <2> HIDE DEF c, ok
  <2> QED
    BY <1>3, <1>9
<1>11. Tops(u, m)
  BY <1>3, <1>10
<1>12. Ascended(u, x) = IF m = Root(u) THEN NULL ELSE Parent(u, m)
  BY <1>2
<1> QED
  BY <1>10, <1>11, <1>12

\* rap_rbtree_next finds the next node of the order, and NULL after the last one.
LEMMA SuccessorIs ==
  ASSUME NEW u, NEW V, Sound(u, V), NEW pos, NEW N, InOrder(u, V, pos, N), NEW n \in V
  PROVE  /\ At(pos, n) = N => Successor(u, n) = NULL
         /\ At(pos, n) # N => Successor(u, n) \in V /\ At(pos, Successor(u, n)) = At(pos, n) + 1
<1> PICK b : Numbered(V, pos, N) /\ Framed(u, V, pos, N, b)
  BY DEF InOrder
<1> PICK mu : Linked(u, V) /\ Falls(u, V, mu)
  BY DEF Sound, Tree
<1>1. Sane(u, V)
  BY LinkedFacts
<1>2. "left" \in Sides /\ "right" \in Sides /\ Other("right") = "left" /\ Other("left") = "right"
  BY DEF Sides, Other
<1>3. N \in Nat /\ \A m \in V : At(pos, m) \in Nat /\ At(pos, m) <= N
  BY DEF Numbered
<1>4. CASE Kid(u, "right", n) # Sentinel
  <2> PICK x : x = Kid(u, "right", n)
    OBVIOUS
  <2>1. Successor(u, n) = Least(u, x)
    BY <1>4 DEF Successor, Kid
  <2>2. x \in V
    BY <1>1, <1>2, <1>4 DEF Sane
  <2>3. Least(u, x) \in V
    BY <2>2, LeastAs
  <2>4. At(pos, Least(u, x)) = At(pos, n) + 1
    <3>1. Follows(u, V, n, Least(u, x))
      BY <1>4, LeastFollows
    <3> QED
      BY <3>1 DEF Follows
  <2> QED
    BY <2>1, <2>3, <2>4, <1>3
<1>5. CASE Kid(u, "right", n) = Sentinel
  <2>1. Successor(u, n) = Ascended(u, n)
    BY <1>5 DEF Successor, Kid
  <2> DEFINE K == {m \in V : Edge(b, "right", m) = At(pos, n) + 1}
  <2>2. n \in K
    BY <1>2, <1>5 DEF Framed, Toward
  <2>3. ASSUME NEW m \in V \cap K, ~ Tops(u, m) PROVE Parent(u, m) \in K
    <3> PICK d : d = Parent(u, m)
      OBVIOUS
    <3>1. d \in V /\ \E s \in Sides : Kid(u, s, d) = m
      BY <2>3 DEF Tops, Linked
    <3>2. Kid(u, "right", d) = m /\ m # Sentinel
      BY <2>3, <3>1, <1>1 DEF Tops, Sides, Sane
    <3>3. Edge(b, "right", m) = Edge(b, "right", d)
      BY <3>1, <3>2, <1>2 DEF Framed
    <3> QED
      BY <3>1, <3>3
  <2>4. UpClosed(u, V, K)
    <3> HIDE DEF K
    <3> QED
      BY <2>3 DEF UpClosed
  <2>5. PICK m \in V \cap K : Tops(u, m) /\ Ascended(u, n) = IF m = Root(u) THEN NULL ELSE Parent(u, m)
    <3> HIDE DEF K
    <3> QED
      BY <2>2, <2>4, AscendedAs
  <2>6. m \in V /\ Edge(b, "right", m) = At(pos, n) + 1
    BY <2>5
  <2>7. CASE m = Root(u)
    <3>1. Edge(b, "right", m) = N + 1
      BY <2>6, <2>7 DEF Framed
    <3>2. At(pos, n) = N
      BY <3>1, <2>6, <1>3
    <3> QED
      BY <3>2, <2>1, <2>5, <2>7
  <2>8. CASE m # Root(u)
    <3> PICK d : d = Parent(u, m)
      OBVIOUS
    <3>1. d \in V /\ Kid(u, "left", d) = m /\ m # Sentinel
      BY <2>5, <2>6, <2>8, <1>1 DEF Tops, Sane
    <3>2. Edge(b, "right", m) = At(pos, d)
      BY <3>1, <1>2 DEF Framed
    <3>3. At(pos, n) # N
      BY <3>1, <3>2, <2>6, <1>3
    <3> QED
      BY <3>1, <3>2, <3>3, <2>1, <2>5, <2>6, <2>8
  <2> QED
    BY <2>7, <2>8
<1> QED
  BY <1>4, <1>5

\* rap_rbtree_min finds the first node of the order.
LEMMA FirstIs ==
  ASSUME NEW u, NEW V, Sound(u, V), NEW pos, NEW N, InOrder(u, V, pos, N), V # {}
  PROVE  Least(u, Root(u)) \in V /\ At(pos, Least(u, Root(u))) = 1
<1> PICK b : Numbered(V, pos, N) /\ Framed(u, V, pos, N, b)
  BY DEF InOrder
<1> PICK mu : Linked(u, V) /\ Falls(u, V, mu)
  BY DEF Sound, Tree
<1>1. Sane(u, V) /\ Root(u) \in V
  <2>1. Root(u) \in V
    BY DEF Linked
  <2> QED
    BY <2>1, LinkedFacts
<1>2. "left" \in Sides
  BY DEF Sides
<1> DEFINE K == {m \in V : Edge(b, "left", m) = 0}
<1>3. Root(u) \in K
  BY <1>1 DEF Framed
<1>4. LeftClosed(u, V, K)
  BY <1>1, <1>2 DEF Framed, LeftClosed, Sane
<1> PICK l : l = Least(u, Root(u))
  OBVIOUS
<1>5. l \in K /\ l \in V /\ Kid(u, "left", l) = Sentinel
  <2> HIDE DEF K
  <2> QED
    BY <1>1, <1>3, <1>4, LeastAs
<1>6. 0 = At(pos, l) - 1
  BY <1>2, <1>5 DEF Framed, Toward
<1>7. At(pos, l) \in Nat
  BY <1>5 DEF Numbered
<1> QED
  BY <1>5, <1>6, <1>7

\* s holds the nodes of V in the order pos
Lists(s, V, pos, N) == s \in Seq(V) /\ Len(s) = N /\ \A k \in 1 .. N : At(pos, s[k]) = k

\* A walk is a list of the nodes by number.
LEMMA ListsFacts ==
  ASSUME NEW s, NEW V, NEW pos, NEW N, V \subseteq Nodes, Lists(s, V, pos, N), Numbered(V, pos, N)
  PROVE  /\ N \in Nat /\ N <= Cardinality(V) /\ \A k \in 1 .. N : s[k] \in V
         /\ \A m \in V : s[At(pos, m)] = m
         /\ V = {} => N = 0
         /\ DOMAIN s = 1 .. N
<1>1. N \in Nat /\ s \in [1 .. N -> V] /\ DOMAIN s = 1 .. N
  BY LenProperties DEF Lists
<1>2. \A m \in V : s[At(pos, m)] = m
  <2> TAKE m \in V
  <2>1. At(pos, m) \in 1 .. N
    BY DEF Numbered
  <2> PICK k : k = At(pos, m)
    OBVIOUS
  <2>2. s[k] \in V /\ At(pos, s[k]) = k
    BY <1>1, <2>1 DEF Lists
  <2>3. s[k] = m
    BY <2>2 DEF Numbered
  <2> QED
    BY <2>3
<1>3. s \in Injection(1 .. N, V)
  <2>1. \A j, k \in 1 .. N : s[j] = s[k] => j = k
    BY <1>1 DEF Lists
  <2> QED
    BY <1>1, <2>1 DEF Injection, IsInjective
<1>4. IsFiniteSet(V)
  BY MostFacts
<1>5. N <= Cardinality(V)
  BY <1>1, <1>3, <1>4, FS_Injection, FS_Interval
<1>6. V = {} => N = 0
  <2>1. V = {} => Cardinality(V) = 0
    BY FS_EmptySet
  <2> QED
    BY <1>1, <1>5, <2>1
<1> QED
  BY <1>1, <1>2, <1>5, <1>6

\* One more element of s.
LEMMA AppendNext ==
  ASSUME NEW V, NEW s \in Seq(V), NEW k \in Nat, k + 1 <= Len(s)
  PROVE  Append(SubSeq(s, 1, k), s[k + 1]) = SubSeq(s, 1, k + 1)
<1>0. Len(s) \in Nat /\ \A i \in 1 .. Len(s) : s[i] \in V
  BY LenProperties, ElementOfSeq
<1>1. /\ SubSeq(s, 1, k) \in Seq(V) /\ Len(SubSeq(s, 1, k)) = k
      /\ \A i \in 1 .. k : SubSeq(s, 1, k)[i] = s[i]
  <2>1. \A i \in 1 .. k : s[i] \in V
    BY <1>0
  <2>2. /\ SubSeq(s, 1, k) \in Seq(V)
        /\ Len(SubSeq(s, 1, k)) = IF 1 <= k THEN k - 1 + 1 ELSE 0
        /\ \A i \in 1 .. k - 1 + 1 : SubSeq(s, 1, k)[i] = s[1 + i - 1]
    BY <2>1, SubSeqProperties
  <2> QED
    BY <2>2
<1>2. /\ SubSeq(s, 1, k + 1) \in Seq(V) /\ Len(SubSeq(s, 1, k + 1)) = k + 1
      /\ \A i \in 1 .. k + 1 : SubSeq(s, 1, k + 1)[i] = s[i]
  <2>1. \A i \in 1 .. k + 1 : s[i] \in V
    BY <1>0
  <2>2. /\ SubSeq(s, 1, k + 1) \in Seq(V)
        /\ Len(SubSeq(s, 1, k + 1)) = IF 1 <= k + 1 THEN k + 1 - 1 + 1 ELSE 0
        /\ \A i \in 1 .. k + 1 - 1 + 1 : SubSeq(s, 1, k + 1)[i] = s[1 + i - 1]
    BY <2>1, SubSeqProperties
  <2> QED
    BY <2>2
<1> PICK r, e, w : r = SubSeq(s, 1, k) /\ e = s[k + 1] /\ w = SubSeq(s, 1, k + 1)
  OBVIOUS
<1>3. e \in V
  BY <1>0
<1>4. /\ Append(r, e) \in Seq(V) /\ Len(Append(r, e)) = k + 1
      /\ \A i \in 1 .. k : Append(r, e)[i] = s[i]
      /\ Append(r, e)[k + 1] = e
  BY <1>1, <1>3, AppendProperties
<1>5. \A i \in 1 .. k + 1 : Append(r, e)[i] = w[i]
  <2> TAKE i \in 1 .. k + 1
  <2>1. i \in 1 .. k \/ i = k + 1
    OBVIOUS
  <2> QED
    BY <2>1, <1>2, <1>4
<1> QED
  BY <1>2, <1>4, <1>5, SeqEqual

\* where a walk is after k nodes
WalkState(s, N, k) ==
  IF k < N THEN [at |-> s[k + 1], met |-> SubSeq(s, 1, k)] ELSE [at |-> NULL, met |-> s]

\* A step of the walk.
Onwards(u, w) == [at |-> Successor(u, w.at), met |-> Append(w.met, w.at)]

\* a walk from the least node with rap_rbtree_next meets the nodes in their order
LEMMA WalkAs ==
  ASSUME NEW u, NEW V, V \subseteq Nodes, Sound(u, V), NEW pos, NEW N, InOrder(u, V, pos, N),
         NEW s, Lists(s, V, pos, N)
  PROVE  Walk(u) = s
<1>1. Linked(u, V) /\ Numbered(V, pos, N)
  BY DEF Sound, Tree, InOrder
<1>2. /\ N \in Nat /\ N <= Cardinality(V) /\ \A k \in 1 .. N : s[k] \in V
      /\ \A m \in V : s[At(pos, m)] = m
      /\ V = {} => N = 0
  BY <1>1, ListsFacts
<1>3. s \in Seq(V) /\ Len(s) = N /\ \A k \in 1 .. N : At(pos, s[k]) = k
  BY DEF Lists
<1>4. Root(u) = Sentinel <=> V = {}
  BY <1>1, TreeAssumption DEF Linked
<1>5. CASE V = {}
  <2>1. s = << >>
    BY <1>2, <1>3, <1>5, EmptySeq
  <2> QED
    BY <2>1, <1>4, <1>5 DEF Walk, Root
<1>6. CASE V # {}
  <2> DEFINE x == [at |-> Least(u, Root(u)), met |-> << >>]
  <2> DEFINE body(g) == [k \in 0 .. Most |->
                         IF k = 0 THEN x
                         ELSE LET y == g[k - 1] IN IF y.at = NULL THEN y ELSE Onwards(u, y)]
  <2> DEFINE Eq(g) == g = body(g)
  <2> DEFINE c == CHOOSE g : Eq(g)
  <2>1. Walk(u) = c[Most].met
    BY <1>4, <1>6 DEF Walk, Loop, Root, Onwards
  <2>2. Most \in Nat /\ N < Most
    <3>1. /\ Most \in Nat /\ Cardinality(V) \in Nat /\ Most >= 2 * Cardinality(V) + 2
      BY MostFacts
    <3> QED
      BY <3>1, <1>2
  <2> DEFINE R == [k \in Nat |-> {WalkState(s, N, k)}]
  <2>3. \A k \in Nat : k < N => s[k + 1] \in V /\ s[k + 1] # NULL /\ At(pos, s[k + 1]) = k + 1
    <3> TAKE k \in Nat
    <3>1. k < N => k + 1 \in 1 .. N
      BY <1>2
    <3>2. NULL \notin V
      BY TreeAssumption
    <3> QED
      BY <3>1, <3>2, <1>2, <1>3
  <2>4. N # 0
    <3> PICK m \in V : TRUE
      BY <1>6
    <3>1. At(pos, m) \in 1 .. N
      BY <1>1 DEF Numbered
    <3> QED
      BY <3>1, <1>2
  <2>5. x \in R[0]
    <3>1. Least(u, Root(u)) \in V /\ At(pos, Least(u, Root(u))) = 1
      BY <1>6, FirstIs
    <3>2. Least(u, Root(u)) = s[1]
      BY <3>1, <1>2
    <3>3. SubSeq(s, 1, 0) = << >>
      BY SubSeqEmpty
    <3>4. 0 < N
      BY <2>4, <1>2
    <3>5. x = WalkState(s, N, 0)
      BY <3>2, <3>3, <3>4 DEF WalkState
    <3> QED
      BY <3>5
  <2> DEFINE next == [w \in Reached(R) |-> IF w.at = NULL THEN w ELSE Onwards(u, w)]
  <2>6. \A k \in Nat : WalkState(s, N, k) \in Reached(R)
    BY DEF Reached
  <2>7. ASSUME NEW k \in Nat
        PROVE  WalkState(s, N, k + 1) =
                 IF WalkState(s, N, k).at = NULL THEN WalkState(s, N, k) ELSE Onwards(u, WalkState(s, N, k))
    <3> PICK w : w = WalkState(s, N, k)
      OBVIOUS
    <3>1. CASE k >= N
      <4>1. WalkState(s, N, k + 1) = w /\ w.at = NULL
        BY <3>1, <1>2 DEF WalkState
      <4> QED
        BY <4>1
    <3>2. CASE k < N
      <4>1. w.at = s[k + 1] /\ w.met = SubSeq(s, 1, k)
        BY <3>2 DEF WalkState
      <4>2. s[k + 1] \in V /\ s[k + 1] # NULL /\ At(pos, s[k + 1]) = k + 1
        BY <3>2, <2>3
      <4>3. Onwards(u, w) = [at |-> Successor(u, s[k + 1]), met |-> SubSeq(s, 1, k + 1)]
        <5>1. Append(SubSeq(s, 1, k), s[k + 1]) = SubSeq(s, 1, k + 1)
          BY <3>2, <1>2, <1>3, AppendNext
        <5> QED
          BY <5>1, <4>1 DEF Onwards
      <4>4. CASE k + 1 = N
        <5>1. Successor(u, s[k + 1]) = NULL
          BY <4>2, <4>4, SuccessorIs
        <5>2. SubSeq(s, 1, k + 1) = s
          BY <4>4, <1>3, SubSeqFull
        <5>3. WalkState(s, N, k + 1) = [at |-> NULL, met |-> s]
          BY <4>4, <1>2 DEF WalkState
        <5> QED
          BY <5>1, <5>2, <5>3, <4>1, <4>2, <4>3
      <4>5. CASE k + 1 # N
        <5>1. Successor(u, s[k + 1]) \in V /\ At(pos, Successor(u, s[k + 1])) = k + 1 + 1
          BY <4>2, <4>5, SuccessorIs
        <5>2. Successor(u, s[k + 1]) = s[k + 1 + 1]
          BY <5>1, <1>2
        <5>3. k + 1 < N
          BY <3>2, <4>5, <1>2
        <5>4. WalkState(s, N, k + 1) = [at |-> s[k + 1 + 1], met |-> SubSeq(s, 1, k + 1)]
          BY <5>3 DEF WalkState
        <5> QED
          BY <5>2, <5>4, <4>1, <4>2, <4>3
      <4> QED
        BY <4>4, <4>5
    <3> QED
      BY <3>1, <3>2, <1>2
  <2>8. ASSUME NEW k \in Nat, NEW w \in R[k] PROVE next[w] \in R[k + 1]
    <3>1. w = WalkState(s, N, k) /\ w \in Reached(R)
      BY <2>6, <2>8
    <3>2. next[w] = WalkState(s, N, k + 1)
      <4> HIDE DEF R
      <4> QED
        BY <3>1, <2>7
    <3> HIDE DEF next
    <3> QED
      BY <3>2
  <2>9. Eq(c)
    <3>1. \E f : Runs(f, Reached(R), x, next, Most)
      <4> HIDE DEF R, next, x
      <4> QED
        BY <2>2, <2>5, <2>8, LoopRuns
    <3>2. PICK f : Runs(f, Reached(R), x, next, Most)
      BY <3>1
    <3>3. Eq(f)
      <4>1. f \in [0 .. Most -> Reached(R)] /\ f[0] = x
            /\ \A k \in 1 .. Most : f[k] = next[f[k - 1]]
        BY <3>2 DEF Runs
      <4> HIDE DEF R, x
      <4>2. \A k \in 1 .. Most : f[k] = IF f[k - 1].at = NULL THEN f[k - 1] ELSE Onwards(u, f[k - 1])
        <5> TAKE k \in 1 .. Most
        <5>1. k - 1 \in 0 .. Most
          BY <2>2
        <5>2. f[k - 1] \in Reached(R)
          BY <5>1, <4>1
        <5> QED
          BY <5>2, <4>1
      <4>3. \A k \in 0 .. Most : k # 0 => k \in 1 .. Most
        BY <2>2
      <4> HIDE DEF next
      <4> QED
        BY <4>1, <4>2, <4>3
    <3> HIDE DEF Eq
    <3> QED
      BY <3>3
  <2>10. /\ c[0] = x
         /\ \A k \in 1 .. Most : c[k - 1] \in Reached(R) => c[k] = next[c[k - 1]]
    <3>1. c = body(c)
      BY <2>9
    <3> HIDE DEF c, R, x
    <3>2. c[0] = x
      BY <3>1, <2>2
    <3>3. ASSUME NEW k \in 1 .. Most, c[k - 1] \in Reached(R)
          PROVE  c[k] = next[c[k - 1]]
      <4>1. c[k] = IF c[k - 1].at = NULL THEN c[k - 1] ELSE Onwards(u, c[k - 1])
        BY <3>1, <2>2
      <4> QED
        BY <4>1, <3>3
    <3> HIDE DEF next
    <3> QED
      BY <3>2, <3>3
  <2>11. c[Most] \in R[Most]
    <3> HIDE DEF c, R, next, x
    <3>1. Most \in 0 .. Most
      BY <2>2
    <3> QED
      BY <2>2, <2>5, <2>8, <2>10, <3>1, LoopRuns
  <2>12. c[Most] = WalkState(s, N, Most)
    <3> HIDE DEF c
    <3> QED
      BY <2>2, <2>11
  <2>13. WalkState(s, N, Most).met = s
    BY <2>2, <1>2 DEF WalkState
  <2> QED
    BY <2>1, <2>12, <2>13
<1> QED
  BY <1>5, <1>6

\* s with e before its k-th element, and s without that element
With(s, k, e) == SubSeq(s, 1, k - 1) \o <<e>> \o SubSeq(s, k, Len(s))
Without(s, k) == SubSeq(s, 1, k - 1) \o SubSeq(s, k + 1, Len(s))

\* What those sequences are, element by element.
IsWith(r, s, V, k, e) ==
  /\ r \in Seq(V \cup {e}) /\ Len(r) = Len(s) + 1
  /\ \A j \in 1 .. Len(s) + 1 : r[j] = IF j < k THEN s[j] ELSE IF j = k THEN e ELSE s[j - 1]

IsWithout(r, s, k) ==
  /\ Len(r) = Len(s) - 1
  /\ DOMAIN r = 1 .. Len(s) - 1
  /\ \A j \in 1 .. Len(s) - 1 : r[j] = IF j < k THEN s[j] ELSE s[j + 1]
  /\ \A W : (\A j \in 1 .. Len(s) : j # k => s[j] \in W) => r \in Seq(W)

\* The two parts of a sequence that either keeps.
LEMMA PartsOf ==
  ASSUME NEW V, NEW s \in Seq(V), NEW i \in Nat, i <= Len(s), NEW k \in Nat \ {0}, k <= Len(s) + 1
  PROVE  /\ SubSeq(s, 1, i) \in Seq(V) /\ Len(SubSeq(s, 1, i)) = i
         /\ \A j \in 1 .. i : SubSeq(s, 1, i)[j] = s[j]
         /\ SubSeq(s, k, Len(s)) \in Seq(V) /\ Len(SubSeq(s, k, Len(s))) = Len(s) + 1 - k
         /\ \A j \in 1 .. Len(s) + 1 - k : SubSeq(s, k, Len(s))[j] = s[k + j - 1]
<1> PICK N : N = Len(s)
  OBVIOUS
<1>0. N \in Nat /\ \A j \in 1 .. N : s[j] \in V
  BY LenProperties, ElementOfSeq
<1>1. /\ SubSeq(s, 1, i) \in Seq(V) /\ Len(SubSeq(s, 1, i)) = i
      /\ \A j \in 1 .. i : SubSeq(s, 1, i)[j] = s[j]
  <2>1. \A j \in 1 .. i : s[j] \in V
    BY <1>0
  <2>2. /\ SubSeq(s, 1, i) \in Seq(V)
        /\ Len(SubSeq(s, 1, i)) = IF 1 <= i THEN i - 1 + 1 ELSE 0
        /\ \A j \in 1 .. i - 1 + 1 : SubSeq(s, 1, i)[j] = s[1 + j - 1]
    BY <2>1, SubSeqProperties
  <2> QED
    BY <2>2
<1>2. /\ SubSeq(s, k, N) \in Seq(V) /\ Len(SubSeq(s, k, N)) = N + 1 - k
      /\ \A j \in 1 .. N + 1 - k : SubSeq(s, k, N)[j] = s[k + j - 1]
  <2>1. \A j \in k .. N : s[j] \in V
    BY <1>0
  <2>2. /\ SubSeq(s, k, N) \in Seq(V)
        /\ Len(SubSeq(s, k, N)) = IF k <= N THEN N - k + 1 ELSE 0
        /\ \A j \in 1 .. N - k + 1 : SubSeq(s, k, N)[j] = s[k + j - 1]
    BY <1>0, <2>1, SubSeqProperties
  <2> QED
    BY <2>2, <1>0
<1> QED
  BY <1>1, <1>2

\* InsertAt puts one element in and moves the rest as they are.
LEMMA WithIs ==
  ASSUME NEW V, NEW s \in Seq(V), NEW k \in 1 .. Len(s) + 1, NEW e
  PROVE  IsWith(With(s, k, e), s, V, k, e)
<1> PICK N, W : N = Len(s) /\ W = V \cup {e}
  OBVIOUS
<1>a. PICK a, b, one : one = <<e>> /\ a = SubSeq(s, 1, k - 1) /\ b = SubSeq(s, k, N)
  OBVIOUS
<1>0. N \in Nat
  BY LenProperties
<1>1. s \in Seq(W)
  BY SeqMonotonic
<1>2. /\ a \in Seq(W) /\ Len(a) = k - 1 /\ \A j \in 1 .. k - 1 : a[j] = s[j]
      /\ b \in Seq(W) /\ Len(b) = N + 1 - k /\ \A j \in 1 .. N + 1 - k : b[j] = s[k + j - 1]
  <2>1. k - 1 \in Nat /\ k \in Nat \ {0} /\ k - 1 <= Len(s) /\ k <= Len(s) + 1
    BY <1>0
  <2>2. /\ SubSeq(s, 1, k - 1) \in Seq(W) /\ Len(SubSeq(s, 1, k - 1)) = k - 1
        /\ \A j \in 1 .. k - 1 : SubSeq(s, 1, k - 1)[j] = s[j]
        /\ SubSeq(s, k, Len(s)) \in Seq(W) /\ Len(SubSeq(s, k, Len(s))) = Len(s) + 1 - k
        /\ \A j \in 1 .. Len(s) + 1 - k : SubSeq(s, k, Len(s))[j] = s[k + j - 1]
    BY <1>1, <2>1, PartsOf
  <2> QED
    BY <1>1, <1>a, <2>2
<1>3. one \in Seq(W) /\ Len(one) = 1 /\ one[1] = e
  BY <1>a
<1>b. PICK c : c = a \o one
  OBVIOUS
<1>4. /\ c \in Seq(W) /\ Len(c) = k
      /\ \A j \in 1 .. k : c[j] = IF j <= k - 1 THEN a[j] ELSE one[j - (k - 1)]
  <2>1. /\ c \in Seq(W) /\ Len(c) = Len(a) + Len(one)
        /\ \A j \in 1 .. Len(a) + Len(one) : c[j] = IF j <= Len(a) THEN a[j] ELSE one[j - Len(a)]
    BY <1>2, <1>3, <1>b, ConcatProperties
  <2>2. Len(a) + Len(one) = k
    BY <1>2, <1>3
  <2> QED
    BY <2>1, <2>2, <1>2
<1>5. \A j \in 1 .. k : c[j] = IF j < k THEN s[j] ELSE e
  <2> TAKE j \in 1 .. k
  <2>1. CASE j < k
    BY <2>1, <1>2, <1>4
  <2>2. CASE j = k
    <3>1. k - (k - 1) = 1 /\ ~ k <= k - 1 /\ k \in 1 .. k
      BY <1>0
    <3>2. c[k] = one[k - (k - 1)]
      BY <3>1, <1>4
    <3> QED
      BY <2>2, <3>1, <3>2, <1>3
  <2> QED
    BY <2>1, <2>2
<1>c. PICK p : p = With(s, k, e)
  OBVIOUS
<1>6. p = c \o b /\ c \in Seq(W) /\ b \in Seq(W)
  BY <1>2, <1>4, <1>a, <1>b, <1>c DEF With
<1>7. /\ p \in Seq(W) /\ Len(p) = N + 1
      /\ \A j \in 1 .. N + 1 : p[j] = IF j <= k THEN c[j] ELSE b[j - k]
  <2>1. /\ c \o b \in Seq(W) /\ Len(c \o b) = Len(c) + Len(b)
        /\ \A j \in 1 .. Len(c) + Len(b) : (c \o b)[j] = IF j <= Len(c) THEN c[j] ELSE b[j - Len(c)]
    BY <1>6, ConcatProperties
  <2>2. Len(c) + Len(b) = N + 1
    BY <1>0, <1>2, <1>4
  <2> QED
    BY <2>1, <2>2, <1>4, <1>6
<1>8. ASSUME NEW j \in 1 .. N + 1 PROVE p[j] = IF j < k THEN s[j] ELSE IF j = k THEN e ELSE s[j - 1]
  <2>1. CASE j <= k
    BY <2>1, <1>5, <1>7
  <2>2. CASE j > k
    <3>1. j - k \in 1 .. N + 1 - k /\ k + (j - k) - 1 = j - 1
      BY <2>2, <1>0
    <3>2. b[j - k] = s[j - 1]
      BY <3>1, <1>2
    <3> QED
      BY <2>2, <3>2, <1>7
  <2> QED
    BY <2>1, <2>2
<1> QED
  BY <1>7, <1>8, <1>c DEF IsWith

\* RemoveAt takes one element out and moves the rest as they are.
LEMMA WithoutIs ==
  ASSUME NEW V, NEW s \in Seq(V), NEW k \in 1 .. Len(s)
  PROVE  IsWithout(Without(s, k), s, k)
<1> PICK N : N = Len(s)
  OBVIOUS
<1>a. PICK a, b, p : a = SubSeq(s, 1, k - 1) /\ b = SubSeq(s, k + 1, N) /\ p = Without(s, k)
  OBVIOUS
<1>0. N \in Nat
  BY LenProperties
<1>2. /\ a \in Seq(V) /\ Len(a) = k - 1 /\ \A j \in 1 .. k - 1 : a[j] = s[j]
      /\ b \in Seq(V) /\ Len(b) = N - k /\ \A j \in 1 .. N - k : b[j] = s[k + j]
  <2>1. k - 1 \in Nat /\ k + 1 \in Nat \ {0} /\ k - 1 <= N /\ k + 1 <= N + 1
    BY <1>0
  <2>2. /\ a \in Seq(V) /\ Len(a) = k - 1 /\ \A j \in 1 .. k - 1 : a[j] = s[j]
        /\ b \in Seq(V) /\ Len(b) = N + 1 - (k + 1) /\ \A j \in 1 .. N + 1 - (k + 1) : b[j] = s[k + 1 + j - 1]
    BY <1>a, <2>1, PartsOf
  <2>3. N + 1 - (k + 1) = N - k /\ \A j \in 1 .. N - k : k + 1 + j - 1 = k + j
    BY <1>0
  <2> QED
    BY <2>2, <2>3
<1>3. p = a \o b
  BY <1>a DEF Without
<1>4. /\ p \in Seq(V) /\ Len(p) = N - 1
      /\ \A j \in 1 .. N - 1 : p[j] = IF j <= k - 1 THEN a[j] ELSE b[j - (k - 1)]
  <2>1. /\ p \in Seq(V) /\ Len(p) = Len(a) + Len(b)
        /\ \A j \in 1 .. Len(a) + Len(b) : p[j] = IF j <= Len(a) THEN a[j] ELSE b[j - Len(a)]
    BY <1>2, <1>3, ConcatProperties
  <2>2. Len(a) + Len(b) = N - 1
    BY <1>0, <1>2
  <2> QED
    BY <2>1, <2>2, <1>2
<1>5. ASSUME NEW j \in 1 .. N - 1 PROVE p[j] = IF j < k THEN s[j] ELSE s[j + 1]
  <2>1. CASE j < k
    <3>1. j \in 1 .. k - 1 /\ j <= k - 1
      BY <2>1, <1>0
    <3>2. a[j] = s[j]
      BY <3>1, <1>2
    <3> QED
      BY <2>1, <3>1, <3>2, <1>4
  <2>2. CASE j >= k
    <3>1. j - (k - 1) \in 1 .. N - k /\ k + (j - (k - 1)) = j + 1 /\ ~ j <= k - 1
      BY <2>2, <1>0
    <3>2. b[j - (k - 1)] = s[j + 1]
      BY <3>1, <1>2
    <3> QED
      BY <2>2, <3>1, <3>2, <1>4
  <2> QED
    BY <2>1, <2>2
<1>6. DOMAIN p = 1 .. N - 1 /\ p = [j \in 1 .. N - 1 |-> p[j]]
  BY <1>4, LenProperties
<1>7. ASSUME NEW W, \A j \in 1 .. N : j # k => s[j] \in W PROVE p \in Seq(W)
  <2>1. \A j \in 1 .. N - 1 : p[j] \in W
    <3> TAKE j \in 1 .. N - 1
    <3>1. CASE j < k
      BY <3>1, <1>0, <1>5, <1>7
    <3>2. CASE j >= k
      <4>1. j + 1 \in 1 .. N /\ j + 1 # k
        BY <3>2, <1>0
      <4> QED
        BY <3>2, <4>1, <1>5, <1>7
    <3> QED
      BY <3>1, <3>2
  <2>2. p \in [1 .. N - 1 -> W]
    BY <2>1, <1>6
  <2>3. N - 1 \in Nat
    BY <1>0
  <2> QED
    BY <2>2, <2>3, SeqDef
<1>8. \A W : (\A j \in 1 .. N : j # k => s[j] \in W) => p \in Seq(W)
  BY <1>7
<1> QED
  BY <1>4, <1>5, <1>6, <1>8, <1>a DEF IsWithout

\* the walk of a tree that node was put into as the p-th
LEMMA WithLists ==
  ASSUME NEW s, NEW V, NEW pos, NEW N, Lists(s, V, pos, N), Numbered(V, pos, N),
         NEW node, NEW p \in 1 .. N + 1, NEW q, Shifted(V, pos, p, node, q)
  PROVE  Lists(With(s, p, node), V \cup {node}, q, N + 1)
<1>r. PICK r : r = With(s, p, node)
  OBVIOUS
<1>1. s \in Seq(V) /\ Len(s) = N /\ \A k \in 1 .. N : At(pos, s[k]) = k /\ s[k] \in V
  BY ElementOfSeq DEF Lists
<1>2. N \in Nat
  BY DEF Numbered
<1>a. p \in 1 .. Len(s) + 1
  BY <1>1
<1>b. IsWith(r, s, V, p, node)
  BY <1>1, <1>a, <1>r, WithIs
<1>3. /\ r \in Seq(V \cup {node}) /\ Len(r) = N + 1
      /\ \A j \in 1 .. N + 1 : r[j] = IF j < p THEN s[j] ELSE IF j = p THEN node ELSE s[j - 1]
  BY <1>1, <1>b DEF IsWith
<1>4. ASSUME NEW j \in 1 .. N + 1 PROVE At(q, r[j]) = j
  <2>1. CASE j < p
    <3>1. j \in 1 .. N
      BY <2>1, <1>2
    <3>2. r[j] = s[j] /\ s[j] \in V /\ At(pos, s[j]) = j
      BY <2>1, <3>1, <1>1, <1>3
    <3> QED
      BY <2>1, <3>2 DEF Shifted
  <2>2. CASE j = p
    BY <2>2, <1>3 DEF Shifted
  <2>3. CASE j > p
    <3>1. j - 1 \in 1 .. N /\ ~ j - 1 < p
      BY <2>3, <1>2
    <3>2. r[j] = s[j - 1] /\ s[j - 1] \in V /\ At(pos, s[j - 1]) = j - 1
      BY <2>3, <3>1, <1>1, <1>3
    <3>3. At(q, r[j]) = j - 1 + 1
      BY <3>1, <3>2 DEF Shifted
    <3> QED
      BY <3>3
  <2> QED
    BY <2>1, <2>2, <2>3
<1> QED
  BY <1>3, <1>4, <1>r DEF Lists

\* The walk of a tree that node was taken out of.
LEMMA WithoutLists ==
  ASSUME NEW s, NEW V, NEW pos, NEW N, Lists(s, V, pos, N), Numbered(V, pos, N),
         NEW node \in V, NEW p, p = At(pos, node), NEW q, Dropped(V, pos, node, q)
  PROVE  Lists(Without(s, p), V \ {node}, q, N - 1)
<1>r. PICK r : r = Without(s, p)
  OBVIOUS
<1>1. s \in Seq(V) /\ Len(s) = N /\ \A k \in 1 .. N : At(pos, s[k]) = k /\ s[k] \in V
  BY ElementOfSeq DEF Lists
<1>2. N \in Nat /\ p \in 1 .. N
  BY DEF Numbered
<1>a. p \in 1 .. Len(s)
  BY <1>1, <1>2
<1>b. IsWithout(r, s, p)
  BY <1>1, <1>a, <1>r, WithoutIs
<1>3. /\ Len(r) = N - 1
      /\ \A j \in 1 .. N - 1 : r[j] = IF j < p THEN s[j] ELSE s[j + 1]
      /\ \A W : (\A j \in 1 .. N : j # p => s[j] \in W) => r \in Seq(W)
  BY <1>1, <1>b DEF IsWithout
<1>4. \A j \in 1 .. N : j # p => s[j] \in V \ {node}
  BY <1>1
<1>5. ASSUME NEW j \in 1 .. N - 1 PROVE At(q, r[j]) = j
  <2>1. CASE j < p
    <3>1. j \in 1 .. N
      BY <2>1, <1>2
    <3>2. r[j] = s[j] /\ s[j] \in V \ {node} /\ At(pos, s[j]) = j
      BY <2>1, <3>1, <1>1, <1>3
    <3> QED
      BY <2>1, <3>2 DEF Dropped
  <2>2. CASE j >= p
    <3>1. j + 1 \in 1 .. N /\ ~ j + 1 < p /\ j + 1 # p /\ ~ j < p
      BY <2>2, <1>2
    <3>2. r[j] = s[j + 1] /\ s[j + 1] \in V \ {node} /\ At(pos, s[j + 1]) = j + 1
      BY <3>1, <1>1, <1>3, <1>4
    <3>3. At(q, r[j]) = j + 1 - 1
      BY <3>1, <3>2 DEF Dropped
    <3> QED
      BY <3>3
  <2> QED
    BY <2>1, <2>2, <1>2
<1> QED
  BY <1>3, <1>4, <1>5, <1>r DEF Lists

\* The division theorem: a remainder is the only one.
LEMMA Remainder ==
  ASSUME NEW a \in Int, NEW R \in Nat \ {0}, NEW k \in Int, NEW x \in 0 .. R - 1, a = R * k + x
  PROVE  a % R = x
BY SMT

\* And there is one.
LEMMA Division ==
  ASSUME NEW a \in Nat, NEW R \in Nat \ {0}
  PROVE  \E k \in Nat, x \in Nat : a = R * k + x /\ a % R = x
<1> DEFINE T == {x \in Nat : \E k \in Nat : a = R * k + x}
<1>1. a \in T
  <2>1. a = R * 0 + a
    OBVIOUS
  <2> QED
    BY <2>1
<1>2. T \subseteq Nat
  OBVIOUS
<1>3. PICK x \in T : \A y \in T : x <= y
  <2> HIDE DEF T
  <2> QED
    BY <1>1, <1>2, LeastElement
<1>4. PICK k \in Nat : a = R * k + x /\ x \in Nat
  BY <1>3
<1>5. ASSUME x >= R PROVE FALSE
  <2>1. a = R * (k + 1) + (x - R)
    BY <1>4
  <2>2. x - R \in T
    BY <2>1, <1>4, <1>5
  <2> HIDE DEF T
  <2>3. x <= x - R
    BY <2>2, <1>3
  <2> QED
    BY <2>3, <1>4
<1>6. x \in 0 .. R - 1
  BY <1>4, <1>5
<1>7. a \in Int /\ k \in Int
  BY <1>4
<1> HIDE DEF T
<1>8. a % R = x
  <2>1. PICK c \in Int, j \in Int, z \in 0 .. R - 1 : c = R * j + z /\ c = a /\ j = k /\ z = x
    BY <1>4, <1>6, <1>7
  <2>2. c % R = z
    BY <2>1, Remainder
  <2> QED
    BY <2>1, <2>2
<1> QED
  BY <1>4, <1>8

\* two times less than half the range apart, compared by the sign of the difference of their keys
LEMMA TimerWraps ==
  ASSUME NEW a \in Nat, NEW b \in Nat, NEW R \in Nat \ {0}, NEW h, h = R \div 2,
         a - b \in (1 - h) .. (h - 1), NEW x, x = a % R, NEW y, y = b % R
  PROVE  (x - y) % R >= h <=> a < b
<1>a. PICK d : d = a - b
  OBVIOUS
<1>1. h \in Nat /\ 2 * h <= R /\ h < R
  OBVIOUS
<1>2. x \in Nat /\ y \in Nat
  OBVIOUS
<1>e. PICK i \in Nat, v \in Nat : a = R * i + v /\ a % R = v
  BY Division
<1>f. PICK j \in Nat, r \in Nat : b = R * j + r /\ b % R = r
  BY Division
<1>g. v = x /\ r = y
  BY <1>e, <1>f
<1>3. a = R * i + x
  BY <1>e, <1>g
<1>4. b = R * j + y
  BY <1>f, <1>g
<1>5. d \in Int /\ d >= 1 - h /\ d <= h - 1 /\ (a >= b <=> d >= 0)
  BY <1>1, <1>a
<1> SUFFICES (x - y) % R >= h <=> ~ d >= 0
  BY <1>5
<1>c. PICK w, e : w = x - y /\ e = j - i
  OBVIOUS
<1>d. e \in Int
  BY <1>c
<1>8. w = R * e + d
  <2>1. R * e = R * j - R * i /\ R * j \in Int /\ R * i \in Int
    BY <1>c
  <2>2. PICK f, g, z : f = R * i /\ g = R * j /\ z = R * e
    OBVIOUS
  <2>3. a = f + x /\ b = g + y /\ z = g - f /\ f \in Int /\ g \in Int
    BY <1>3, <1>4, <2>1, <2>2
  <2>4. w = z + d
    BY <2>3, <1>2, <1>a, <1>c
  <2> QED
    BY <2>2, <2>4
<1>6. CASE d >= 0
  <2>1. w = R * e + d
    BY <1>8
  <2>2. d \in 0 .. R - 1 /\ w \in Int /\ e \in Int
    BY <1>1, <1>2, <1>5, <1>6, <1>c, <1>d
  <2>3. w % R = d
    BY <2>1, <2>2, Remainder
  <2> QED
    BY <2>3, <1>1, <1>5, <1>6, <1>c
<1>7. CASE ~ d >= 0
  <2>1. R * (e - 1) = R * e - R /\ R * e \in Int
    BY <1>d
  <2>4. w = R * (e - 1) + (d + R)
    BY <2>1, <1>5, <1>8
  <2>2. d + R \in 0 .. R - 1 /\ w \in Int /\ e - 1 \in Int
    BY <1>1, <1>2, <1>5, <1>7, <1>c, <1>d
  <2>3. w % R = d + R
    BY <2>4, <2>2, Remainder
  <2> QED
    BY <2>3, <1>1, <1>5, <1>7, <1>c
<1> QED
  BY <1>6, <1>7

\* The rank of a node.
Rank(n) == caller.rank[n]

(***************************************************************************)
(* Each of the three comparisons goes left of the nodes of a greater rank  *)
(* and of no others: numbers, timers less than half the range apart across *)
(* the wrap of their keys, and strings by hash, length and bytes.          *)
(***************************************************************************)
LEMMA GoesLeftIs ==
  ASSUME caller \in Callers, NEW n \in Nodes, live \subseteq Nodes, SmallRange(n), NEW m \in live
  PROVE  Rank(n) \in Nat /\ Rank(m) \in Nat /\ (GoesLeft(n, m) <=> Rank(n) < Rank(m))
<1>1. m \in Nodes /\ Rank(n) \in Nat /\ Rank(m) \in Nat /\ KeyRange \in Nat \ {0}
  BY TreeAssumption DEF Rank
<1>2. caller.kind \in {"value", "timer", "string"}
  BY TreeAssumption
<1>3. CASE caller.kind = "value"
  <2>1. GoesLeft(n, m) <=> caller.key[n] < caller.key[m]
    BY <1>3 DEF GoesLeft, Key
  <2>2. caller.key[n] < caller.key[m] <=> Rank(n) < Rank(m)
    BY <1>1, <1>3, CallerAssumption DEF Rank
  <2> QED
    BY <1>1, <2>1, <2>2
<1>4. CASE caller.kind = "timer"
  <2>1. GoesLeft(n, m) <=> (caller.key[n] - caller.key[m]) % KeyRange >= KeyRange \div 2
    BY <1>4 DEF GoesLeft, Key
  <2>2. caller.key[n] = Rank(n) % KeyRange /\ caller.key[m] = Rank(m) % KeyRange
    BY <1>1, <1>4, CallerAssumption DEF Rank
  <2>3. Rank(n) - Rank(m) \in (1 - KeyRange \div 2) .. (KeyRange \div 2 - 1)
    BY <1>4 DEF SmallRange, Rank
  <2>4. PICK a, b, x, y, h : /\ a = Rank(n) /\ b = Rank(m) /\ x = caller.key[n] /\ y = caller.key[m]
                             /\ h = KeyRange \div 2
    OBVIOUS
  <2>5. (x - y) % KeyRange >= h <=> a < b
    BY <1>1, <2>2, <2>3, <2>4, TimerWraps
  <2> QED
    BY <1>1, <2>1, <2>4, <2>5
<1>5. CASE caller.kind = "string"
  <2>1. GoesLeft(n, m) <=> StringBefore(caller.key[n], caller.key[m])
    BY <1>5 DEF GoesLeft, Key
  <2>2. StringBefore(caller.key[n], caller.key[m]) <=> Rank(n) < Rank(m)
    BY <1>1, <1>5, CallerAssumption DEF Rank
  <2> QED
    BY <1>1, <2>1, <2>2
<1> QED
  BY <1>2, <1>3, <1>4, <1>5

\* no node has one of a greater rank before it
Sorted(s) == \A i, j \in DOMAIN s : i < j => Rank(s[i]) <= Rank(s[j])

\* node belongs behind the p - 1 nodes of s that ask for no place behind it
Belongs(s, p, node) == \A i \in 1 .. Len(s) : i < p <=> Rank(s[i]) <= Rank(node)

\* A sorted walk with node where it belongs is sorted.
LEMMA WithSorted ==
  ASSUME NEW V, NEW s \in Seq(V), NEW node, NEW p \in 1 .. Len(s) + 1, Sorted(s), Belongs(s, p, node),
         Rank(node) \in Nat, \A m \in V : Rank(m) \in Nat
  PROVE  Sorted(With(s, p, node))
<1> PICK N : N = Len(s)
  OBVIOUS
<1>r. PICK r : r = With(s, p, node)
  OBVIOUS
<1>0. N \in Nat /\ DOMAIN s = 1 .. N /\ \A j \in 1 .. N : s[j] \in V
  BY LenProperties, ElementOfSeq
<1>1. IsWith(r, s, V, p, node)
  BY <1>r, WithIs
<1>2. \A j \in 1 .. N + 1 : r[j] = IF j < p THEN s[j] ELSE IF j = p THEN node ELSE s[j - 1]
  BY <1>1 DEF IsWith
<1>3. DOMAIN r = 1 .. N + 1
  BY <1>1, LenProperties DEF IsWith
<1>4. \A i \in 1 .. N : (i < p <=> Rank(s[i]) <= Rank(node)) /\ Rank(s[i]) \in Nat
  BY <1>0 DEF Belongs
<1>5. \A i, j \in 1 .. N : i < j => Rank(s[i]) <= Rank(s[j])
  BY <1>0 DEF Sorted
<1>6. ASSUME NEW i \in 1 .. N + 1, NEW j \in 1 .. N + 1, i < j PROVE Rank(r[i]) <= Rank(r[j])
  <2>1. CASE j < p
    <3>1. i \in 1 .. N /\ j \in 1 .. N /\ r[i] = s[i] /\ r[j] = s[j]
      BY <2>1, <1>0, <1>2, <1>6
    <3> QED
      BY <3>1, <1>5, <1>6
  <2>2. CASE j = p
    <3>1. i \in 1 .. N /\ i < p /\ r[i] = s[i] /\ r[j] = node
      BY <2>2, <1>0, <1>2, <1>6
    <3> QED
      BY <3>1, <1>4
  <2>3. CASE j > p
    <3> PICK k : k = j - 1
      OBVIOUS
    <3>1. k \in 1 .. N /\ ~ k < p /\ r[j] = s[k]
      BY <2>3, <1>0, <1>2
    <3>2. Rank(node) <= Rank(s[k])
      BY <3>1, <1>4
    <3>3. CASE i < p
      <4>1. i \in 1 .. N /\ i < k /\ r[i] = s[i]
        BY <2>3, <3>3, <1>0, <1>2
      <4> QED
        BY <4>1, <3>1, <1>5
    <3>4. CASE i = p
      BY <3>1, <3>2, <3>4, <1>2
    <3>5. CASE i > p
      <4> PICK l : l = i - 1
        OBVIOUS
      <4>1. l \in 1 .. N /\ l < k /\ r[i] = s[l]
        BY <3>5, <1>0, <1>2, <1>6
      <4> QED
        BY <4>1, <3>1, <1>5
    <3> QED
      BY <3>3, <3>4, <3>5
  <2> QED
    BY <2>1, <2>2, <2>3
<1> QED
  BY <1>3, <1>6, <1>r DEF Sorted

\* A sorted walk without one of its nodes is sorted.
LEMMA WithoutSorted ==
  ASSUME NEW V, NEW s \in Seq(V), NEW p \in 1 .. Len(s), Sorted(s)
  PROVE  Sorted(Without(s, p))
<1> PICK N : N = Len(s)
  OBVIOUS
<1>r. PICK r : r = Without(s, p)
  OBVIOUS
<1>0. N \in Nat /\ DOMAIN s = 1 .. N
  BY LenProperties
<1>1. IsWithout(r, s, p)
  BY <1>r, WithoutIs
<1>2. DOMAIN r = 1 .. N - 1 /\ \A j \in 1 .. N - 1 : r[j] = IF j < p THEN s[j] ELSE s[j + 1]
  BY <1>1 DEF IsWithout
<1>5. \A i, j \in 1 .. N : i < j => Rank(s[i]) <= Rank(s[j])
  BY <1>0 DEF Sorted
<1>6. ASSUME NEW i \in 1 .. N - 1, NEW j \in 1 .. N - 1, i < j PROVE Rank(r[i]) <= Rank(r[j])
  <2>1. \A k \in 1 .. N - 1 : k \in 1 .. N /\ k + 1 \in 1 .. N
    BY <1>0
  <2>2. CASE j < p
    <3>1. r[i] = s[i] /\ r[j] = s[j]
      BY <2>2, <1>2, <1>6
    <3> QED
      BY <3>1, <2>1, <1>5, <1>6
  <2>3. CASE i < p /\ ~ j < p
    <3>1. r[i] = s[i] /\ r[j] = s[j + 1] /\ i < j + 1
      BY <2>3, <1>2, <1>6
    <3> QED
      BY <3>1, <2>1, <1>5
  <2>4. CASE ~ i < p /\ ~ j < p
    <3>1. r[i] = s[i + 1] /\ r[j] = s[j + 1] /\ i + 1 < j + 1
      BY <2>4, <1>2, <1>6
    <3> QED
      BY <3>1, <2>1, <1>5
  <2> QED
    BY <2>2, <2>3, <2>4, <1>6
<1> QED
  BY <1>2, <1>6, <1>r DEF Sorted

(***************************************************************************)
(* The inductive invariant: between two operations the nodes in the tree   *)
(* are a balanced tree.                                                    *)
(***************************************************************************)
TreeInv == live \subseteq Nodes /\ Sound(t, live)

\* the walk meets the nodes of the tree in order, and their order is that of the ranks
InRanks(pos) ==
  /\ InOrder(t, live, pos, Len(walk))
  /\ Lists(walk, live, pos, Len(walk))
  /\ Sorted(walk)

(***************************************************************************)
(* rap_rbtree_insert puts the node into the walk where it belongs: behind  *)
(* the nodes of its rank, before those of a greater one.                   *)
(***************************************************************************)
LEMMA InsertRanks ==
  ASSUME TreeInv, caller \in Callers, NEW n \in Nodes, Insert(n), NEW pos, InRanks(pos)
  PROVE  \E p \in 1 .. Len(walk) + 1 : \E q :
           /\ walk' = With(walk, p, n) /\ Belongs(walk, p, n)
           /\ InOrder(t', live', q, Len(walk')) /\ Lists(walk', live', q, Len(walk')) /\ Sorted(walk')
<1> PICK N : N = Len(walk)
  OBVIOUS
<1>1. /\ n \notin live /\ SmallRange(n) /\ live' = live \cup {n}
      /\ t' = Settled(Inserted(t, n), live \cup {n}) /\ walk' = Walk(t')
  BY DEF Insert
<1>2. live \subseteq Nodes /\ Sound(t, live)
  BY DEF TreeInv
<1>3. InOrder(t, live, pos, N) /\ Lists(walk, live, pos, N) /\ Sorted(walk) /\ Numbered(live, pos, N)
  BY DEF InRanks, InOrder
<1>4. /\ N \in Nat /\ \A m \in live : walk[At(pos, m)] = m /\ At(pos, m) \in 1 .. N
      /\ live = {} => N = 0
      /\ DOMAIN walk = 1 .. N
  <2>1. \A m \in live : At(pos, m) \in 1 .. N
    BY <1>3 DEF Numbered
  <2> QED
    BY <2>1, <1>2, <1>3, ListsFacts
<1>5. walk \in Seq(live) /\ \A i \in 1 .. N : walk[i] \in live /\ At(pos, walk[i]) = i
  BY <1>3, ElementOfSeq DEF Lists
<1>6. /\ Rank(n) \in Nat
      /\ \A m \in live : Rank(m) \in Nat /\ (GoesLeft(n, m) <=> Rank(n) < Rank(m))
  <2>1. Rank(n) \in Nat
    BY TreeAssumption DEF Rank
  <2> QED
    BY <2>1, <1>1, <1>2, GoesLeftIs
<1>7. \A a, b \in live : At(pos, a) < At(pos, b) => Rank(a) <= Rank(b)
  <2> TAKE a \in live, b \in live
  <2> PICK i, j : i = At(pos, a) /\ j = At(pos, b)
    OBVIOUS
  <2>1. i \in 1 .. N /\ j \in 1 .. N /\ walk[i] = a /\ walk[j] = b
    BY <1>4
  <2> QED
    BY <2>1, <1>3, <1>4 DEF Sorted
<1>8. Monotone(live, pos, n)
  <2>1. \A a, b \in live : At(pos, a) < At(pos, b) /\ Rank(n) < Rank(a) => Rank(n) < Rank(b)
    BY <1>6, <1>7
  <2> QED
    BY <2>1, <1>6 DEF Monotone
<1>a. PICK p \in 1 .. N + 1 : \E q :
        /\ Shifted(live, pos, p, n, q) /\ Divides(live, pos, n, p)
        /\ InOrder(Inserted(t, n), live \cup {n}, q, N + 1)
  BY <1>1, <1>2, <1>3, <1>4, <1>8, InsertedOrder
<1>9. PICK q : /\ Shifted(live, pos, p, n, q) /\ Divides(live, pos, n, p)
               /\ InOrder(Inserted(t, n), live \cup {n}, q, N + 1)
  BY <1>a
<1>10. Sound(t', live') /\ InOrder(t', live', q, N + 1)
  <2>1. Sound(Inserted(t, n), live \cup {n})
    BY <1>1, <1>2, InsertedSound
  <2>2. Sound(t', live \cup {n}) /\ Moves(Inserted(t, n), t', live \cup {n})
    BY <2>1, <1>1, SettledSound
  <2> QED
    BY <2>2, <1>1, <1>9 DEF Moves
<1>11. Lists(With(walk, p, n), live', q, N + 1)
  BY <1>1, <1>3, <1>9, WithLists
<1>12. live' \subseteq Nodes
  BY <1>1, <1>2
<1>13. walk' = With(walk, p, n)
  BY <1>1, <1>10, <1>11, <1>12, WalkAs
<1>14. Len(walk') = N + 1
  BY <1>11, <1>13 DEF Lists
<1>15. Belongs(walk, p, n)
  <2> SUFFICES ASSUME NEW i \in 1 .. N PROVE i < p <=> Rank(walk[i]) <= Rank(n)
    BY DEF Belongs
  <2>1. walk[i] \in live /\ At(pos, walk[i]) = i
    BY <1>5
  <2>2. At(pos, walk[i]) < p <=> ~ GoesLeft(n, walk[i])
    BY <2>1, <1>9 DEF Divides
  <2> QED
    BY <2>1, <2>2, <1>6
<1>16. Sorted(walk')
  BY <1>3, <1>5, <1>6, <1>13, <1>15, WithSorted
<1> QED
  BY <1>9, <1>10, <1>11, <1>13, <1>14, <1>15, <1>16

\* rap_rbtree_delete takes the node out of the walk, and moves no other.
LEMMA DeleteRanks ==
  ASSUME TreeInv, NEW n \in Nodes, Delete(n), NEW pos, InRanks(pos)
  PROVE  \E p \in 1 .. Len(walk) : \E q :
           /\ walk' = Without(walk, p) /\ walk[p] = n
           /\ InOrder(t', live', q, Len(walk')) /\ Lists(walk', live', q, Len(walk')) /\ Sorted(walk')
<1> PICK N, p : N = Len(walk) /\ p = At(pos, n)
  OBVIOUS
<1>1. /\ n \in live /\ live' = live \ {n}
      /\ t' = Settled(Deleted(t, n), live \ {n}) /\ walk' = Walk(t')
  BY DEF Delete
<1>2. live \subseteq Nodes /\ Sound(t, live)
  BY DEF TreeInv
<1>3. InOrder(t, live, pos, N) /\ Lists(walk, live, pos, N) /\ Sorted(walk) /\ Numbered(live, pos, N)
  BY DEF InRanks, InOrder
<1>4. N \in Nat /\ walk[p] = n /\ p \in 1 .. N
  <2>1. p \in 1 .. N
    BY <1>1, <1>3 DEF Numbered
  <2> QED
    BY <2>1, <1>1, <1>2, <1>3, ListsFacts
<1> PICK q : q = [m \in All |-> IF At(pos, m) < p THEN At(pos, m) ELSE At(pos, m) - 1]
  OBVIOUS
<1>5. Dropped(live, pos, n, q)
  BY <1>2 DEF Dropped, At, All
<1>6. Sound(t', live') /\ InOrder(t', live', q, N - 1)
  <2>1. Sound(Deleted(t, n), live \ {n}) /\ Removes(t, Deleted(t, n), live, n)
    BY <1>1, <1>2, DeletedSound
  <2>2. Sound(t', live \ {n}) /\ Moves(Deleted(t, n), t', live \ {n})
    BY <2>1, <1>1, SettledSound
  <2>3. InOrder(Deleted(t, n), live \ {n}, q, N - 1)
    BY <2>1, <1>3, <1>5 DEF Removes
  <2> QED
    BY <2>2, <2>3, <1>1 DEF Moves
<1>7. Lists(Without(walk, p), live', q, N - 1)
  BY <1>1, <1>3, <1>5, WithoutLists
<1>8. live' \subseteq Nodes
  BY <1>1, <1>2
<1>9. walk' = Without(walk, p)
  BY <1>1, <1>6, <1>7, <1>8, WalkAs
<1>10. Len(walk') = N - 1
  BY <1>7, <1>9 DEF Lists
<1>11. Sorted(walk')
  <2>1. walk \in Seq(live)
    BY <1>3 DEF Lists
  <2> QED
    BY <2>1, <1>3, <1>4, <1>9, WithoutSorted
<1> QED
  BY <1>4, <1>6, <1>7, <1>9, <1>10, <1>11

\* rap_rbtree_init leaves an empty tree.
LEMMA InitSound == Init => TreeInv
<1> SUFFICES ASSUME Init PROVE TreeInv
  OBVIOUS
<1>1. /\ live = {} /\ t \in Trees /\ Root(t) = Sentinel /\ ~ IsRed(t, Sentinel)
      /\ \A n \in All, s \in Sides : Kid(t, s, n) = NULL
  BY DEF Init, Trees, Root, IsRed, Kid, All
<1> PICK h : h = [m \in All |-> 0]
  OBVIOUS
<1>2. Counted(h) /\ At(h, Sentinel) = 0
  BY DEF Counted, At, All
<1>3. Linked(t, {}) /\ Falls(t, {}, h) /\ Clean(t, {}) /\ RedsApart(t, {}) /\ Level(t, {}, h)
  BY <1>1, <1>2 DEF Linked, Falls, Clean, RedsApart, Level, All
<1> QED
  BY <1>1, <1>3 DEF TreeInv, Sound, Tree

\* Every insert and every delete keeps the invariant.
LEMMA NextSound == TreeInv /\ [Next]_vars => TreeInv'
<1> SUFFICES ASSUME TreeInv, [Next]_vars PROVE TreeInv'
  OBVIOUS
<1>1. ASSUME NEW n \in Nodes, Insert(n) PROVE TreeInv'
  <2>1. n \in Nodes \ live /\ live' = live \cup {n} /\ t' = Settled(Inserted(t, n), live \cup {n})
    BY <1>1 DEF Insert
  <2>2. Sound(Inserted(t, n), live \cup {n})
    BY <2>1, InsertedSound DEF TreeInv
  <2>3. Sound(t', live \cup {n})
    BY <2>1, <2>2, SettledSound
  <2> QED
    BY <2>1, <2>3 DEF TreeInv
<1>2. ASSUME NEW n \in Nodes, Delete(n) PROVE TreeInv'
  <2>1. n \in live /\ live' = live \ {n} /\ t' = Settled(Deleted(t, n), live \ {n})
    BY <1>2 DEF Delete
  <2>2. Sound(Deleted(t, n), live \ {n})
    BY <2>1, DeletedSound DEF TreeInv
  <2>3. Sound(t', live \ {n})
    BY <2>1, <2>2, SettledSound
  <2> QED
    BY <2>1, <2>3 DEF TreeInv
<1>3. ASSUME UNCHANGED vars PROVE TreeInv'
  BY <1>3 DEF TreeInv, vars
<1> QED
  BY <1>1, <1>2, <1>3 DEF Next

(***************************************************************************)
(* Whatever is inserted and deleted, in whatever order, the nodes in the   *)
(* tree are a balanced tree.                                               *)
(***************************************************************************)
THEOREM TreeInvariant == Spec => []TreeInv
<1> QED
  BY InitSound, NextSound, PTL DEF Spec

\* The invariant is more than the property about the links.
LEMMA SoundLinks == TreeInv => LinksAgree
<1> SUFFICES ASSUME TreeInv PROVE LinksAgree
  OBVIOUS
<1> PICK mu : Linked(t, live) /\ Falls(t, live, mu)
  BY DEF TreeInv, Sound, Tree
<1>1. Sane(t, live) /\ Clean(t, live) /\ live \subseteq Nodes
  BY LinkedFacts DEF TreeInv, Sound
<1>2. ASSUME NEW n \in live, n # Root(t)
      PROVE  /\ {p \in live : Holds(p, n) # {}} = {Parent(t, n)}
             /\ Cardinality(Holds(Parent(t, n), n)) = 1
  <2>1. PICK p \in live, s \in Sides : p = Parent(t, n) /\ Kid(t, s, p) = n
    BY <1>2 DEF Linked
  <2>2. \A q, z : z \in Holds(q, n) <=> z \in Sides /\ Kid(t, z, q) = n
    BY DEF Holds, Kid
  <2>3. n # Sentinel
    BY <1>1 DEF Sane
  <2>4. \A q \in live : Holds(q, n) # {} <=> q = p
    BY <2>1, <2>2, <2>3, <1>1 DEF Sane
  <2>5. Holds(p, n) = {s}
    <3>1. Kid(t, Other(s), p) # n
      BY <2>1, <2>3, <1>1 DEF Sane
    <3>2. Sides = {s, Other(s)}
      BY DEF Sides, Other
    <3> QED
      BY <3>1, <3>2, <2>1, <2>2
  <2> QED
    BY <2>1, <2>4, <2>5, FS_Singleton
<1>3. \A n \in live, s \in Sides : Kid(t, s, n) \in (live \ {Root(t)}) \cup {Sentinel}
  BY <1>1 DEF Sane
<1>4. \A n \in Nodes \ live, s \in Sides : Kid(t, s, n) = NULL
  BY <1>1 DEF Clean
<1>5. ~ IsRed(t, Sentinel) /\ (Root(t) \in live \/ (live = {} /\ Root(t) = Sentinel))
  BY DEF Linked
<1> QED
  BY <1>2, <1>3, <1>4, <1>5 DEF LinksAgree, Kid, Parent, Root, IsRed

(***************************************************************************)
(* The black heights that the property counts along the left are the       *)
(* heights of the invariant.                                               *)
(***************************************************************************)
LEMMA HeightIs ==
  ASSUME NEW h, Level(t, live, h), NEW mu, Falls(t, live, mu), Sane(t, live)
  PROVE  \A n \in live \cup {Sentinel} : BlackHeight[n] = At(h, n)
<1> DEFINE D == live \cup {Sentinel}
<1> DEFINE Rec(f) == f = [n \in D |-> IF n = Sentinel THEN 0 ELSE f[t.kid["left"][n]] + Black(n)]
<1>1. "left" \in Sides /\ \A n \in live : Kid(t, "left", n) \in D /\ n # Sentinel
  BY DEF Sane, Sides
<1>2. \A n \in live : At(h, n) = At(h, Kid(t, "left", n)) + Weight(t, n) /\ Weight(t, n) = Black(n)
  BY <1>1 DEF Level, Weight, Black, IsRed
<1>3. \E f : Rec(f)
  <2>a. PICK g : g = [n \in D |-> At(h, n)]
    OBVIOUS
  <2>1. \A n \in live : g[t.kid["left"][n]] = At(h, Kid(t, "left", n))
    BY <2>a, <1>1 DEF Kid
  <2>2. \A n \in D : At(h, n) = IF n = Sentinel THEN 0 ELSE g[t.kid["left"][n]] + Black(n)
    BY <2>1, <1>2, <1>1 DEF Level
  <2>3. g = [n \in D |-> IF n = Sentinel THEN 0 ELSE g[t.kid["left"][n]] + Black(n)]
    BY <2>a, <2>2
  <2> QED
    BY <2>3
<1>4. Rec(BlackHeight)
  BY <1>3 DEF BlackHeight
<1>5. /\ BlackHeight[Sentinel] = 0
      /\ \A n \in live : BlackHeight[n] = BlackHeight[Kid(t, "left", n)] + Black(n)
  BY <1>4, <1>1 DEF Kid
<1> HIDE DEF Rec
<1> PICK B : B = BlackHeight
  OBVIOUS
<1>6. \A n \in live : At(mu, n) \in Nat
  BY DEF Falls, Counted, Sane, All
<1> DEFINE T == {At(mu, n) : n \in {n \in live : BlackHeight[n] # At(h, n)}}
<1>7. ASSUME T # {} PROVE FALSE
  <2>1. T \subseteq Nat
    BY <1>6
  <2>2. PICK m \in T : \A k \in T : m <= k
    <3> HIDE DEF T
    <3> QED
      BY <1>7, <2>1, LeastElement
  <2>3. PICK n \in live : BlackHeight[n] # At(h, n) /\ m = At(mu, n)
    BY <2>2
  <2>4. BlackHeight[Kid(t, "left", n)] # At(h, Kid(t, "left", n))
    BY <2>3, <1>2, <1>5
  <2>5. Kid(t, "left", n) \in live /\ Kid(t, "left", n) # Sentinel
    BY <2>4, <1>1, <1>5 DEF Level
  <2>6. At(mu, Kid(t, "left", n)) < m
    BY <2>3, <2>5, <1>1 DEF Falls
  <2>7. At(mu, Kid(t, "left", n)) \in T
    BY <2>4, <2>5
  <2>8. m \in Nat /\ At(mu, Kid(t, "left", n)) \in Nat
    BY <2>1, <2>7, <2>2
  <2> HIDE DEF T
  <2> QED
    BY <2>2, <2>6, <2>7, <2>8
<1> QED
  BY <1>5, <1>7 DEF Level

\* The invariant is more than the property about the balance.
LEMMA SoundRedBlack == TreeInv => RedBlack
<1> SUFFICES ASSUME TreeInv PROVE RedBlack
  OBVIOUS
<1> PICK mu : Linked(t, live) /\ Falls(t, live, mu)
  BY DEF TreeInv, Sound, Tree
<1>1. Sane(t, live)
  BY LinkedFacts
<1>2. PICK h : Level(t, live, h)
  BY DEF TreeInv, Sound
<1>3. \A n \in live \cup {Sentinel} : BlackHeight[n] = At(h, n)
  BY <1>1, <1>2, HeightIs
<1>4. \A n \in live, s \in Sides : Kid(t, s, n) \in live \cup {Sentinel}
  BY <1>1 DEF Sane
<1>5. \A n \in live, s \in Sides : BlackHeight[n] = BlackHeight[Kid(t, s, n)] + Black(n)
  <2>1. \A n \in live : Weight(t, n) = Black(n)
    BY DEF Weight, Black, IsRed
  <2> QED
    BY <1>2, <1>3, <1>4, <2>1 DEF Level
<1>6. /\ ~ IsRed(t, Root(t))
      /\ \A n \in live, s \in Sides : IsRed(t, n) => ~ IsRed(t, Kid(t, s, n))
  BY DEF TreeInv, Sound, RedsApart
<1> QED
  BY <1>5, <1>6 DEF RedBlack, IsRed, Kid, Root

(***************************************************************************)
(* rap_rbtree_insert and rap_rbtree_delete leave no node with a child that *)
(* names another parent, no node with two parents, and no node outside the *)
(* tree that still points into it.                                         *)
(***************************************************************************)
THEOREM LinksStayAgreed == Spec => []LinksAgree
<1> QED
  BY TreeInvariant, SoundLinks, PTL

(***************************************************************************)
(* rap_rbtree_insert and rap_rbtree_delete leave no red node with a red    *)
(* child, and as many black nodes on every path down.                      *)
(***************************************************************************)
THEOREM StaysRedBlack == Spec => []RedBlack
<1> QED
  BY TreeInvariant, SoundRedBlack, PTL

(***************************************************************************)
(* The inductive invariant of the order: the nodes are numbered from left  *)
(* to right in the tree, the walk lists them by their numbers, and their   *)
(* ranks do not fall.                                                      *)
(***************************************************************************)
OrderInv == TreeInv /\ caller \in Callers /\ \E pos : InRanks(pos)

\* The empty tree has the empty order.
LEMMA InitOrder == Init => OrderInv
<1> SUFFICES ASSUME Init PROVE OrderInv
  OBVIOUS
<1>1. TreeInv
  BY InitSound
<1>2. caller \in Callers /\ live = {} /\ walk = << >>
  BY DEF Init
<1>3. Len(walk) = 0 /\ walk \in Seq(live) /\ DOMAIN walk = {}
  BY <1>2
<1> PICK pos : pos = [m \in {} |-> 0]
  OBVIOUS
<1> PICK b : b = [z \in Sides |-> [m \in {} |-> 0]]
  OBVIOUS
<1>4. InOrder(t, live, pos, 0)
  <2>1. Numbered(live, pos, 0) /\ Meets(live, live, pos) /\ Framed(t, live, pos, 0, b)
    BY <1>2 DEF Numbered, Meets, Framed
  <2>2. Meets(t, live, pos)
    BY <1>2 DEF Meets
  <2> QED
    BY <2>1, <2>2 DEF InOrder
<1>5. Lists(walk, live, pos, 0) /\ Sorted(walk)
  BY <1>3 DEF Lists, Sorted
<1>6. InRanks(pos)
  BY <1>3, <1>4, <1>5 DEF InRanks
<1> QED
  BY <1>1, <1>2, <1>6 DEF OrderInv

\* Every insert and every delete keeps the invariant.
LEMMA NextOrder == OrderInv /\ [Next]_vars => OrderInv'
<1> SUFFICES ASSUME OrderInv, [Next]_vars PROVE OrderInv'
  OBVIOUS
<1>1. TreeInv'
  BY NextSound DEF OrderInv
<1>2. caller' = caller
  BY DEF Next, Insert, Delete, vars
<1> PICK pos : InRanks(pos)
  BY DEF OrderInv
<1>3. ASSUME NEW q, InOrder(t', live', q, Len(walk')), Lists(walk', live', q, Len(walk')), Sorted(walk')
      PROVE  OrderInv'
  BY <1>1, <1>2, <1>3 DEF OrderInv, InRanks, Sorted, Rank
<1>4. ASSUME NEW n \in Nodes, Insert(n) PROVE OrderInv'
  BY <1>3, <1>4, InsertRanks DEF OrderInv
<1>5. ASSUME NEW n \in Nodes, Delete(n) PROVE OrderInv'
  BY <1>3, <1>5, DeleteRanks DEF OrderInv
<1>6. ASSUME UNCHANGED vars PROVE OrderInv'
  BY <1>6 DEF OrderInv, TreeInv, InRanks, Sorted, Rank, vars
<1> QED
  BY <1>4, <1>5, <1>6 DEF Next

\* Where the node belongs is the place of the contract.
LEMMA PlaceIs ==
  ASSUME NEW V, NEW s \in Seq(V), NEW n, NEW p \in 1 .. Len(s) + 1, Belongs(s, p, n)
  PROVE  Contract!Place(s, n) = p
<1>1. Len(s) \in Nat /\ DOMAIN s = 1 .. Len(s)
  BY LenProperties
<1>2. {i \in DOMAIN s : Rank(s[i]) <= Rank(n)} = 1 .. p - 1
  BY <1>1 DEF Belongs
<1>3. Cardinality(1 .. p - 1) = p - 1
  <2>1. p - 1 \in Int /\ p >= 1
    BY <1>1
  <2>2. Cardinality(1 .. p - 1) = IF 1 > p - 1 THEN 0 ELSE p - 1 - 1 + 1
    BY <2>1, FS_Interval
  <2> QED
    BY <2>1, <2>2
<1>4. Contract!Place(s, n) = Contract!Cardinality({i \in DOMAIN s : Rank(s[i]) <= Rank(n)}) + 1
  BY DEF Contract!Place, Rank
<1>6. \A S : Contract!Cardinality(S) = Cardinality(S)
  BY DEF Contract!Cardinality, Cardinality
<1>5. p - 1 + 1 = p
  BY <1>1
<1> QED
  BY <1>2, <1>3, <1>4, <1>5, <1>6

\* Every step of the tree is a step of the sorted sequence.
LEMMA StepKeepsOrder == OrderInv /\ [Next]_vars => [Contract!Next]_<<caller.rank, walk>>
<1> SUFFICES ASSUME OrderInv, Next PROVE Contract!Next
  BY DEF vars
<1> PICK pos : InRanks(pos)
  BY DEF OrderInv
<1>0. walk \in Seq(live) /\ Contract!ToSet(walk) \subseteq live /\ Len(walk) \in Nat /\ DOMAIN walk = 1 .. Len(walk)
  <2>1. walk \in Seq(live)
    BY DEF InRanks, Lists
  <2>2. Len(walk) \in Nat /\ DOMAIN walk = 1 .. Len(walk) /\ \A i \in 1 .. Len(walk) : walk[i] \in live
    BY <2>1, LenProperties, ElementOfSeq
  <2> QED
    BY <2>1, <2>2 DEF Contract!ToSet
<1>1. caller.rank' = caller.rank
  BY DEF Next, Insert, Delete
<1>2. ASSUME NEW n \in Nodes, Insert(n)
      PROVE  walk' \in Contract!Inserts(walk, n)
  <2>1. PICK p \in 1 .. Len(walk) + 1 : walk' = With(walk, p, n) /\ Belongs(walk, p, n)
    BY <1>2, InsertRanks DEF OrderInv
  <2>2. n \notin Contract!ToSet(walk)
    BY <1>0, <1>2 DEF Insert
  <2>3. Contract!Place(walk, n) = p
    BY <1>0, <2>1, PlaceIs
  <2>4. With(walk, p, n) = Contract!InsertAt(walk, p, n)
    BY DEF With, Contract!InsertAt
  <2> QED
    BY <2>1, <2>2, <2>3, <2>4 DEF Contract!Inserts
<1>3. ASSUME NEW n \in Nodes, Delete(n)
      PROVE  walk' \in Contract!Deletes(walk, n)
  <2>1. PICK p \in 1 .. Len(walk) : walk' = Without(walk, p) /\ walk[p] = n
    BY <1>3, DeleteRanks DEF OrderInv
  <2>2. Without(walk, p) = Contract!RemoveAt(walk, p)
    BY DEF Without, Contract!RemoveAt
  <2> QED
    BY <1>0, <2>1, <2>2 DEF Contract!Deletes
<1>4. ASSUME NEW n \in Nodes, walk' \in Contract!Inserts(walk, n) \/ walk' \in Contract!Deletes(walk, n)
      PROVE  Contract!Next
  BY <1>1, <1>4 DEF Contract!Next
<1> QED
  BY <1>2, <1>3, <1>4 DEF Next

(***************************************************************************)
(* The tree implements the sorted sequence of OrderedContract: whatever    *)
(* was inserted and deleted before, a walk with rap_rbtree_next meets the  *)
(* nodes by rank, nodes of one rank in the order they were inserted, and   *)
(* an insert or a delete moves no other node. It holds for numbers, for    *)
(* timers whose keys wrap, and for strings.                                *)
(***************************************************************************)
THEOREM TreeKeepsOrder == Spec => KeepsOrder
<1>1. Init => Contract!Init
  BY TreeAssumption DEF Init, Contract!Init
<1> QED
  BY <1>1, InitOrder, NextOrder, StepKeepsOrder, PTL DEF Spec, KeepsOrder, Contract!Spec

(***************************************************************************)
(* The comparison of the lookup is that of the insert, and strings of one  *)
(* rank are one string.                                                    *)
(***************************************************************************)
LEMMA StringOrder ==
  ASSUME caller \in Callers, caller.kind = "string", NEW a \in Nodes, NEW b \in Nodes
  PROVE  /\ Rank(a) \in Nat /\ Rank(b) \in Nat
         /\ LookupGoesLeft(Key(a), b) <=> Rank(a) < Rank(b)
         /\ Key(a) = Key(b) <=> Rank(a) = Rank(b)
<1>1. Rank(a) \in Nat /\ Rank(b) \in Nat
  BY TreeAssumption DEF Rank
<1>2. Key(a) \in [hash : Nat, len : Nat, data : Nat] /\ Key(b) \in [hash : Nat, len : Nat, data : Nat]
  BY CallerAssumption DEF Key
<1>3. /\ StringBefore(Key(a), Key(b)) <=> Rank(a) < Rank(b)
      /\ StringBefore(Key(b), Key(a)) <=> Rank(b) < Rank(a)
  BY CallerAssumption DEF Key, Rank
<1>4. LookupGoesLeft(Key(a), b) <=> StringBefore(Key(a), Key(b))
  BY DEF LookupGoesLeft, StringBefore
<1> PICK p, q : p = Key(a) /\ q = Key(b)
  OBVIOUS
<1>5. p = q <=> ~ StringBefore(p, q) /\ ~ StringBefore(q, p)
  BY <1>2 DEF StringBefore
<1>6. Key(a) = Key(b) <=> Rank(a) = Rank(b)
  BY <1>1, <1>3, <1>5
<1> QED
  BY <1>1, <1>3, <1>4, <1>6

\* where the lookup goes from m, and where it stops
LookupWay(val, m) == IF LookupGoesLeft(val, m) THEN "left" ELSE "right"
Stops(val, m) == m = Sentinel \/ val = Key(m)

\* K is closed under the steps of the lookup
LookupClosed(u, V, val, K) ==
  \A m \in V \cap K : ~ Stops(val, m) => Kid(u, LookupWay(val, m), m) \in K

(***************************************************************************)
(* The way down of rap_str_rbtree_lookup: it ends at a node with the       *)
(* string or at a leaf, and what its steps keep holds there.               *)
(***************************************************************************)
LEMMA LookedUpAs ==
  ASSUME NEW V, V \subseteq Nodes, Sound(t, V), NEW val, NEW K, Root(t) \in K, LookupClosed(t, V, val, K)
  PROVE  \E m \in K \cap (V \cup {Sentinel}) :
           Stops(val, m) /\ LookedUp(val, Root(t)) = IF m = Sentinel THEN NULL ELSE m
<1> PICK x, D : x = Root(t) /\ D = V \cup {Sentinel}
  OBVIOUS
<1>1. Linked(t, V)
  BY DEF Sound, Tree
<1> PICK nu : Falls(t, V, nu) /\ \A n \in V : At(nu, n) <= 2 * Cardinality(V) + 1
  BY SoundFalls
<1>a. Sane(t, V)
  BY <1>1, LinkedFacts
<1>b. \A m : LookupWay(val, m) \in Sides
  BY DEF LookupWay, Sides
<1> DEFINE body(g) == [k \in 0 .. Most |->
                         IF k = 0 THEN x
                         ELSE LET y == g[k - 1] IN IF Stops(val, y) THEN y ELSE Kid(t, LookupWay(val, y), y)]
<1> DEFINE Eq(g) == g = body(g)
<1> DEFINE c == CHOOSE g : Eq(g)
<1>2. LookedUp(val, x) = IF c[Most] = Sentinel THEN NULL ELSE c[Most]
  BY DEF LookedUp, Loop, Kid, LookupWay, Stops
<1>3. /\ Most \in Nat /\ Cardinality(V) \in Nat /\ Most >= 2 * Cardinality(V) + 2
      /\ \A m \in V : At(nu, m) \in Nat
  BY <1>1, MostFacts DEF Linked, Falls, Counted, All
<1> DEFINE ok(k, m) == m \in K /\ (Stops(val, m) \/ At(nu, m) + k <= 2 * Cardinality(V) + 1)
<1> DEFINE R == [k \in Nat |-> {m \in D : ok(k, m)}]
<1> DEFINE next == [m \in D |-> IF Stops(val, m) THEN m ELSE Kid(t, LookupWay(val, m), m)]
<1>4. x \in R[0]
  <2>1. x \in D /\ (x \in V \/ x = Sentinel)
    BY <1>1 DEF Linked
  <2>2. x = Sentinel => Stops(val, x)
    BY DEF Stops
  <2>3. x \in V => At(nu, x) + 0 <= 2 * Cardinality(V) + 1
    BY <1>3
  <2> QED
    BY <2>1, <2>2, <2>3
<1>5. ASSUME NEW k \in Nat, NEW m \in R[k] PROVE next[m] \in R[k + 1]
  <2>1. m \in D /\ ok(k, m)
    <3> HIDE DEF ok
    <3> QED
      OBVIOUS
  <2>2. CASE Stops(val, m)
    <3>1. next[m] = m /\ ok(k + 1, m)
      BY <2>1, <2>2
    <3> HIDE DEF ok, next
    <3> QED
      BY <2>1, <3>1
  <2>3. CASE ~ Stops(val, m)
    <3> PICK d : d = Kid(t, LookupWay(val, m), m)
      OBVIOUS
    <3>1. next[m] = d /\ m \in V
      BY <2>1, <2>3 DEF Stops
    <3>2. d \in D /\ d \in K
      BY <2>1, <2>3, <3>1, <1>a, <1>b DEF Sane, LookupClosed
    <3>3. CASE d = Sentinel
      <4>1. ok(k + 1, d)
        BY <3>2, <3>3 DEF Stops
      <4> HIDE DEF ok, next
      <4> QED
        BY <3>1, <3>2, <4>1
    <3>4. CASE d # Sentinel
      <4>1. d \in V /\ At(nu, d) < At(nu, m)
        BY <3>1, <3>2, <3>4, <1>b DEF Falls
      <4>2. At(nu, d) + (k + 1) <= 2 * Cardinality(V) + 1
        BY <2>1, <2>3, <3>1, <4>1, <1>3
      <4>3. ok(k + 1, d)
        BY <3>2, <4>2
      <4> HIDE DEF ok, next
      <4> QED
        BY <3>1, <3>2, <4>3
    <3> QED
      BY <3>3, <3>4
  <2> QED
    BY <2>2, <2>3
<1>6. Reached(R) \subseteq D
  BY DEF Reached
<1>7. Eq(c)
  <2>1. \E f : Runs(f, Reached(R), x, next, Most)
    <3> HIDE DEF R, next
    <3> QED
      BY <1>3, <1>4, <1>5, LoopRuns
  <2>2. PICK f : Runs(f, Reached(R), x, next, Most)
    BY <2>1
  <2>3. Eq(f)
    <3>1. f \in [0 .. Most -> Reached(R)] /\ f[0] = x
          /\ \A k \in 1 .. Most : f[k] = next[f[k - 1]]
      BY <2>2 DEF Runs
    <3>2. \A k \in 1 .. Most : f[k] = IF Stops(val, f[k - 1]) THEN f[k - 1]
                                      ELSE Kid(t, LookupWay(val, f[k - 1]), f[k - 1])
      <4> TAKE k \in 1 .. Most
      <4>1. k - 1 \in 0 .. Most
        BY <1>3
      <4>2. f[k - 1] \in D
        BY <4>1, <3>1, <1>6
      <4> QED
        BY <4>2, <3>1
    <3>3. \A k \in 0 .. Most : k # 0 => k \in 1 .. Most
      BY <1>3
    <3> HIDE DEF R, next
    <3> QED
      BY <3>1, <3>2, <3>3
  <2> HIDE DEF Eq
  <2> QED
    BY <2>3
<1>8. /\ c[0] = x
      /\ \A k \in 1 .. Most : c[k - 1] \in Reached(R) => c[k] = next[c[k - 1]]
  <2>1. c = body(c)
    BY <1>7
  <2> HIDE DEF c, R
  <2>2. c[0] = x
    BY <2>1, <1>3
  <2>3. ASSUME NEW k \in 1 .. Most, c[k - 1] \in Reached(R)
        PROVE  c[k] = next[c[k - 1]]
    <3>1. c[k] = IF Stops(val, c[k - 1]) THEN c[k - 1] ELSE Kid(t, LookupWay(val, c[k - 1]), c[k - 1])
      BY <2>1, <1>3
    <3> QED
      BY <3>1, <2>3, <1>6
  <2> HIDE DEF next
  <2> QED
    BY <2>2, <2>3
<1>9. c[Most] \in R[Most]
  <2> HIDE DEF c, R, next
  <2>1. Most \in 0 .. Most
    BY <1>3
  <2> QED
    BY <1>3, <1>4, <1>5, <1>8, <2>1, LoopRuns
<1> PICK m : m = c[Most]
  OBVIOUS
<1>10. m \in D /\ ok(Most, m)
  <2> HIDE DEF c, ok
  <2> QED
    BY <1>3, <1>9
<1>11. Stops(val, m)
  <2>1. m # Sentinel => m \in V
    BY <1>10
  <2>2. m \in V => ~ At(nu, m) + Most <= 2 * Cardinality(V) + 1
    BY <1>3
  <2> QED
    BY <1>10, <2>1, <2>2 DEF Stops
<1>12. LookedUp(val, x) = IF m = Sentinel THEN NULL ELSE m
  BY <1>2
<1> QED
  BY <1>10, <1>11, <1>12

(***************************************************************************)
(* At every turn of the lookup the nodes with the string are between the   *)
(* edges of where it is, so that at a leaf there are none.                 *)
(***************************************************************************)
LEMMA OrderLooksUp == OrderInv => LookupFinds
<1> SUFFICES ASSUME OrderInv, caller.kind = "string", NEW n \in Nodes, NEW found,
                    found = LookedUp(Key(n), Root(t))
             PROVE  IF \E m \in live : Key(m) = Key(n) THEN found \in live /\ Key(found) = Key(n)
                    ELSE found = NULL
  BY DEF LookupFinds, Root
<1>1. live \subseteq Nodes /\ Sound(t, live) /\ caller \in Callers
  BY DEF OrderInv, TreeInv
<1>2. PICK pos, N : N = Len(walk) /\ InOrder(t, live, pos, N) /\ Lists(walk, live, pos, N) /\ Sorted(walk)
  BY DEF OrderInv, InRanks
<1>3. PICK b : Numbered(live, pos, N) /\ Framed(t, live, pos, N, b)
  BY <1>2 DEF InOrder
<1>4. Sane(t, live)
  BY <1>1, LinkedFacts DEF Sound, Tree
<1>5. /\ N \in Nat /\ \A m \in live : At(pos, m) \in 1 .. N /\ walk[At(pos, m)] = m
      /\ DOMAIN walk = 1 .. N
  <2>1. \A m \in live : At(pos, m) \in 1 .. N
    BY <1>3 DEF Numbered
  <2> QED
    BY <2>1, <1>1, <1>2, <1>3, ListsFacts
<1>6. \A m \in live : /\ LookupGoesLeft(Key(n), m) <=> Rank(n) < Rank(m)
                      /\ Key(m) = Key(n) <=> Rank(m) = Rank(n)
                      /\ Rank(m) \in Nat /\ Rank(n) \in Nat
  BY <1>1, StringOrder
<1>7. \A a, d \in live : Rank(a) < Rank(d) => At(pos, a) < At(pos, d)
  <2> TAKE a \in live, d \in live
  <2> PICK i, j : i = At(pos, a) /\ j = At(pos, d)
    OBVIOUS
  <2>1. i \in 1 .. N /\ j \in 1 .. N /\ walk[i] = a /\ walk[j] = d
    BY <1>5
  <2>2. j < i => Rank(d) <= Rank(a)
    BY <2>1, <1>2, <1>5 DEF Sorted
  <2>3. i = j => a = d
    BY <2>1
  <2> QED
    BY <2>1, <2>2, <2>3, <1>6
<1>8. \A m \in live : At(pos, m) \in Nat /\ Edge(b, "left", m) \in Nat /\ Edge(b, "right", m) \in Nat
  BY <1>3, <1>5 DEF Framed, Sides
<1> DEFINE H == {x \in live : Key(x) = Key(n)}
<1> DEFINE K == {m \in live \cup {Sentinel} :
                   IF m = Sentinel THEN H = {}
                   ELSE \A x \in H : Edge(b, "left", m) < At(pos, x) /\ At(pos, x) < Edge(b, "right", m)}
<1>9. Root(t) \in K
  <2>1. Root(t) \in live \/ (live = {} /\ Root(t) = Sentinel)
    BY <1>1 DEF Sound, Tree, Linked
  <2>2. CASE Root(t) \in live
    <3>1. Edge(b, "left", Root(t)) = 0 /\ Edge(b, "right", Root(t)) = N + 1 /\ Root(t) # Sentinel
      BY <2>2, <1>3, <1>4 DEF Framed, Sane
    <3>2. \A x \in live : 0 < At(pos, x) /\ At(pos, x) < N + 1
      BY <1>5
    <3> QED
      BY <2>2, <3>1, <3>2
  <2>3. CASE live = {} /\ Root(t) = Sentinel
    BY <2>3
  <2> QED
    BY <2>1, <2>2, <2>3
<1>10. ASSUME NEW m \in live, m \in K, ~ Stops(Key(n), m)
       PROVE  Kid(t, LookupWay(Key(n), m), m) \in K
  <2> PICK z, c : z = LookupWay(Key(n), m) /\ c = Kid(t, z, m)
    OBVIOUS
  <2>1. z \in Sides /\ c \in live \cup {Sentinel} /\ m # Sentinel /\ Key(m) # Key(n)
    BY <1>4, <1>10 DEF LookupWay, Sides, Sane, Stops
  <2>2. \A x \in H : Edge(b, "left", m) < At(pos, x) /\ At(pos, x) < Edge(b, "right", m)
    BY <1>10, <2>1
  <2>3. \A x \in H : x \in live /\ Rank(x) = Rank(n)
    BY <1>6
  <2>4. CASE LookupGoesLeft(Key(n), m)
    <3>1. z = "left"
      BY <2>4 DEF LookupWay
    <3>2. \A x \in H : At(pos, x) < At(pos, m)
      BY <2>3, <2>4, <1>6, <1>7
    <3>3. CASE c = Sentinel
      <4>1. Edge(b, "left", m) = At(pos, m) - 1
        BY <3>1, <3>3, <2>1, <1>3 DEF Framed, Toward
      <4>2. H = {}
        <5> HIDE DEF H
        <5>1. ASSUME NEW x \in H PROVE FALSE
          <6>1. At(pos, m) - 1 < At(pos, x) /\ At(pos, x) < At(pos, m) /\ x \in live
            BY <4>1, <3>2, <2>2, <2>3
          <6> QED
            BY <6>1, <1>8
        <5> QED
          BY <5>1
      <4> HIDE DEF H
      <4> QED
        BY <4>2, <3>3
    <3>4. CASE c # Sentinel
      <4>1. Edge(b, "left", c) = Edge(b, "left", m) /\ Edge(b, "right", c) = At(pos, m)
        BY <3>1, <3>4, <2>1, <1>3 DEF Framed, Other
      <4> HIDE DEF H
      <4> QED
        BY <4>1, <3>2, <3>4, <2>1, <2>2
    <3> QED
      BY <3>3, <3>4
  <2>5. CASE ~ LookupGoesLeft(Key(n), m)
    <3>1. z = "right"
      BY <2>5 DEF LookupWay
    <3>2. \A x \in H : At(pos, m) < At(pos, x)
      <4>1. Rank(m) < Rank(n)
        BY <2>1, <2>5, <1>6
      <4> HIDE DEF H
      <4> QED
        BY <4>1, <2>3, <1>7
    <3>3. CASE c = Sentinel
      <4>1. Edge(b, "right", m) = At(pos, m) + 1
        BY <3>1, <3>3, <2>1, <1>3 DEF Framed, Toward
      <4>2. H = {}
        <5> HIDE DEF H
        <5>1. ASSUME NEW x \in H PROVE FALSE
          <6>1. At(pos, x) < At(pos, m) + 1 /\ At(pos, m) < At(pos, x) /\ x \in live
            BY <4>1, <3>2, <2>2, <2>3
          <6> QED
            BY <6>1, <1>8
        <5> QED
          BY <5>1
      <4> HIDE DEF H
      <4> QED
        BY <4>2, <3>3
    <3>4. CASE c # Sentinel
      <4>1. Edge(b, "right", c) = Edge(b, "right", m) /\ Edge(b, "left", c) = At(pos, m)
        BY <3>1, <3>4, <2>1, <1>3 DEF Framed, Other
      <4> HIDE DEF H
      <4> QED
        BY <4>1, <3>2, <3>4, <2>1, <2>2
    <3> QED
      BY <3>3, <3>4
  <2> QED
    BY <2>4, <2>5
<1>11. LookupClosed(t, live, Key(n), K)
  <2> HIDE DEF K
  <2> QED
    BY <1>10 DEF LookupClosed
<1>12. PICK m \in K : Stops(Key(n), m) /\ found = IF m = Sentinel THEN NULL ELSE m
  <2> HIDE DEF K
  <2> QED
    BY <1>1, <1>9, <1>11, LookedUpAs
<1>13. CASE m = Sentinel
  <2>1. H = {}
    BY <1>13
  <2> QED
    BY <2>1, <1>12, <1>13
<1>14. CASE m # Sentinel
  <2>1. m \in live /\ Key(m) = Key(n) /\ found = m
    BY <1>12, <1>14 DEF Stops
  <2> QED
    BY <2>1
<1> QED
  BY <1>13, <1>14

(***************************************************************************)
(* rap_str_rbtree_lookup finds a string exactly when the tree holds it,    *)
(* whatever was inserted and deleted before, and whatever strings share    *)
(* hashes and lengths.                                                     *)
(***************************************************************************)
THEOREM TreeLooksUp == Spec => []LookupFinds
<1> QED
  BY InitOrder, NextOrder, OrderLooksUp, PTL DEF Spec
=============================================================================
