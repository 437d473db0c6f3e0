----------------------------- MODULE HashLookup -----------------------------
(***************************************************************************)
(* How the rap_hash_find functions go through the tables, and what they    *)
(* find in them.                                                           *)
(***************************************************************************)
EXTENDS HashNames

CONSTANT Queries      \* lower case names to look up

NullValue == Data(NULL, 0)
IsNull(value) == value.tag = 0 /\ value.at = NULL

(***************************************************************************)
(* rap_hash_find walks a bucket to its first NULL value.                   *)
(***************************************************************************)
HashFind(table, key, name) ==
  LET elts == table.buckets[key % table.size]
      stops == {i \in DOMAIN elts : IsNull(elts[i].value) \/ elts[i].key = name}
  IN  IF stops = {} THEN NullValue ELSE elts[Min(stops)].value

(***************************************************************************)
(* rap_hash_find_wc_head takes the labels of a name from its end,          *)
(* rap_hash_find_wc_tail from its beginning.  The deepest table that knows *)
(* the labels so far decides, and those above it when it has no value.     *)
(***************************************************************************)
RECURSIVE FindWcHead(_, _)
FindWcHead(hwc, name) ==
  LET dot == SelectLastInSeq(name, LAMBDA c : c = DOT)
      label == SubSeq(name, dot + 1, Len(name))
      value == HashFind(hwc.hash, HashKey(label), label)
      deeper == FindWcHead(value.at, SubSeq(name, 1, dot - 1))
  IN  CASE IsNull(value) -> hwc.value
        [] value.tag = 2 /\ dot = 0 -> value.at.value
        [] value.tag \in {1, 3} /\ dot = 0 -> NULL
        [] value.tag >= 2 /\ dot # 0 -> IF deeper # NULL THEN deeper ELSE value.at.value
        [] OTHER -> value.at

RECURSIVE FindWcTail(_, _)
FindWcTail(hwc, name) ==
  LET dot == SelectInSeq(name, LAMBDA c : c = DOT)
      label == SubSeq(name, 1, dot - 1)
      value == HashFind(hwc.hash, HashKey(label), label)
      deeper == FindWcTail(value.at, SubSeq(name, dot + 1, Len(name)))
  IN  CASE dot = 0 -> NULL
        [] dot # 0 /\ IsNull(value) -> hwc.value
        [] dot # 0 /\ value.tag >= 2 -> IF deeper # NULL THEN deeper ELSE value.at.value
        [] OTHER -> value.at

FindCombined(tables, key, name) ==
  LET exact == IF tables.hash = NoTable THEN NULL ELSE HashFind(tables.hash, key, name).at
      head == IF tables.wc_head.hash = NoTable THEN NULL ELSE FindWcHead(tables.wc_head, name)
      tail == IF tables.wc_tail.hash = NoTable THEN NULL ELSE FindWcTail(tables.wc_tail, name)
  IN  IF exact # NULL THEN exact
      ELSE IF name = << >> THEN NULL
      ELSE IF head # NULL THEN head
      ELSE tail
-----------------------------------------------------------------------------
(***************************************************************************)
(* A lookup in the finished tables gives what the names that were accepted *)
(* say: the exact name, or else the wildcard with the most labels at the   *)
(* end, or else the one with the most at the beginning.                    *)
(***************************************************************************)
Longest(how, Covers(_, _)) ==
  LET covering == {c \in UNION {{[name |-> n, value |-> i] : n \in Offered(how, i)} : i \in Accepted} :
                     Covers(c.name, c.value)}
  IN  IF covering = {} THEN NULL
      ELSE (CHOOSE c \in covering : \A d \in covering : Len(d.name) <= Len(c.name)).value

Match(q) ==
  LET Is(name, i) == name = q
      Ends(name, i) == IsSuffix(<<DOT>> \o name, q) \/ (name = q /\ calls[i].kind = "dot")
      Begins(name, i) == IsPrefix(name, q)
      exact == Longest("exact", Is)
      below == Longest("below", Ends)
  IN  IF exact # NULL THEN exact ELSE IF below # NULL THEN below ELSE Longest("after", Begins)

LookupMatches ==
  Built => \A q \in Queries : FindCombined(combined, HashKey(q), q) = Match(q)
=============================================================================
