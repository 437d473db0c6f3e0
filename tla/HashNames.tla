------------------------------ MODULE HashNames ------------------------------
(***************************************************************************)
(* The life of a table of names: rap_hash_add_key takes exact names and    *)
(* wildcards or refuses them, the caller sorts the wildcards and builds    *)
(* the tables, and names are looked up.                                    *)
(*                                                                         *)
(* The buckets of the conflict tables are left out: a name is compared     *)
(* with those of its own hash, and equal names have equal hashes.  A       *)
(* caller that gets RAP_ERROR, for want of memory, gives up.               *)
(***************************************************************************)
EXTENDS HashTable

CONSTANTS
  Keys,               \* what rap_hash_add_key is given: a key and flags
  Hinits,             \* max_size and bucket_size
  MaxCalls,
  MaxDepth            \* the properties look so many tables deep

(***************************************************************************)
(* What callers give: characters; in a key that must not be written to no  *)
(* capitals, since names are looked up in lower case; in an exact key no   *)
(* NUL, where rap_strncmp would stop comparing; in names with wildcards no *)
(* blanks or control characters, below which rap_dns_strcmp puts the dot   *)
(* (a NUL is refused).                                                     *)
(***************************************************************************)
ASSUME KeysAssumption ==
  /\ Keys \subseteq [key : Seq(0 .. 255), flags : SUBSET {"wildcard", "readonly"}]
  /\ \A k \in Keys :
       /\ "readonly" \in k.flags => ToSet(k.key) \cap 65 .. 90 = {}
       /\ ToSet(k.key) \cap (IF "wildcard" \in k.flags THEN 1 .. 32 ELSE {0}) = {}

ASSUME HinitsAssumption ==
  /\ Hinits \subseteq [max_size : Nat, bucket_size : Nat]
  /\ {MaxCalls, MaxDepth} \subseteq Nat

VARIABLES
  ha,                 \* rap_hash_keys_arrays_t
  calls,              \* the calls of rap_hash_add_key so far and what they returned
  combined            \* rap_hash_combined_t, once it is built

vars == <<ha, calls, combined>>

Absent == [hash |-> NoTable, value |-> NULL]
NotBuilt == [hash |-> NoTable, wc_head |-> Absent, wc_tail |-> Absent]

\* rap_hash_keys_array_init
KeysArrayInit ==
  [keys_hash |-> {}, head_hash |-> {}, tail_hash |-> {},
   keys |-> << >>, dns_wc_head |-> << >>, dns_wc_tail |-> << >>]

Init == ha = KeysArrayInit /\ calls = << >> /\ combined = NotBuilt

-----------------------------------------------------------------------------
STAR == 42

Malformed(key) ==
  \/ Len(SelectSeq(key, LAMBDA c : c = STAR)) > 1
  \/ \E i \in 1 .. Len(key) - 1 : key[i] = DOT /\ key[i + 1] = DOT
  \/ 0 \in ToSet(key)

(***************************************************************************)
(* What a key is: ".example.com", "*.example.com", "www.example.*", an     *)
(* exact name, or none of them.                                            *)
(***************************************************************************)
KindOf(key, flags) ==
  LET len == Len(key)
  IN  CASE "wildcard" \notin flags -> "exact"
        [] "wildcard" \in flags /\ Malformed(key) -> "declined"
        [] OTHER ->
             IF len > 1 /\ key[1] = DOT THEN "dot"
             ELSE IF len > 2 /\ key[1] = STAR /\ key[2] = DOT THEN "head"
             ELSE IF len > 2 /\ key[len - 1] = DOT /\ key[len] = STAR THEN "tail"
             ELSE IF STAR \in ToSet(key) THEN "declined" ELSE "exact"

(***************************************************************************)
(* "*.example.com" to "com.example." and ".example.com" to "com.example":  *)
(* from the end, label is what has been read since the last dot.           *)
(***************************************************************************)
Converted(key) ==
  LET read[n \in 0 .. Len(key) - 1] ==
        LET before == read[n - 1]
            c == key[Len(key) - n + 1]
        IN  IF n = 0 THEN [p |-> << >>, label |-> << >>]
            ELSE IF c = DOT
            THEN [p |-> before.p \o before.label \o <<DOT>>, label |-> << >>]
            ELSE [p |-> before.p, label |-> <<c>> \o before.label]
      all == read[Len(key) - 1]
  IN  all.p \o all.label

Returned(key, flags, kind, rc) ==
  calls' = Append(calls, [key |-> Strlow(key, Len(key)), flags |-> flags, kind |-> kind, rc |-> rc])

\* The value of a key is the number of the call.
Entry(key) == [key |-> key, value |-> Len(calls) + 1]

(***************************************************************************)
(* The search for two dots looks behind the key, where a caller may have   *)
(* anything: behind a dot at the end of the key there may be another one.  *)
(***************************************************************************)
MayBeTwoDots(key, flags) == "wildcard" \in flags /\ key # << >> /\ Last(key) = DOT

AddDeclined(key, flags) ==
  /\ KindOf(key, flags) = "declined" \/ MayBeTwoDots(key, flags)
  /\ UNCHANGED ha
  /\ Returned(key, flags, "declined", "DECLINED")

AddExact(key, flags) ==
  LET name == IF "readonly" \in flags THEN key ELSE Strlow(key, Len(key))
  IN  /\ KindOf(key, flags) = "exact"
      /\ \/ /\ name \in ha.keys_hash
            /\ UNCHANGED ha
            /\ Returned(key, flags, "exact", "BUSY")
         \/ /\ name \notin ha.keys_hash
            /\ ha' = [ha EXCEPT !.keys_hash = @ \cup {name}, !.keys = Append(@, Entry(name))]
            /\ Returned(key, flags, "exact", "OK")

\* Variant: ".example.com" is not compared with the exact names.
ClashesOnlyWithHeads(kind, name) == FALSE

ClashesWithExact(kind, name) == kind = "dot" /\ name \in ha.keys_hash

(***************************************************************************)
(* ".example.com" takes its exact name before it is compared with the      *)
(* wildcards, and keeps it when it is refused there.                       *)
(***************************************************************************)
AddHead(key, flags) ==
  LET kind == KindOf(key, flags)
      lower == Strlow(key, Len(key))
      name == SubSeq(lower, IF kind = "dot" THEN 2 ELSE 3, Len(key))
      exact == IF kind = "dot" THEN {name} ELSE {}
      Taken == [ha EXCEPT !.keys_hash = @ \cup exact]
  IN  /\ kind \in {"dot", "head"}
      /\ \/ /\ ClashesWithExact(kind, name)
            /\ UNCHANGED ha
            /\ Returned(key, flags, kind, "BUSY")
         \/ /\ ~ClashesWithExact(kind, name)
            /\ name \in ha.head_hash
            /\ ha' = Taken
            /\ Returned(key, flags, kind, "BUSY")
         \/ /\ ~ClashesWithExact(kind, name)
            /\ name \notin ha.head_hash
            /\ ha' = [Taken EXCEPT !.head_hash = @ \cup {name},
                                   !.dns_wc_head = Append(@, Entry(Converted(lower)))]
            /\ Returned(key, flags, kind, "OK")

AddTail(key, flags) ==
  LET lower == Strlow(key, Len(key))
      name == SubSeq(lower, 1, Len(key) - 1)
  IN  /\ KindOf(key, flags) = "tail"
      /\ \/ /\ name \in ha.tail_hash
            /\ UNCHANGED ha
            /\ Returned(key, flags, "tail", "BUSY")
         \/ /\ name \notin ha.tail_hash
            /\ ha' = [ha EXCEPT !.tail_hash = @ \cup {name},
                                !.dns_wc_tail = Append(@, Entry(SubSeq(lower, 1, Len(key) - 2)))]
            /\ Returned(key, flags, "tail", "OK")

AddKey ==
  /\ combined = NotBuilt /\ Len(calls) < MaxCalls
  /\ \E k \in Keys :
       \/ AddDeclined(k.key, k.flags) \/ AddExact(k.key, k.flags)
       \/ AddHead(k.key, k.flags) \/ AddTail(k.key, k.flags)
  /\ UNCHANGED combined

(***************************************************************************)
(* The caller sorts the wildcards with rap_dns_strcmp and builds a table   *)
(* of each kind it has names of.                                           *)
(***************************************************************************)
Sorted(names) == LET Cmp(a, b) == DnsStrcmp(a.key, b.key) IN Sort(names, Cmp)

ExactTable(hinit) ==
  HashInit(hinit, [k \in DOMAIN ha.keys |->
                     Elt(ha.keys[k].key, Data(ha.keys[k].value, 0))])

WildcardTable(hinit, names) ==
  IF names = << >> THEN Absent
  ELSE [hash |-> WildcardInit(hinit, Sorted(names)), value |-> NULL]

Build ==
  /\ combined = NotBuilt
  /\ \E hinit \in Hinits :
       combined' = [hash |-> IF ha.keys = << >> THEN NoTable ELSE ExactTable(hinit),
                    wc_head |-> WildcardTable(hinit, ha.dns_wc_head),
                    wc_tail |-> WildcardTable(hinit, ha.dns_wc_tail)]
  /\ combined' # NotBuilt
  /\ UNCHANGED <<ha, calls>>

Next == AddKey \/ Build

Spec == Init /\ [][Next]_vars
-----------------------------------------------------------------------------
(***************************************************************************)
(* What a call offers: exact names, names everything below which it stands *)
(* for, and beginnings of names.                                           *)
(***************************************************************************)
Suffix(c) == SubSeq(c.key, IF c.kind = "dot" THEN 2 ELSE 3, Len(c.key))

Offers(c) ==
  CASE c.kind = "exact" -> {<<"exact", c.key>>}
    [] c.kind = "dot" -> {<<"exact", Suffix(c)>>, <<"below", Suffix(c)>>}
    [] c.kind = "head" -> {<<"below", Suffix(c)>>}
    [] c.kind = "tail" -> {<<"after", SubSeq(c.key, 1, Len(c.key) - 1)>>}
    [] c.kind = "declined" -> {}

Offered(how, i) == {o[2] : o \in {p \in Offers(calls[i]) : p[1] = how}}

Accepted == {i \in DOMAIN calls : calls[i].rc = "OK"}

Built ==
  /\ combined # NotBuilt
  /\ ha.keys # << >> => combined.hash # NoTable
  /\ ha.dns_wc_head # << >> => combined.wc_head.hash # NoTable
  /\ ha.dns_wc_tail # << >> => combined.wc_tail.hash # NoTable

(***************************************************************************)
(* Every bucket of every table, nested ones too, has room for its names    *)
(* and the NULL after them, and a label has one entry, in the bucket of    *)
(* its hash: sorting has brought all its names together.                   *)
(***************************************************************************)
TableHolds(table) ==
  \A b \in DOMAIN table.buckets :
    LET elts == table.buckets[b]
    IN  /\ elts # << >> => Bytes(elts) + Pointer <= table.room[b]
        /\ \A i, j \in DOMAIN elts : elts[i].key = elts[j].key => i = j

\* The tables in the buckets of tables.
NestedIn(tables) ==
  {elt.value.at.hash : elt \in
     {e \in UNION {UNION {ToSet(t.buckets[b]) : b \in DOMAIN t.buckets} : t \in tables} :
        e.value.tag >= 2}}

Tables(depth) ==
  LET inside[d \in 0 .. depth] ==
        IF d = 0 THEN {combined.hash, combined.wc_head.hash, combined.wc_tail.hash} \ {NoTable}
        ELSE NestedIn(inside[d - 1])
  IN  inside[depth]

BucketsHoldTheirNames ==
  Built => \A d \in 0 .. MaxDepth : \A table \in Tables(d) : TableHolds(table)

(***************************************************************************)
(* No two keys that were accepted offer the same name in the same way, and *)
(* a key is refused only for what some key before it offered, which may    *)
(* itself have been refused: ".x" after "*.x" keeps the exact name x.      *)
(***************************************************************************)
Clash(i, j) == Offers(calls[i]) \cap Offers(calls[j]) # {}

RefusedForAReason ==
  /\ \A i, j \in Accepted : Clash(i, j) => i = j
  /\ \A j \in DOMAIN calls : calls[j].rc = "BUSY" => \E i \in 1 .. j - 1 : Clash(i, j)
=============================================================================
