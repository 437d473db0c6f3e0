------------------------------ MODULE HashTable ------------------------------
(***************************************************************************)
(* The read only tables of rap/compiler/rap_hash.c: how rap_hash_init lays *)
(* out names in buckets, how rap_hash_wildcard_init nests such tables, one *)
(* for each label of a name.                                               *)
(*                                                                         *)
(* A name is a sequence of character codes.  A value is data or, with the  *)
(* second of its two low bits (tag) set, a nested table.  Names have their *)
(* data and data is not NULL, except where no name has been given.         *)
(***************************************************************************)
EXTENDS TextCompare

CONSTANTS
  KeyRange,           \* 2^32: a key is a uint4
  Pointer,            \* sizeof(void *)
  Cacheline,          \* rap_cacheline_size
  MaxBucket,          \* 65536 - rap_cacheline_size
  ManyBuckets, FewEach, LastSizes   \* 10000, 100 and 1000 of the large tables

ASSUME TableAssumption ==
  /\ {KeyRange, Pointer, Cacheline, FewEach} \subseteq Nat \ {0}
  /\ {MaxBucket, ManyBuckets, LastSizes} \subseteq Nat

HashKey(name) == FoldLeft(LAMBDA key, c : (key * 31 + c) % KeyRange, 0, name)

Aligned(n, to) == ((n + to - 1) \div to) * to

(***************************************************************************)
(* RAP_HASH_ELT_SIZE: a pointer to the value, two bytes of length, the     *)
(* name.  A bucket ends with a NULL value.                                 *)
(***************************************************************************)
EltSize(name) == Pointer + Aligned(Len(name) + 2, Pointer)

Bytes(elts) ==
  LET sum[n \in 0 .. Len(elts)] == IF n = 0 THEN 0 ELSE sum[n - 1] + EltSize(elts[n].key)
  IN  sum[Len(elts)]

\* The elements of s at some places, in their order.
Picked(s, places) ==
  LET picked[n \in 0 .. Len(s)] ==
        IF n = 0 THEN << >>
        ELSE IF n \in places THEN Append(picked[n - 1], s[n])
        ELSE picked[n - 1]
  IN  picked[Len(s)]

InBucket(names, size, b) ==
  LET places == {n \in DOMAIN names : names[n].key_hash % size = b} IN Picked(names, places)

(***************************************************************************)
(* The number of buckets: the first from start on for which every bucket   *)
(* keeps within bucket_size, and max_size when there is none.              *)
(***************************************************************************)
Start(hinit, nelts) ==
  LET least == nelts \div ((hinit.bucket_size - Pointer) \div (2 * Pointer))
  IN  IF hinit.max_size > ManyBuckets /\ nelts > 0 /\ hinit.max_size \div nelts < FewEach
      THEN hinit.max_size - LastSizes
      ELSE Max({least, 1})

Fits(hinit, names, size) ==
  \A b \in 0 .. size - 1 :
    Bytes(InBucket(names, size, b)) <= hinit.bucket_size - Pointer

Size(hinit, names) ==
  LET fitting == {s \in Start(hinit, Len(names)) .. hinit.max_size : Fits(hinit, names, s)}
  IN  IF fitting = {} THEN hinit.max_size ELSE Min(fitting)

\* Variant: the NULL at the end of a bucket has no room.
ReservedBare(elts) == IF elts = << >> THEN 0 ELSE Aligned(Bytes(elts), Cacheline)

Reserved(elts) == IF elts = << >> THEN 0 ELSE Aligned(Pointer + Bytes(elts), Cacheline)

NoTable == [size |-> 0]

(***************************************************************************)
(* Names are laid out in lower case.                                       *)
(***************************************************************************)
Lowered(names) == [n \in DOMAIN names |-> [names[n] EXCEPT !.key = Strlow(@, Len(@))]]

HashInit(hinit, names) ==
  LET size == Size(hinit, names)
      lowered == Lowered(names)
      buckets == [b \in 0 .. size - 1 |-> InBucket(lowered, size, b)]
  IN  IF \/ hinit.max_size = 0
         \/ hinit.bucket_size > MaxBucket
         \/ \E n \in DOMAIN names : hinit.bucket_size < EltSize(names[n].key) + Pointer
      THEN NoTable
      ELSE IF \E b \in DOMAIN buckets : Pointer + Bytes(buckets[b]) > MaxBucket
      THEN NoTable
      ELSE [size |-> size, buckets |-> buckets,
            room |-> [b \in DOMAIN buckets |-> Reserved(buckets[b])]]

Data(d, tag) == [tag |-> tag, at |-> d]

-----------------------------------------------------------------------------
(***************************************************************************)
(* rap_hash_wildcard_init.  names are sorted; those that go on after the   *)
(* first label of one of them follow it, and make up a table of their own. *)
(***************************************************************************)
DOT == 46

DotAt(key) == SelectInSeq(key, LAMBDA c : c = DOT)

Label(key) == IF DotAt(key) = 0 THEN key ELSE SubSeq(key, 1, DotAt(key) - 1)

\* Nothing comes after the label.
IsLabel(key) == DotAt(key) \in {0, Len(key)}

Follows(first, key) ==
  LET dot == DotAt(first)
      len == IF dot = 0 THEN Len(first) ELSE dot
  IN  /\ Strncmp(first, key, len) = 0
      /\ ~(dot = 0 /\ Len(key) > len /\ key[len + 1] # DOT)

\* opener[i]: the name n of the outer loop that takes name i.
Openers(names) ==
  LET opener[i \in 0 .. Len(names)] ==
        IF i = 0 THEN 0
        ELSE LET n == opener[i - 1]
             IN  IF n # 0 /\ Follows(names[n].key, names[i].key) THEN n ELSE i
  IN  opener

Heads(names) == {n \in DOMAIN names : Openers(names)[n] = n}

GroupEnd(names, n) == Max({i \in DOMAIN names : Openers(names)[i] = n})

After(name, len) == [key |-> SubSeq(name.key, len + 2, Len(name.key)), value |-> name.value]

NextNames(names, n) ==
  LET group == SubSeq(names, IF IsLabel(names[n].key) THEN n + 1 ELSE n, GroupEnd(names, n))
  IN  [k \in DOMAIN group |-> After(group[k], Len(Label(names[n].key)))]

Parents(names) == {n \in Heads(names) : NextNames(names, n) # << >>}

\* Variant: a name of several labels stands for its parent, too.
NestedTagOpen(dot) == 2

NestedTag(dot) == IF dot = 0 THEN 2 ELSE 3

Elt(key, value) == [key |-> key, key_hash |-> HashKey(key), value |-> value]

\* nested: the tables of the names after those of Parents(names)
CurrNames(names, nested) ==
  LET Wdc(n) == [hash |-> nested[n],
                 value |-> IF IsLabel(names[n].key) THEN names[n].value ELSE NULL]
      Value(n) == IF n \in DOMAIN nested THEN Data(Wdc(n), NestedTag(DotAt(names[n].key)))
                  ELSE Data(names[n].value, IF DotAt(names[n].key) = 0 THEN 0 ELSE 1)
      curr == [n \in DOMAIN names |-> Elt(Label(names[n].key), Value(n))]
      heads == Heads(names)
  IN  Picked(curr, heads)

Names == Seq([key : Seq(Nat), value : Nat])

WildcardInit(hinit, names) ==
  LET init[part \in Names] ==
        LET nested == [n \in Parents(part) |-> init[NextNames(part, n)]]
        IN  IF \E n \in DOMAIN nested : nested[n] = NoTable THEN NoTable
            ELSE HashInit(hinit, CurrNames(part, nested))
  IN  init[names]
=============================================================================
