---------------------------- MODULE TextCompare ----------------------------
(***************************************************************************)
(* Comparing, searching, copying and sorting in rap/compiler/rap_string.c. *)
(* A text is a sequence of character codes; a C string is read as if a NUL *)
(* followed it.                                                            *)
(***************************************************************************)
EXTENDS Integers, SequencesExt

CharAt(s, i) == IF i \in DOMAIN s THEN s[i] ELSE 0

Lower(c) == IF c \in 65 .. 90 THEN c + 32 ELSE c
Upper(c) == IF c \in 97 .. 122 THEN c - 32 ELSE c
Same(c) == c

(***************************************************************************)
(* The loop of the comparing functions: the first of at most n places      *)
(* where the images of the characters differ, or where both strings end,   *)
(* decides.  Difference(i) says how.                                       *)
(***************************************************************************)
Compared(s1, s2, n, Image(_), Difference(_, _)) ==
  LET a(i) == Image(CharAt(s1, i))
      b(i) == Image(CharAt(s2, i))
      ends == {i \in 1 .. Min({n, Max({Len(s1), Len(s2)}) + 1}) : a(i) # b(i) \/ a(i) = 0}
  IN  IF ends = {} THEN 0
      ELSE IF a(Min(ends)) = b(Min(ends)) THEN 0
      ELSE Difference(a(Min(ends)), b(Min(ends)))

Minus(c1, c2) == c1 - c2

Whole(s1, s2) == Len(s1) + Len(s2) + 1

Strcasecmp(s1, s2) == Compared(s1, s2, Whole(s1, s2), Lower, Minus)
Strncmp(s1, s2, n) == Compared(s1, s2, n, Same, Minus)
Strncasecmp(s1, s2, n) == Compared(s1, s2, n, Lower, Minus)

(***************************************************************************)
(* rap_dns_strcmp: a dot is lower than any character but the end.          *)
(***************************************************************************)
\* Variant: a dot keeps its place above the hyphen.
DnsMinusPlain(c1, c2) == c1 - c2

DnsMinus(c1, c2) ==
  LET Low(c) == IF c = 46 THEN 32 ELSE c IN Low(c1) - Low(c2)

DnsStrcmp(s1, s2) == Compared(s1, s2, Whole(s1, s2), Lower, DnsMinus)

(***************************************************************************)
(* rap_filename_cmp on a file system that tells cases apart: the end comes *)
(* first, then a slash.                                                    *)
(***************************************************************************)
FilenameMinus(c1, c2) ==
  LET Low(c) == IF c = 47 THEN 0 ELSE c
  IN  IF c1 = 0 \/ c2 = 0 THEN c1 - c2 ELSE Low(c1) - Low(c2)

FilenameCmp(s1, s2, n) == Compared(s1, s2, n, Same, FilenameMinus)

(***************************************************************************)
(* rap_rstrncmp, rap_rstrncasecmp: the last of n places that differs.      *)
(***************************************************************************)
ComparedBack(s1, s2, n, Image(_)) ==
  LET differ == {i \in 1 .. n : Image(s1[i]) # Image(s2[i])}
  IN  IF differ = {} THEN 0 ELSE Image(s1[Max(differ)]) - Image(s2[Max(differ)])

Rstrncmp(s1, s2, n) == ComparedBack(s1, s2, n, Same)
Rstrncasecmp(s1, s2, n) == ComparedBack(s1, s2, n, Upper)

(***************************************************************************)
(* rap_memn2cmp: bytes, then the shorter first.                            *)
(***************************************************************************)
Memn2cmp(s1, s2) ==
  LET n == Min({Len(s1), Len(s2)})
      differ == {i \in 1 .. n : s1[i] # s2[i]}
  IN  IF differ # {} THEN s1[Min(differ)] - s2[Min(differ)]
      ELSE IF Len(s1) = Len(s2) THEN 0
      ELSE IF Len(s1) < Len(s2) THEN -1 ELSE 1

-----------------------------------------------------------------------------
Strnlen(p, n) ==
  LET nul == {i \in 1 .. n : CharAt(p, i) = 0} IN IF nul = {} THEN n ELSE Min(nul) - 1

(***************************************************************************)
(* Searching s2, not empty, in s1 up to place end: a place with its first  *)
(* character, where the others compare equal.  0 is NULL.                  *)
(***************************************************************************)
NULL == 0

Searched(s1, s2, end, folded) ==
  LET First(at) == IF folded THEN Lower(s1[at]) = Lower(s2[1]) ELSE s1[at] = s2[1]
      Compare(rest, n) == IF folded THEN Strncasecmp(rest, Tail(s2), n)
                          ELSE Strncmp(rest, Tail(s2), n)
      places == {at \in 1 .. end :
                   First(at) /\ Compare(SubSeq(s1, at + 1, Len(s1)), Len(s2) - 1) = 0}
  IN  IF places = {} THEN NULL ELSE Min(places)

Strstrn(s1, s2) == Searched(s1, s2, Strnlen(s1, Len(s1)), FALSE)
Strcasestrn(s1, s2) ==    \* the first of s2 is a char, and extends its sign
  IF s2[1] >= 128 THEN NULL ELSE Searched(s1, s2, Strnlen(s1, Len(s1)), TRUE)
Strlcasestrn(s1, s2) == Searched(s1, s2, Len(s1) - (Len(s2) - 1), TRUE)

(***************************************************************************)
(* rap_strnstr looks at the first len characters, and gives up when the    *)
(* others do not fit what is left of them.                                 *)
(***************************************************************************)
\* Variant: the others may reach past the first len characters.
StrnstrPast(s1, s2, len) ==
  Searched(s1, s2, Min({len, Strnlen(s1, Len(s1))}), FALSE)

Strnstr(s1, s2, len) ==
  Searched(s1, s2, Min({len - (Len(s2) - 1), Strnlen(s1, Len(s1))}), FALSE)

-----------------------------------------------------------------------------
Strlow(src, n) == [i \in 1 .. n |-> Lower(src[i])]

\* rap_cpystrn: at most n bytes, the last of them a NUL
Cpystrn(src, n) ==
  IF n = 0 THEN << >> ELSE Append(SubSeq(src, 1, Strnlen(src, n - 1)), 0)

(***************************************************************************)
(* rap_sort: insertion sort, each element behind those not greater.        *)
(* Without memory for one element it changes nothing.                      *)
(***************************************************************************)
\* Variant: an element goes before those that are equal.
SortPlaceFirst(order) ==
  LET upTo == {i \in DOMAIN order : order[i] < 0} IN IF upTo = {} THEN 1 ELSE Max(upTo) + 1

\* order[i]: how element i of those that are sorted compares with the new one
SortPlace(order) ==
  LET upTo == {i \in DOMAIN order : order[i] <= 0} IN IF upTo = {} THEN 1 ELSE Max(upTo) + 1

Sort(base, Cmp(_, _)) ==
  LET sorted[n \in 0 .. Len(base)] ==
        IF n = 0 THEN << >>
        ELSE LET before == sorted[n - 1]
             IN  InsertAt(before,
                          SortPlace([i \in DOMAIN before |-> Cmp(before[i], base[n])]),
                          base[n])
  IN  sorted[Len(base)]
=============================================================================
