----------------------------- MODULE MCHashNames -----------------------------
(***************************************************************************)
(* Names of up to three labels over a, b and b-c: exact ones, wildcards    *)
(* above and below one another, with capitals, with a dot at the end       *)
(* (behind which another one may lie), and some that are refused.          *)
(* The tables have one bucket, a few, or so many that the search for a     *)
(* size starts near the end; buckets of 32 bytes hold one short name.      *)
(***************************************************************************)
EXTENDS HashLookup

a == <<97>>
b == <<98>>
bc == <<98, 45, 99>>
Dot == <<DOT>>
Star == <<STAR>>

Wild(key) == [key |-> key, flags |-> {"wildcard"}]

MCKeys == {
  Wild(a \o Dot \o b), [key |-> <<65, DOT, 98>>, flags |-> {}],
  [key |-> b \o Dot \o b, flags |-> {"wildcard", "readonly"}],
  Wild(Dot \o b), Wild(Star \o Dot \o b), Wild(Star \o Dot \o bc),
  Wild(Dot \o <<65>> \o Dot \o b), Wild(Star \o Dot \o a \o Dot \o b),
  Wild(Star \o Dot \o b \o Dot \o a \o Dot \o b),
  Wild(a \o Dot \o Star), Wild(a \o Dot \o b \o Dot \o Star), Wild(Star \o Dot \o Star),
  Wild(b \o Dot) }

MCQueries == {
  a, b, a \o Dot \o b, b \o Dot \o b, a \o Dot \o bc, bc \o Dot \o b,
  a \o Dot \o a \o Dot \o b, b \o Dot \o a \o Dot \o b, a \o Dot \o b \o Dot \o a,
  a \o Dot \o b \o Dot \o a \o Dot \o b, a \o Dot \o a \o Dot \o a }

MCHinits == { [max_size |-> 1, bucket_size |-> 32], [max_size |-> 3, bucket_size |-> 24],
              [max_size |-> 5, bucket_size |-> 64] }
=============================================================================
