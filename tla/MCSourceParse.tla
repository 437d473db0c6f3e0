---------------------------- MODULE MCSourceParse ----------------------------
(***************************************************************************)
(* Files of up to three of the parts below, and some longer ones. Arrays   *)
(* are created with two elements, the pool's first block has ten cells,    *)
(* six of which the new arrays have, and filesize is counted modulo 32, so *)
(* that small files fill them and exceed it.                               *)
(***************************************************************************)
EXTENDS SourceParse

x == "x"
nl == "newline"
q == "dquote"
a == "squote"
s == "backslash"

Parts == {
  <<x>>, <<"space">>, <<nl>>, <<"wide">>, <<q>>, <<"/*">>, <<"*/">>, <<"semicolon">>, <<"rbrace">>,
  <<"/*", q, nl, "*/">>, <<"/*", "import", x, "semicolon", "*/">>,
  <<q, x, q>>, <<q, s, q, "class", q>>, <<q, s, s, q>>, <<q, "/*", q>>, <<q, "lbrace", nl, q>>,
  <<a, q, a>>, <<a, s, a, "package", "semicolon", a>>,
  <<"package", x, "semicolon">>, <<"import", x, "semicolon">>, <<"import", x>>,
  <<"class", "space">>, <<"class", "space", x, "lbrace", "rbrace">>,
  <<"class", "lbrace", q, "rbrace", q, "rbrace">>, <<"class", "lbrace", "lbrace", "rbrace">>,
  <<"//", "class", "lbrace", "rbrace">> }

Class == <<"space", "class", "lbrace", "rbrace">>
Comment == <<"/*", x, "*/">>

MCFiles ==
  {FlattenSeq(parts) : parts \in BoundedSeq(Parts, 3)}
    \cup {Comment \o Comment \o Comment \o Class \o Class \o Class,
          <<q, q, a, a>> \o Comment \o <<q, x, q, a, x, a>> \o Class \o Class,
          <<"import", "semicolon", nl, "import", "semicolon", nl, "import", "semicolon">>
            \o Class \o Class,
          Comment \o <<q, q, q, q, q, q>> \o Comment \o Comment \o Comment \o Class,
          <<"import", "semicolon", nl>> \o Comment \o Class \o Comment \o Class,
          <<"class", "import", "lbrace", "rbrace">>,
          [i \in 1 .. 12 |-> q] \o Class \o Class \o Class \o Class,
          [i \in 1 .. 14 |-> q] \o Class \o Class \o Class,
          Comment \o Comment \o Comment \o Comment \o Comment \o [i \in 1 .. 6 |-> q] \o Class,
          [i \in 1 .. 31 |-> x] \o Comment,
          Comment \o [i \in 1 .. 33 |-> IF i % 3 = 0 THEN a ELSE x]}
=============================================================================
