----------------------------- MODULE MCStringLib -----------------------------
(***************************************************************************)
(* Inputs at the edges of every function: limits of the integer types,     *)
(* fractions that round up to the next whole, texts around MaxInt, names   *)
(* with dots and hyphens, bytes every escape treats differently, and the   *)
(* shortest and longest character of each length in UTF-8, whole, broken   *)
(* off, and with other bytes in them.                                      *)
(***************************************************************************)
EXTENDS StringLib

Plain(c) == [conv |-> "plain", char |-> c, flags |-> {}]

Text8(conv, arg) == [conv |-> conv, char |-> 0, flags |-> {}, arg |-> arg]

Number(conv, flags, zero, width, arg, neg, magnitude) ==
  [conv |-> conv, char |-> 0, flags |-> flags, zero |-> zero, width |-> width,
   arg |-> arg, neg |-> neg, magnitude |-> magnitude]

High64 == <<32768, 0, 0, 0>>
Ones64 == <<65535, 65535, 65535, 65535>>

Integers64 == {
  Number("d", {}, FALSE, 0, <<0, 0, 0, 0>>, FALSE, <<0, 0, 0, 0>>),
  Number("d", {}, FALSE, 5, <<0, 0, 65535, 65493>>, TRUE, <<0, 0, 0, 43>>),
  Number("d", {"u"}, TRUE, 3, <<0, 0, 65535, 65535>>, FALSE, <<0, 0, 65535, 65535>>),
  Number("D", {}, FALSE, 0, <<0, 0, 32768, 0>>, TRUE, <<0, 0, 32768, 0>>),
  Number("D", {"x"}, TRUE, 8, <<0, 0, 0, 48879>>, FALSE, <<0, 0, 0, 48879>>),
  Number("l", {}, FALSE, 0, High64, TRUE, High64),
  Number("L", {"u"}, FALSE, 0, Ones64, FALSE, Ones64),
  Number("L", {"X"}, FALSE, 3, Ones64, FALSE, Ones64),
  Number("T", {"u"}, TRUE, 12, <<65535, 65535, 65535, 65535>>, TRUE, <<0, 0, 0, 1>>),
  Number("M", {}, FALSE, 0, <<0, 0, 65535, 65535>>, TRUE, <<0, 0, 0, 1>>),
  Number("M", {"m"}, FALSE, 0, <<0, 0, 32768, 7>>, FALSE, <<0, 0, 32768, 7>>),
  Number("p", {}, FALSE, 0, <<0, 0, 4660, 22136>>, FALSE, <<0, 0, 4660, 22136>>) }

Fraction(zero, width, frac, neg, whole, num, den) ==
  [conv |-> "f", char |-> 0, flags |-> {}, zero |-> zero, width |-> width, frac |-> frac,
   arg |-> [neg |-> neg, whole |-> whole, num |-> num, den |-> den]]

Fractions(places) ==
  {Fraction(zero, IF zero THEN 6 ELSE 0, frac, neg, <<0, 0, 0, whole>>, part[1], part[2]) :
     zero, neg \in BOOLEAN, frac \in places, whole \in {9, 1999},
     part \in {<<0, 1>>, <<1, 2>>, <<1, 16>>, <<15, 16>>, <<1023, 1024>>}}

Pieces8 == { Text8("V", <<97, 98, 99>>), Text8("v", <<>>), Text8("s", <<104, 105>>),
             Text8("c", 321), Text8("Z", 0),
             [conv |-> "s", char |-> 0, flags |-> {"*"}, arg |-> <<120, 121, 122>>, len |-> 2],
             [conv |-> "%", char |-> 37, flags |-> {}], Plain(61) }

Singles == Integers64 \cup Pieces8 \cup Fractions({0, 1, 2, 3, 6, 9})

Second == {d \in Fractions({2}) : d.zero /\ d.arg.neg} \cup {Plain(61), Text8("V", <<97, 98, 99>>)}

MCFormats == {<<d>> : d \in Singles} \cup {<<d, e>> : d \in Integers64 \cup Pieces8, e \in Second}

\* %f with as many places as the comment allows.
LongFractions == {<<f>> : f \in {g \in Fractions({9, 10, 15}) : g.arg.whole[4] = 9}}

MCRooms == {0, 1, 3, 7, 40}

MCPlaces == 0 .. 3

MCLines == BoundedSeq({45, 46, 48, 49, 50, 55, 56}, 3) \cup BoundedSeq({55, 56, 70, 102, 71}, 3)
             \cup {<<46, 49, 50, 55>>, <<48, 49, 50, 56>>, <<49, 46, 50, 56>>, <<48, 48, 55, 102>>}

MCNames == BoundedSeq({45, 46}, 1) \cup
  {<<97>>, <<65>>, <<97, 46>>, <<97, 45>>, <<98>>, <<97, 46, 98>>, <<97, 45, 98>>, <<97, 97>>}

MCWords == MCNames \cup BoundedSeq({46, 47, 66, 98}, 2)
             \cup {<<98, 32>>, <<98, 97, 98>>, <<66, 97, 98>>, <<233, 97>>, <<98, 98, 97>>, <<98, 46, 98, 46>>}

MCPayloads == BoundedSeq({0, 10, 31, 34, 37, 38, 48, 60, 63, 92, 127, 255}, 3)
                \cup {<<77, 97, 110, 33>>, <<255, 254, 253, 252, 251>>, <<0, 16, 131, 16, 81, 135>>}

MCCoded == UNION {[1 .. n -> {37, 51, 70, 102, 52, 63, 65, 61}] : n \in 0 .. 4}
             \cup {<<45, 95, 56, 57>>, <<43, 47, 56, 57>>, <<103, 37, 50, 102, 37, 51, 102, 120>>}

\* The first and last of each length, one too long for its character, one past
\* the last, and surrogates; with bytes of which some bits are not looked at,
\* and with bytes that do not follow.
MCPieces ==
  {<<65>>, <<127>>, <<128>>, <<193, 191>>, <<194, 128>>, <<195, 40>>, <<195, 192>>, <<223, 255>>,
   <<224, 159, 191>>, <<224, 160, 128>>, <<226, 130, 40>>, <<226, 130, 236>>, <<226, 40, 172>>,
   <<237, 160, 128>>, <<239, 191, 191>>, <<240, 143, 191, 191>>, <<240, 144, 128, 128>>,
   <<240, 144, 128, 40>>, <<240, 207, 255, 191>>, <<240, 208, 128, 192>>, <<244, 143, 191, 191>>,
   <<244, 144, 128, 128>>, <<247, 191, 191, 191>>, <<248, 143, 191, 191>>, <<248, 144, 128, 128>>,
   <<252, 207, 191, 255>>, <<253, 128, 128, 128>>, <<255, 191, 191, 191>>}

\* Nothing follows them: a lead would be read as a byte that does.
MCCuts == {<<194>>, <<224, 160>>, <<239>>, <<244, 143, 191>>, <<248, 144>>, <<255>>}
=============================================================================
