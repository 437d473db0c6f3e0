--------------------------- MODULE TextEncodings ---------------------------
(***************************************************************************)
(* The encodings of rap/compiler/rap_string.c: base64, UTF-8, and the      *)
(* escaping of URIs, HTML and JSON.  Text is a sequence of bytes.          *)
(***************************************************************************)
EXTENDS Integers, SequencesExt

Refused == <<-1>>     \* RAP_ERROR of the decoders of base64
Failure == -1         \* 0xffffffff and 0xfffffffe of rap_utf8_decode
Incomplete == -2

(***************************************************************************)
(* The two alphabets, and the tables that read them (77: not a digit).     *)
(***************************************************************************)
Basis(v, url) ==
  CASE v < 26 -> 65 + v
    [] v \in 26 .. 51 -> 97 + v - 26
    [] v \in 52 .. 61 -> 48 + v - 52
    [] v = 62 -> IF url THEN 45 ELSE 43
    [] v = 63 -> IF url THEN 95 ELSE 47

Basis64(c, url) ==
  CASE c \in 65 .. 90 -> c - 65
    [] c \in 97 .. 122 -> c - 71
    [] c \in 48 .. 57 -> c + 4
    [] c = (IF url THEN 45 ELSE 43) -> 62
    [] c = (IF url THEN 95 ELSE 47) -> 63
    [] OTHER -> 77

At(s, i) == IF i \in DOMAIN s THEN s[i] ELSE 0

(***************************************************************************)
(* rap_encode_base64_internal: digit i, from 0, takes six bits of byte     *)
(* group 3 * (i \div 4); the bytes after the end count as zero.            *)
(***************************************************************************)
SixBits(src, i) ==
  LET g == 3 * (i \div 4)
      s == [k \in 0 .. 2 |-> At(src, g + k + 1)]
  IN  CASE i % 4 = 0 -> s[0] \div 4
        [] i % 4 = 1 -> (s[0] % 4) * 16 + s[1] \div 16
        [] i % 4 = 2 -> (s[1] % 16) * 4 + s[2] \div 64
        [] i % 4 = 3 -> s[2] % 64

EncodeBase64(src, url) ==
  LET digits == (Len(src) * 4 + 2) \div 3
      padding == IF url THEN 0 ELSE (4 - (digits % 4)) % 4
  IN  [i \in 1 .. digits + padding |->
         IF i <= digits THEN Basis(SixBits(src, i - 1), url) ELSE 61]

\* rap_base64_encoded_length, rap_base64_decoded_length
EncodedLength(len) == ((len + 2) \div 3) * 4
DecodedLength(len) == ((len + 3) \div 4) * 3

(***************************************************************************)
(* rap_decode_base64_internal.                                             *)
(***************************************************************************)
EightBits(b, i) ==
  LET g == 4 * (i \div 3) + 1
  IN  CASE i % 3 = 0 -> (b[g] * 4 + b[g + 1] \div 16) % 256
        [] i % 3 = 1 -> (b[g + 1] * 16 + b[g + 2] \div 4) % 256
        [] i % 3 = 2 -> (b[g + 2] * 64 + b[g + 3]) % 256

\* Variant: a lone digit at the end is let through.
DecodeBase64Lone(src, url) ==
  LET end == SelectInSeq(src, LAMBDA c : c = 61)
      len == IF end = 0 THEN Len(src) ELSE end - 1
      b == [i \in 1 .. len |-> Basis64(src[i], url)]
  IN  IF 77 \in ToSet(b) THEN Refused
      ELSE [i \in 1 .. (len * 3) \div 4 |-> EightBits(b, i - 1)]

DecodeBase64(src, url) ==
  LET end == SelectInSeq(src, LAMBDA c : c = 61)
      len == IF end = 0 THEN Len(src) ELSE end - 1
      b == [i \in 1 .. len |-> Basis64(src[i], url)]
  IN  IF 77 \in ToSet(b) \/ len % 4 = 1 THEN Refused
      ELSE [i \in 1 .. (len * 3) \div 4 |-> EightBits(b, i - 1)]

-----------------------------------------------------------------------------
(***************************************************************************)
(* rap_utf8_decode at position at of a text that has n bytes from there:   *)
(* the character, and where the next one starts.  lead is what the first   *)
(* byte says: its bits, the bytes that follow, and the largest character   *)
(* that would have fitted a shorter form.                                  *)
(***************************************************************************)
Lead(c) ==
  CASE c >= 240 -> [u |-> c % 8, len |-> 3, valid |-> 65535]
    [] c \in 224 .. 239 -> [u |-> c % 16, len |-> 2, valid |-> 2047]
    [] c \in 194 .. 223 -> [u |-> c % 32, len |-> 1, valid |-> 127]

\* Variant: a longer form than needed is taken for the character.
Utf8DecodeOverlong(s, at, n) ==
  IF s[at] < 194 THEN [u |-> Failure, next |-> at + 1]
  ELSE LET lead == Lead(s[at])
           u[i \in 0 .. lead.len] == IF i = 0 THEN lead.u ELSE u[i - 1] * 64 + (s[at + i] % 64)
       IN  IF n - 1 < lead.len THEN [u |-> Incomplete, next |-> at]
           ELSE IF \E i \in 1 .. lead.len : s[at + i] < 128
           THEN [u |-> Failure, next |-> at + 1]
           ELSE [u |-> u[lead.len], next |-> at + lead.len + 1]

Utf8Decode(s, at, n) ==
  IF s[at] < 194 THEN [u |-> Failure, next |-> at + 1]
  ELSE LET lead == Lead(s[at])
           bad == {i \in 1 .. lead.len : s[at + i] < 128}
           u[i \in 0 .. lead.len] == IF i = 0 THEN lead.u ELSE u[i - 1] * 64 + (s[at + i] % 64)
       IN  IF n - 1 < lead.len THEN [u |-> Incomplete, next |-> at]
           ELSE IF bad # {} THEN [u |-> Failure, next |-> at + Min(bad) + 1]
           ELSE [u |-> IF u[lead.len] > lead.valid THEN u[lead.len] ELSE Failure,
                 next |-> at + lead.len + 1]

Valid(u) == u \in 0 .. 1114111

(***************************************************************************)
(* rap_utf8_length: the characters of a text, or its bytes when it is not  *)
(* UTF-8.                                                                  *)
(***************************************************************************)
Utf8Length(s) ==
  LET from[at \in 1 .. Len(s) + 1, len \in 0 .. Len(s)] ==
        IF at > Len(s) THEN len
        ELSE IF s[at] < 128 THEN from[at + 1, len + 1]
        ELSE LET d == Utf8Decode(s, at, Len(s) - at + 1)
             IN  IF Valid(d.u) THEN from[d.next, len + 1] ELSE Len(s)
  IN  from[1, 0]

(***************************************************************************)
(* rap_utf8_cpystrn: at most n - 1 characters, up to a NUL or to what is   *)
(* not UTF-8, and a NUL.  s ends with a NUL that len does not count.       *)
(***************************************************************************)
Utf8Cpystrn(s, n, len) ==
  LET from[at \in DOMAIN s, left \in 1 .. n] ==
        IF left = 1 \/ s[at] = 0 THEN <<0>>
        ELSE IF s[at] < 128 THEN <<s[at]>> \o from[at + 1, left - 1]
        ELSE LET d == Utf8Decode(s, at, len - at + 1)
             IN  IF ~Valid(d.u) THEN <<0>>
                 ELSE SubSeq(s, at, d.next - 1) \o from[d.next, left - 1]
  IN  IF n = 0 THEN << >> ELSE from[1, n]

-----------------------------------------------------------------------------
(***************************************************************************)
(* rap_escape_uri.  The bit maps of the seven types, as sets of bytes.     *)
(***************************************************************************)
Controls == 0 .. 31
High == 127 .. 255
Letters == (48 .. 57) \cup (65 .. 90) \cup (97 .. 122)

EscapedBytes ==
  [uri |-> Controls \cup {32, 35, 37, 63} \cup High,
   args |-> Controls \cup {32, 35, 37, 38, 43, 59, 63} \cup High,
   uri_component |-> (0 .. 255) \ (Letters \cup {45, 46, 95, 126}),
   html |-> Controls \cup {32, 34, 35, 37, 39} \cup High,
   refresh |-> Controls \cup {32, 34, 39} \cup High,
   memcached |-> Controls \cup {32, 37},
   mail_auth |-> Controls \cup {32, 37}]

HexChar(d) == IF d < 10 THEN 48 + d ELSE 55 + d

Mapped(src, Image(_)) ==
  LET mapped[n \in 0 .. Len(src)] == IF n = 0 THEN << >> ELSE mapped[n - 1] \o Image(src[n])
  IN  mapped[Len(src)]

Quoted(c) == <<37, HexChar(c \div 16), HexChar(c % 16)>>

Total(src, Room(_)) ==
  LET sum[n \in 0 .. Len(src)] == IF n = 0 THEN 0 ELSE sum[n - 1] + Room(src[n])
  IN  sum[Len(src)]

EscapeUriCount(src, type) ==
  LET Room(c) == IF c \in EscapedBytes[type] THEN 1 ELSE 0 IN Total(src, Room)

EscapeUri(src, type) ==
  LET Image(c) == IF c \in EscapedBytes[type] THEN Quoted(c) ELSE <<c>> IN Mapped(src, Image)

(***************************************************************************)
(* rap_unescape_uri, a byte at a time.  The types are uri, redirect and    *)
(* none; a question mark ends the work of the first two.  A decoded byte   *)
(* of a redirect stays quoted unless it is plain.                          *)
(***************************************************************************)
HexValue(c) ==
  CASE c \in 48 .. 57 -> c - 48
    [] c \in 97 .. 102 -> c - 97 + 10
    [] c \in 65 .. 70 -> c - 65 + 10
    [] OTHER -> -1

Emit(m, text, state) == [m EXCEPT !.out = @ \o text, !.state = state]

Decoded(m, c, type) ==
  LET ch == (m.first * 16 + HexValue(c)) % 256
      kept == <<37, m.last, c>>
      done == ch = 63 /\ type # "none" /\ c \notin 48 .. 57
  IN  CASE done -> Emit(m, <<ch>>, "done")
        [] ~done /\ type = "redirect" ->
             Emit(m, IF ch > 37 /\ ch < 127 THEN <<ch>> ELSE kept, "usual")
        [] OTHER -> Emit(m, <<ch>>, "usual")

UnescapeStep(m, c, type) ==
  CASE m.state = "done" -> m
    [] m.state = "usual" /\ c = 63 /\ type # "none" -> Emit(m, <<c>>, "done")
    [] m.state = "usual" /\ c = 37 -> Emit(m, << >>, "quoted")
    [] m.state = "quoted" /\ HexValue(c) >= 0 ->
         [m EXCEPT !.first = HexValue(c), !.last = c, !.state = "second"]
    [] m.state = "second" /\ HexValue(c) >= 0 -> Decoded(m, c, type)
    [] m.state = "second" /\ HexValue(c) < 0 -> Emit(m, << >>, "usual")
    [] OTHER -> Emit(m, <<c>>, "usual")

UnescapeUri(src, type) ==
  LET Step(m, c) == UnescapeStep(m, c, type)
  IN  FoldLeft(Step, [out |-> << >>, state |-> "usual", first |-> 0, last |-> 0], src).out

(***************************************************************************)
(* rap_escape_html and rap_escape_json, each with the pass that counts     *)
(* the additional bytes.                                                   *)
(***************************************************************************)
Entity(c) ==
  CASE c = 60 -> <<38, 108, 116, 59>>
    [] c = 62 -> <<38, 103, 116, 59>>
    [] c = 38 -> <<38, 97, 109, 112, 59>>
    [] c = 34 -> <<38, 113, 117, 111, 116, 59>>
    [] OTHER -> <<c>>

EntityRoom(c) == CASE c \in {60, 62} -> 3 [] c = 38 -> 4 [] c = 34 -> 5 [] OTHER -> 0

EscapeHtmlCount(src) == Total(src, EntityRoom)
EscapeHtml(src) == Mapped(src, Entity)

ShortEscapes == {10, 13, 9, 8, 12}

ShortLetter(c) ==
  CASE c = 10 -> 110 [] c = 13 -> 114 [] c = 9 -> 116 [] c = 8 -> 98 [] c = 12 -> 102

JsonImage(c) ==
  CASE c \in {92, 34} -> <<92, c>>
    [] c \in ShortEscapes -> <<92, ShortLetter(c)>>
    [] c <= 31 /\ c \notin ShortEscapes ->
         <<92, 117, 48, 48, 48 + c \div 16, HexChar(c % 16)>>
    [] OTHER -> <<c>>

\* Variant: a control character is counted as a short escape.
JsonRoomShort(c) == IF c \in {92, 34} \cup Controls THEN 1 ELSE 0

JsonRoom(c) ==
  IF c \in {92, 34} \cup ShortEscapes THEN 1 ELSE IF c <= 31 THEN 5 ELSE 0

EscapeJsonCount(src) == Total(src, JsonRoom)
EscapeJson(src) == Mapped(src, JsonImage)
=============================================================================
