------------------------------ MODULE StringLib ------------------------------
(***************************************************************************)
(* A program calling the string library, one call at a time, on any of the *)
(* given inputs, and what the results promise.  The functions themselves   *)
(* are the operators of TextNumbers, TextCompare and TextEncodings.        *)
(***************************************************************************)
EXTENDS TextNumbers, TextCompare, TextEncodings

CONSTANTS
  Formats,            \* formats to print, sequences of items
  Rooms,              \* sizes of the buffers to print and copy to
  Enough,             \* as much room as any of them
  Lines, Points,      \* texts to parse, decimal places
  Words, Names,       \* texts to compare and search, texts to sort
  Payloads,           \* byte sequences to encode
  Coded,              \* texts to decode
  Pieces,             \* the bytes of characters, well formed or not
  Cuts                \* the beginnings of characters a text may break off with

(***************************************************************************)
(* Bytes, and in the words no NUL, which would end a C string.             *)
(***************************************************************************)
ASSUME InputsAssumption ==
  /\ Words \cup Names \subseteq Seq(1 .. 255)
  /\ Lines \cup Payloads \cup Coded \cup Pieces \cup Cuts \subseteq Seq(0 .. 255)
  /\ \A piece \in Pieces \cup Cuts : Len(piece) \in 1 .. 4
  /\ Rooms \cup Points \subseteq Nat
  /\ Enough \in Nat /\ \A n \in Rooms : n <= Enough

(***************************************************************************)
(* A format may say of an integer which number its argument stands for, a  *)
(* sign and a magnitude: in two's complement, of 32 bits for d, D and M.   *)
(* There is enough room for its width, or a sign and the twenty digits.    *)
(***************************************************************************)
TakesSign(d) ==
  d.conv \in {"T", "M"} \/ (d.conv # "p" /\ d.flags \cap {"u", "x", "X"} = {})

StandsFor(d) ==
  LET first == IF d.conv \in {"M", "d", "D"} THEN 3 ELSE 1
      m == d.magnitude
  IN  /\ d.neg \in BOOLEAN /\ m \in Number64
      /\ \A i \in 1 .. first - 1 : m[i] = 0
      /\ \A i \in first .. 4 : d.arg[i] = IF d.neg THEN Negated(m)[i] ELSE m[i]
      /\ d.neg => /\ TakesSign(d) /\ m # Zero64
                  /\ m[first] < Limb \div 2 \/ m = [Zero64 EXCEPT ![first] = Limb \div 2]
      /\ IF d.conv = "M" THEN m # MinusOne32 /\ (d.neg => m = <<0, 0, 0, 1>>)
         ELSE TakesSign(d) /\ ~d.neg => m[first] < Limb \div 2
      /\ {d.width, PointerDigits} \subseteq 0 .. Enough - 21

(***************************************************************************)
(* The arguments are of the types their directives name: numbers of 64     *)
(* bits, fractions, texts no shorter than the length given with them.      *)
(***************************************************************************)
Given(d) ==
  /\ d.char \in 0 .. 255
  /\ d.conv \in {"T", "M", "d", "l", "D", "L", "p"} =>
       /\ d.arg \in Number64 /\ d.width \in Nat
       /\ "magnitude" \in DOMAIN d => StandsFor(d)
  /\ d.conv = "f" => /\ d.arg.whole \in Number64 /\ d.arg.num \in Nat /\ d.arg.den \in Nat \ {0}
                     /\ {d.width, d.frac} \subseteq Nat
  /\ d.conv \in {"V", "v", "s"} => d.arg \in Seq(0 .. 255)
  /\ d.conv = "s" /\ "*" \in d.flags => d.len \in 0 .. Len(d.arg)
  /\ d.conv = "c" => d.arg \in Int

ASSUME FormatsAssumption ==
  \A fmt \in Formats : fmt \in Seq(ToSet(fmt)) /\ \A d \in ToSet(fmt) : Given(d)

VARIABLES call, result

vars == <<call, result>>

Idle == [fn |-> "idle"]

Init == call = Idle /\ result = << >>

Calls(c, value) == call' = c /\ result' = value

Return == call # Idle /\ call' = Idle /\ result' = << >>

PrintText ==
  /\ call = Idle
  /\ \E fmt \in Formats, last \in Rooms :
       Calls([fn |-> "print", fmt |-> fmt, last |-> last], Vslprintf(<< >>, last, fmt))

Parse ==
  /\ call = Idle
  /\ \E line \in Lines, point \in Points :
       Calls([fn |-> "parse", line |-> line, point |-> point],
             [atoi |-> AtoI(line), atofp |-> AtoFp(line, point), hextoi |-> HexToI(line)])

Comparisons(s1, s2) ==
  LET n == Min({Len(s1), Len(s2)})
  IN  [strcasecmp |-> Strcasecmp(s1, s2), dns |-> DnsStrcmp(s1, s2),
       filename |-> FilenameCmp(s1, s2, Whole(s1, s2)), memn2 |-> Memn2cmp(s1, s2),
       rstrn |-> Rstrncmp(s1, s2, n), rstrncase |-> Rstrncasecmp(s1, s2, n)]

Compare ==
  /\ call = Idle
  /\ \E s1, s2 \in Words :
       Calls([fn |-> "compare", s1 |-> s1, s2 |-> s2], Comparisons(s1, s2))

Search ==
  /\ call = Idle
  /\ \E s1, s2 \in Words \ {<< >>}, len \in Rooms :
       Calls([fn |-> "search", s1 |-> s1, s2 |-> s2, len |-> len],
             [strnstr |-> Strnstr(s1, s2, len), strstrn |-> Strstrn(s1, s2),
              strcasestrn |-> Strcasestrn(s1, s2), strlcasestrn |-> Strlcasestrn(s1, s2)])

Sorted(base) == LET Cmp(a, b) == DnsStrcmp(a.name, b.name) IN Sort(base, Cmp)

SortWords ==
  /\ call = Idle
  /\ \E s1, s2, s3 \in Names :
       LET base == <<[name |-> s1, id |-> 1], [name |-> s2, id |-> 2], [name |-> s3, id |-> 3]>>
       IN  \E failed \in BOOLEAN :       \* rap_alloc
             Calls([fn |-> "sort", failed |-> failed, base |-> base],
                   IF failed THEN base ELSE Sorted(base))

CopyWord ==
  /\ call = Idle
  /\ \E src \in Words, n \in Rooms :
       Calls([fn |-> "copy", src |-> src, n |-> n], Cpystrn(Strlow(src, Len(src)), n))

Encode ==
  /\ call = Idle
  /\ \E src \in Payloads :
       Calls([fn |-> "encode", src |-> src],
             [base64 |-> EncodeBase64(src, FALSE), base64url |-> EncodeBase64(src, TRUE),
              hex |-> HexDump(src), html |-> EscapeHtml(src), json |-> EscapeJson(src),
              uri |-> [type \in DOMAIN EscapedBytes |-> EscapeUri(src, type)]])

Decode ==
  /\ call = Idle
  /\ \E src \in Coded :
       Calls([fn |-> "decode", src |-> src],
             [base64 |-> DecodeBase64(src, FALSE), base64url |-> DecodeBase64(src, TRUE),
              none |-> UnescapeUri(src, "none"), uri |-> UnescapeUri(src, "uri"),
              redirect |-> UnescapeUri(src, "redirect")])

ReadUtf8 ==
  /\ call = Idle
  /\ \E pieces \in BoundedSeq(Pieces, 2), cut \in BoundedSeq(Cuts, 1), n \in Rooms :
       LET text == FlattenSeq(pieces \o cut)
       IN  /\ text # << >>
           /\ Calls([fn |-> "utf8", pieces |-> pieces \o cut, n |-> n],
                    [length |-> Utf8Length(text), copy |-> Utf8Cpystrn(Append(text, 0), n, Len(text)),
                     first |-> IF text[1] < 128 THEN text[1] ELSE Utf8Decode(text, 1, Len(text)).u])

Next ==
  \/ PrintText \/ Parse \/ Compare \/ Search \/ SortWords \/ CopyWord
  \/ Encode \/ Decode \/ ReadUtf8 \/ Return

Spec == Init /\ [][Next]_vars

-----------------------------------------------------------------------------
(***************************************************************************)
(* Nothing is written past the end of a buffer: what is printed into too   *)
(* little room is the beginning of what would be printed into enough of    *)
(* it, a copied string ends with a NUL inside its room, and the digits of  *)
(* a number fit the 20 bytes of temp (rap_string.c:432).                   *)
(***************************************************************************)
NeverPastTheEnd ==
  /\ call.fn = "print" =>
       /\ Len(result) <= call.last
       /\ IsPrefix(result, Vslprintf(<< >>, Enough, call.fmt))
       /\ \A i \in DOMAIN call.fmt :
            call.fmt[i].conv \in {"d", "l", "D", "L", "T", "M"} =>
              Len(Digits(call.fmt[i].arg, Hex(call.fmt[i]))) <= 20
  /\ call.fn = "copy" =>
       IF call.n = 0 THEN result = << >>
       ELSE Len(result) <= call.n /\ Last(result) = 0 /\ 0 \notin ToSet(Front(result))

(***************************************************************************)
(* An integer reads back as the number that was given, with its sign: of   *)
(* whatever type, width and base.                                          *)
(***************************************************************************)
ReadNumber(text, base) ==
  LET number[n \in 0 .. Len(text)] ==
        IF n = 0 THEN Zero64
        ELSE IF text[n] \in {32, 45, 46} THEN number[n - 1]
        ELSE TimesPlus(number[n - 1], base, HexDigit(text[n]))
  IN  number[Len(text)]

PrintsInteger(d, text) ==
  /\ (45 \in ToSet(text)) = d.neg
  /\ ReadNumber(text, IF d.flags \cap {"x", "X"} = {} /\ d.conv # "p" THEN 10 ELSE 16)
       = d.magnitude
  /\ Len(text) >= IF d.conv = "p" THEN PointerDigits ELSE d.width

IntegersReadBack ==
  call.fn = "print" /\ Len(call.fmt) = 1 =>
    LET d == Head(call.fmt)
    IN  d.conv \in {"T", "M", "d", "l", "D", "L", "p"} /\ "magnitude" \in DOMAIN d =>
          PrintsInteger(d, Vslprintf(<< >>, Enough, call.fmt))

(***************************************************************************)
(* A %f reads back rounded to its decimal places, or cut when it has none. *)
(***************************************************************************)
RoundedTo(f, places) ==
  LET wide[k \in 0 .. places] == IF k = 0 THEN TimesPlus(f.whole, f.den, f.num)
                                 ELSE TimesPlus(wide[k - 1], 10, 0)
  IN  Quotient(TimesPlus(wide[places], 1, f.den \div 2), f.den)

PrintsFraction(d, text) ==
  /\ (45 \in ToSet(text)) = d.arg.neg
  /\ ReadNumber(text, 10) = IF d.frac = 0 THEN d.arg.whole ELSE RoundedTo(d.arg, d.frac)

FractionsReadBack ==
  call.fn = "print" /\ Len(call.fmt) = 1 =>
    LET d == Head(call.fmt)
    IN  d.conv = "f" => PrintsFraction(d, Vslprintf(<< >>, Enough, call.fmt))

(***************************************************************************)
(* "%[0][width][.width]f   double, max valid number fits to %18.15f"       *)
(* (rap_string.c:99): so %f prints as many places as asked, up to 15.      *)
(***************************************************************************)
FractionsAsDocumented == FractionsReadBack

(***************************************************************************)
(* A parser returns the number when the text is one and an int4 holds it,  *)
(* and RAP_ERROR in every other case.                                      *)
(***************************************************************************)
ValueOf(digits, base) ==
  LET value[n \in 0 .. Len(digits)] ==
        IF n = 0 THEN 0 ELSE value[n - 1] * base + HexDigit(digits[n])
  IN  value[Len(digits)]

IfFits(wellFormed, value) == IF wellFormed /\ value <= MaxInt THEN value ELSE ERROR

FixedPoint(line, point) ==
  LET dot == SelectInSeq(line, LAMBDA c : c = 46)
      digits == IF dot = 0 THEN line ELSE RemoveAt(line, dot)
      places == IF dot = 0 THEN 0 ELSE Len(line) - dot
      zeros == [i \in 1 .. point - places |-> 48]
      wellFormed == /\ line # << >> /\ point > 0 /\ places <= point
                    /\ \A i \in DOMAIN digits : IsDigit(digits[i])
  IN  IfFits(wellFormed, IF wellFormed THEN ValueOf(digits \o zeros, 10) ELSE 0)

ParsesExactly ==
  call.fn = "parse" =>
    LET line == call.line
        decimal == line # << >> /\ \A i \in DOMAIN line : IsDigit(line[i])
        hex == line # << >> /\ \A i \in DOMAIN line : HexDigit(line[i]) # ERROR
    IN  /\ result.atoi = IfFits(decimal, IF decimal THEN ValueOf(line, 10) ELSE 0)
        /\ result.hextoi = IfFits(hex, IF hex THEN ValueOf(line, 16) ELSE 0)
        /\ result.atofp = FixedPoint(line, call.point)

(***************************************************************************)
(* The comparing functions are orders: antisymmetric and transitive.  And  *)
(* between two names whose first labels are the same, rap_dns_strcmp puts  *)
(* no name with another first label.  This function takes a dot for a      *)
(* blank: it is an order of words without one, and puts a dot first among  *)
(* the characters above it.                                                *)
(***************************************************************************)
AboveBlank(words) == \A w \in words : ToSet(w) \cap 1 .. 32 = {}

Folded(s) == Strlow(s, Len(s))

FirstLabel(s) == LET dot == SelectInSeq(s, LAMBDA c : c = 46)
                 IN  Folded(IF dot = 0 THEN s ELSE SubSeq(s, 1, dot - 1))

Sign(n) == IF n > 0 THEN 1 ELSE IF n < 0 THEN -1 ELSE 0

Orders == {"strcasecmp", "dns", "filename", "memn2"}

OrdersConsistently ==
  call.fn = "compare" =>
    LET back == Comparisons(call.s2, call.s1)
    IN  /\ \A how \in DOMAIN result : Sign(result[how]) = -Sign(back[how])
        /\ \A s3 \in Words :
             LET on == Comparisons(call.s2, s3)
                 far == Comparisons(call.s1, s3)
                 named == AboveBlank({call.s1, call.s2, s3})
             IN  /\ \A how \in IF named THEN Orders ELSE Orders \ {"dns"} :
                      result[how] <= 0 /\ on[how] <= 0 => far[how] <= 0
                 /\ named /\ result.dns <= 0 /\ on.dns <= 0 /\ FirstLabel(call.s1) = FirstLabel(s3)
                      => FirstLabel(call.s2) = FirstLabel(s3)

(***************************************************************************)
(* A search returns the first place where the word stands, case folded     *)
(* where the function says so, within the length it was given.  The one    *)
(* exception is a word whose first byte is not ASCII in rap_strcasestrn.   *)
(***************************************************************************)
FirstPlace(s1, s2, last) ==
  LET places == {i \in 1 .. last - Len(s2) + 1 : SubSeq(s1, i, i + Len(s2) - 1) = s2}
  IN  IF places = {} THEN NULL ELSE Min(places)

FindsFirst ==
  call.fn = "search" =>
    LET s1 == call.s1 s2 == call.s2
        place == FirstPlace(Folded(s1), Folded(s2), Len(s1))
    IN  /\ result.strstrn = FirstPlace(s1, s2, Len(s1))
        /\ result.strnstr = FirstPlace(s1, s2, Min({call.len, Len(s1)}))
        /\ s2[1] < 128 => result.strcasestrn = place
        /\ result.strlcasestrn = place

(***************************************************************************)
(* rap_sort orders its elements, here by rap_dns_strcmp, and keeps the     *)
(* order of equal ones.                                                    *)
(***************************************************************************)
SortsStably ==
  call.fn = "sort" /\ ~call.failed /\ AboveBlank({n.name : n \in ToSet(call.base)}) =>
    /\ ToSet(result) = ToSet(call.base) /\ Len(result) = Len(call.base)
    /\ \A i, j \in DOMAIN result : i < j =>
         LET order == DnsStrcmp(result[i].name, result[j].name)
         IN  order < 0 \/ (order = 0 /\ result[i].id < result[j].id)

(***************************************************************************)
(* What was encoded comes back.  Base64 and quoted URIs through the        *)
(* library's own decoders; a URI up to its first question mark, where      *)
(* rap_unescape_uri stops; HTML and JSON as a reader understands them.     *)
(* Not a refresh: its bit map leaves the percent sign alone.  A base64     *)
(* text that is accepted has the digits of some bytes, and a redirect that *)
(* was unescaped still means the same.                                     *)
(***************************************************************************)
Understood(text, Image(_)) ==
  LET read[i \in 1 .. Len(text) + 1] ==
        IF i > Len(text) THEN << >>
        ELSE LET c == CHOOSE c \in 0 .. 255 : IsPrefix(Image(c), SubSeq(text, i, Len(text)))
             IN  <<c>> \o read[i + Len(Image(c))]
  IN  read[1]

UpToMark(s) == LET mark == SelectInSeq(s, LAMBDA c : c = 63)
               IN  IF mark = 0 THEN s ELSE SubSeq(s, 1, mark)

QuotesInOrder(s) ==
  \A i \in DOMAIN s : s[i] = 37 =>
    i + 2 <= Len(s) /\ HexValue(s[i + 1]) >= 0 /\ HexValue(s[i + 2]) >= 0

ComesBack ==
  /\ call.fn = "encode" =>
       /\ DecodeBase64(result.base64, FALSE) = call.src
       /\ DecodeBase64(result.base64url, TRUE) = call.src
       /\ \A type \in DOMAIN EscapedBytes \ {"refresh"} :
            UnescapeUri(result.uri[type], "none") = call.src
       /\ UnescapeUri(result.uri["uri"], "uri") = UpToMark(call.src)
       /\ Understood(result.html, Entity) = call.src
       /\ Understood(result.json, JsonImage) = call.src
  /\ call.fn = "decode" =>
       /\ result.base64 # Refused =>
            Len(SelectSeq(EncodeBase64(result.base64, FALSE), LAMBDA c : c # 61))
              = Len(SubSeq(call.src, 1, SelectInSeq(Append(call.src, 61), LAMBDA c : c = 61) - 1))
       /\ QuotesInOrder(call.src) =>
            UnescapeUri(result.redirect, "none") \in
              {result.none, UpToMark(result.none)}

(***************************************************************************)
(* The room a caller is told to provide is what is written: the counting   *)
(* pass of the escaping functions, and the lengths of base64.              *)
(***************************************************************************)
RoomIsEnough ==
  call.fn = "encode" =>
    LET len == Len(call.src)
    IN  /\ \A type \in DOMAIN EscapedBytes :
             Len(result.uri[type]) = len + 2 * EscapeUriCount(call.src, type)
        /\ Len(result.html) = len + EscapeHtmlCount(call.src)
        /\ Len(result.json) = len + EscapeJsonCount(call.src)
        /\ Len(result.base64) = EncodedLength(len)
        /\ Len(result.base64url) <= EncodedLength(len)
        /\ len <= DecodedLength(Len(result.base64url))

(***************************************************************************)
(* What rap_utf8_decode takes for a character: its bits in its shortest    *)
(* form.  Bits is the only character that some bytes can stand for, by the *)
(* low bits of each, and Form writes a character.  The decoder refuses a   *)
(* following byte below 128 only, and looks at three bits of a lead from   *)
(* 240 on (rap_string.c:1168, 1201), so AsRead takes what it is given for  *)
(* the bytes of UTF-8 with those bits.                                     *)
(***************************************************************************)
Bits(bytes) ==
  LET low == [i \in 2 .. Len(bytes) |-> bytes[i] % 64]
  IN  CASE Len(bytes) = 1 -> bytes[1]
        [] Len(bytes) = 2 -> (64 * (bytes[1] % 32)) + low[2]
        [] Len(bytes) = 3 -> 64 * (64 * (bytes[1] % 16) + low[2]) + low[3]
        [] Len(bytes) = 4 -> 64 * (64 * (64 * (bytes[1] % 8) + low[2]) + low[3]) + low[4]

Form(u) ==
  LET low == [i \in 0 .. 2 |-> 128 + ((u \div 64 ^ i) % 64)]
  IN  CASE u < 128 -> <<u>>
        [] u \in 128 .. 2047 -> <<192 + u \div 64, low[0]>>
        [] u \in 2048 .. 65535 -> <<224 + u \div 4096, low[1], low[0]>>
        [] OTHER -> <<240 + u \div 262144, low[2], low[1], low[0]>>

AsRead(bytes) ==
  [i \in DOMAIN bytes |->
     CASE i = 1 /\ bytes[1] >= 240 -> 240 + (bytes[1] % 8)
       [] i > 1 /\ bytes[i] >= 128 -> 128 + (bytes[i] % 64)
       [] OTHER -> bytes[i]]

Taken(bytes) == Valid(Bits(bytes)) /\ AsRead(bytes) = Form(Bits(bytes))

(***************************************************************************)
(* Exactly the bytes that are Taken are a character, and it is the one of  *)
(* their bits.  A text of them has as many characters as its length says   *)
(* and is copied whole characters at a time; one with anything else, or    *)
(* with a character that breaks off, has its bytes for a length and is     *)
(* copied up to there.                                                     *)
(***************************************************************************)
Utf8Exact ==
  call.fn = "utf8" =>
    LET pieces == call.pieces
        bad == {i \in DOMAIN pieces : ~Taken(pieces[i])}
        good == IF bad = {} THEN Len(pieces) ELSE Min(bad) - 1
    IN  /\ result.length = IF bad = {} THEN Len(pieces) ELSE Len(FlattenSeq(pieces))
        /\ IF Taken(pieces[1]) THEN result.first = Bits(pieces[1]) ELSE ~Valid(result.first)
        /\ result.copy = IF call.n = 0 THEN << >>
                         ELSE Append(FlattenSeq(SubSeq(pieces, 1, Min({good, call.n - 1}))), 0)
=============================================================================
