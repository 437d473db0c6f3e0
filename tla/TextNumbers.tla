---------------------------- MODULE TextNumbers ----------------------------
(***************************************************************************)
(* Numbers to text and back in rap/compiler/rap_string.c: rap_vslprintf    *)
(* with rap_sprintf_num, rap_atoi, rap_atofp, rap_hextoi, rap_hex_dump.    *)
(* Text is a sequence of character codes.                                  *)
(*                                                                         *)
(* What is printed is 64 bits wide: four limbs of 16 bits, highest first.  *)
(* What is parsed is an int4 whose largest value is MaxInt, wrapping past  *)
(* it as the type does.                                                    *)
(***************************************************************************)
EXTENDS Integers, SequencesExt

CONSTANTS
  Limb,               \* 2^16
  MaxInt,             \* RAP_MAX_INT_T_VALUE
  PointerDigits       \* 2 * sizeof(void *)

(***************************************************************************)
(* A limb is even and has no more than five decimal digits.                *)
(***************************************************************************)
ASSUME LimbAssumption ==
  Limb \in Nat /\ 2 <= Limb /\ Limb <= 10 * 10 * 10 * 10 * 10 /\ Limb % 2 = 0

ASSUME NumbersAssumption ==
  MaxInt \in Nat /\ MaxInt >= 16 /\ MaxInt % 16 = 15 /\ PointerDigits \in Nat

Number64 == [1 .. 4 -> 0 .. Limb - 1]
Zero64 == <<0, 0, 0, 0>>

(***************************************************************************)
(* Unsigned 64 bit arithmetic with a small operand: the carries run up the *)
(* limbs, the remainders of a division run down.                           *)
(***************************************************************************)
TimesPlus(n, k, c) ==
  LET d == n[4] * k + c
      e == n[3] * k + d \div Limb
      f == n[2] * k + e \div Limb
      g == n[1] * k + f \div Limb
  IN  <<g % Limb, f % Limb, e % Limb, d % Limb>>

DivMod(n, k) ==
  LET e == (n[1] % k) * Limb + n[2]
      f == (e % k) * Limb + n[3]
      g == (f % k) * Limb + n[4]
  IN  [quotient |-> <<n[1] \div k, e \div k, f \div k, g \div k>>, remainder |-> g % k]

Quotient(n, k) == DivMod(n, k).quotient

Negative64(n) == n[1] >= Limb \div 2
Negated(n) == TimesPlus([i \in 1 .. 4 |-> Limb - 1 - n[i]], 1, 1)

Low32(n) == <<0, 0, n[3], n[4]>>
SignedLow32(n) == IF n[3] >= Limb \div 2 THEN <<Limb - 1, Limb - 1, n[3], n[4]>> ELSE Low32(n)

(***************************************************************************)
(* Putting text into a buffer with room for last characters.  rap_sprintf  *)
(* has no end, rap_snprintf and rap_slprintf give one.                     *)
(***************************************************************************)
Put(buf, last, text) == buf \o SubSeq(text, 1, Min({Len(text), last - Len(buf)}))

(***************************************************************************)
(* rap_sprintf_num: base 10, or 16 with small (1) or capital (2) letters,  *)
(* padded with zero on the left up to width.                               *)
(***************************************************************************)
DigitChar(d, hex) == IF d < 10 THEN 48 + d ELSE IF hex = 1 THEN 87 + d ELSE 55 + d

Digits(n, hex) ==
  LET digits[m \in Number64] ==
        LET d == DivMod(m, IF hex = 0 THEN 10 ELSE 16)
            high == IF d.quotient = Zero64 THEN << >> ELSE digits[d.quotient]
        IN  Append(high, DigitChar(d.remainder, hex))
  IN  digits[n]

Padding(zero, width, text) == [i \in 1 .. Max({0, width - Len(text)}) |-> zero]

\* Variant: the padding is not cut at the end of the buffer.
SprintfNumUncut(buf, last, n, zero, hex, width) ==
  LET text == Digits(n, hex)
  IN  IF Len(buf) < last THEN buf \o Padding(zero, width, text) \o text
      ELSE buf

SprintfNum(buf, last, n, zero, hex, width) ==
  LET text == Digits(n, hex)
  IN  Put(Put(buf, last, Padding(zero, width, text)), last, text)

(***************************************************************************)
(* rap_vslprintf.  An item of the format is a plain character or a         *)
(* directive: %, an optional 0, the width, the flags u m x X *, the digits *)
(* after the dot, the conversion, and the argument it takes.               *)
(***************************************************************************)
Hex(d) == IF d.conv = "p" \/ "X" \in d.flags THEN 2 ELSE IF "x" \in d.flags THEN 1 ELSE 0

MinusOne32 == <<0, 0, Limb - 1, Limb - 1>>

Signed(d) ==
  \/ d.conv = "T"
  \/ d.conv = "M" /\ Low32(d.arg) = MinusOne32
  \/ d.conv \notin {"M", "p"} /\ d.flags \cap {"u", "x", "X"} = {}

\* Variant: an int32_t is not extended with its sign.
Integer64Short(d) ==
  IF d.conv = "M" /\ Signed(d) THEN Negated(<<0, 0, 0, 1>>)
  ELSE IF d.conv \in {"M", "d", "D"} THEN Low32(d.arg) ELSE d.arg

Integer64(d) ==
  CASE d.conv = "M" /\ Signed(d) -> Negated(<<0, 0, 0, 1>>)
    [] d.conv = "M" /\ ~Signed(d) -> Low32(d.arg)
    [] d.conv \in {"d", "D"} -> IF Signed(d) THEN SignedLow32(d.arg) ELSE Low32(d.arg)
    [] OTHER -> d.arg

PrintedInteger(buf, last, d) ==
  LET minus == Signed(d) /\ Negative64(Integer64(d))
      zero == IF d.zero \/ d.conv = "p" THEN 48 ELSE 32
      width == IF d.conv = "p" THEN PointerDigits ELSE d.width
  IN  SprintfNum(IF minus THEN Append(buf, 45) ELSE buf, last,
                 IF minus THEN Negated(Integer64(d)) ELSE Integer64(d), zero, Hex(d), width)

(***************************************************************************)
(* %f.  The argument is a sign, a whole number and a fraction num / den,   *)
(* den a power of two as in a double.  scale is a uint4.                   *)
(***************************************************************************)
Scale(digits) ==
  LET scale[n \in 0 .. digits] ==
        IF n = 0 THEN <<0, 0, 0, 1>> ELSE Low32(TimesPlus(scale[n - 1], 10, 0))
  IN  scale[digits]

\* Variant: the fraction is cut, not rounded.
ScaledCut(f, scale) == Quotient(TimesPlus(scale, f.num, 0), f.den)

Scaled(f, scale) == Quotient(TimesPlus(scale, f.num, f.den \div 2), f.den)

PrintedFraction(buf, last, d) ==
  LET f == d.arg
      start == IF f.neg THEN Append(buf, 45) ELSE buf
      zero == IF d.zero THEN 48 ELSE 32
      scale == Scale(d.frac)
      carry == d.frac > 0 /\ Scaled(f, scale) = scale
      frac == IF carry THEN Zero64 ELSE Scaled(f, scale)
      whole == SprintfNum(start, last, TimesPlus(f.whole, 1, IF carry THEN 1 ELSE 0),
                          zero, 0, d.width)
  IN  IF d.frac = 0 THEN whole
      ELSE SprintfNum(Put(whole, last, <<46>>), last, frac, 48, 0, d.frac)

UpToNul(s) == IF 0 \in ToSet(s) THEN SubSeq(s, 1, SelectInSeq(s, LAMBDA c : c = 0) - 1) ELSE s

PrintedItem(buf, last, d) ==
  CASE d.conv \in {"T", "M", "d", "l", "D", "L", "p"} -> PrintedInteger(buf, last, d)
    [] d.conv = "f" -> PrintedFraction(buf, last, d)
    [] d.conv \in {"V", "v"} -> Put(buf, last, d.arg)
    [] d.conv = "s" ->
         IF "*" \in d.flags THEN Put(buf, last, SubSeq(d.arg, 1, d.len))
         ELSE Put(buf, last, UpToNul(d.arg))
    [] d.conv = "c" -> Append(buf, d.arg % 256)
    [] d.conv = "Z" -> Append(buf, 0)
    [] OTHER -> Append(buf, d.char)

Vslprintf(buf, last, fmt) ==
  LET printed[n \in 0 .. Len(fmt)] ==
        IF n = 0 THEN buf
        ELSE IF Len(printed[n - 1]) >= last THEN printed[n - 1]
        ELSE PrintedItem(printed[n - 1], last, fmt[n])
  IN  printed[Len(fmt)]

-----------------------------------------------------------------------------
(***************************************************************************)
(* Parsing.  RAP_ERROR is -1, and value overflows as a signed int would.   *)
(***************************************************************************)
ERROR == -1

Int4(v) == ((v + MaxInt + 1) % (2 * (MaxInt + 1))) - (MaxInt + 1)

IsDigit(c) == c \in 48 .. 57

\* Variant: the last digit is not looked at.
TooLargeLax(value, c) == value > MaxInt \div 10

TooLarge(value, c) ==
  value >= MaxInt \div 10 /\ (value > MaxInt \div 10 \/ c - 48 > MaxInt % 10)

AtoI(line) ==
  LET Step(value, c) ==
        IF value = ERROR \/ ~IsDigit(c) \/ TooLarge(value, c) THEN ERROR
        ELSE Int4(value * 10 + (c - 48))
      read[n \in 0 .. Len(line)] == IF n = 0 THEN 0 ELSE Step(read[n - 1], line[n])
  IN  IF line = << >> THEN ERROR ELSE read[Len(line)]

(***************************************************************************)
(* rap_atofp: point decimal places, rap_atofp("10.5", 4, 2) returns 1050.  *)
(***************************************************************************)
Shifted(value, point) ==
  LET Step(v) == IF v = ERROR \/ v > MaxInt \div 10 THEN ERROR ELSE Int4(v * 10)
      shifted[n \in 0 .. point] == IF n = 0 THEN value ELSE Step(shifted[n - 1])
  IN  shifted[point]

AtoFp(line, point) ==
  LET Failed(s) == [s EXCEPT !.value = ERROR]
      Step(s, c) ==
        IF s.value = ERROR \/ s.point = 0 THEN Failed(s)
        ELSE IF c = 46 THEN (IF s.dot = 1 THEN Failed(s) ELSE [s EXCEPT !.dot = 1])
        ELSE IF ~IsDigit(c) \/ TooLarge(s.value, c) THEN Failed(s)
        ELSE [s EXCEPT !.value = Int4(@ * 10 + (c - 48)), !.point = @ - s.dot]
      read[n \in 0 .. Len(line)] ==
        IF n = 0 THEN [value |-> 0, dot |-> 0, point |-> point] ELSE Step(read[n - 1], line[n])
      end == read[Len(line)]
  IN  IF line = << >> THEN ERROR ELSE Shifted(end.value, end.point)

HexDigit(c) ==
  CASE IsDigit(c) -> c - 48
    [] c \in 97 .. 102 -> c - 97 + 10
    [] c \in 65 .. 70 -> c - 65 + 10
    [] OTHER -> ERROR

HexToI(line) ==
  LET Step(value, c) ==
        IF value = ERROR \/ value > MaxInt \div 16 \/ HexDigit(c) = ERROR THEN ERROR
        ELSE Int4(value * 16 + HexDigit(c))
      read[n \in 0 .. Len(line)] == IF n = 0 THEN 0 ELSE Step(read[n - 1], line[n])
  IN  IF line = << >> THEN ERROR ELSE read[Len(line)]

HexDump(src) ==
  FlattenSeq([i \in DOMAIN src |-> <<DigitChar(src[i] \div 16, 1), DigitChar(src[i] % 16, 1)>>])
=============================================================================
