------------------------------ MODULE SourceParse ------------------------------
(***************************************************************************)
(* rap/compiler/rapc.c: a source file is loaded and searched with regular  *)
(* expressions, pass after pass: comments are removed, strings masked,     *)
(* then the package, the imports and the classes are taken out.            *)
(*                                                                         *)
(* A text is a sequence of symbols: "/*" and "*/", "//", quotes, a         *)
(* backslash, a newline, braces, a semicolon, "package" and "import" (the  *)
(* words with the space behind them), "class" (or deed), "x" for any other *)
(* character of a word, "wide" for a byte over 127, a space, and           *)
(* "underscore" and "dash", which mask a string.  A range [start, end)     *)
(* counts symbols from 0.                                                  *)
(*                                                                         *)
(* mem is the pool the arrays of ranges live in, a range to a cell, and    *)
(* last its first free cell.  The first block has Room cells, and cells    *)
(* are counted on behind it: an array that does not fit in it moves to     *)
(* another block, or to memory of its own, and lies in the cells from last *)
(* on that no array had.  One counter is enough: arrays are pushed one     *)
(* after the other, and each moves to at least twice Slots cells, so when  *)
(* one move does not fit in the first block no later one does, and no      *)
(* array pushed later ends where the block's free cells begin.             *)
(***************************************************************************)
EXTENDS Integers, SequencesExt

CONSTANTS
  Files,              \* the texts a file may hold
  Wide,               \* 2^16: filesize is an ushort
  Slots,              \* elements an array is created with
  Room                \* cells of the first block of the pool

ASSUME SlotsAssumption == Slots \in Nat \ {0} /\ Wide \in Nat \ {0}

VARIABLES
  pc,                 \* the pass
  src,                \* source_t without its arrays; a file is named by its text
  start,              \* where the pass goes on
  arrays, mem, last,  \* comments, strings and imports in the pool
  pushed,             \* every range in the order it was pushed, by what it is
  printed             \* what source_init prints

vars == <<pc, src, start, arrays, mem, last, pushed, printed>>

RangeOf(s, e) == [start |-> s, end |-> e]
Nothing == RangeOf(0, 0)

Init ==
  /\ pc = "load" /\ start = 0 /\ printed = << >>
  /\ \E file \in Files :
       src = [filename |-> file, data |-> << >>, content |-> << >>, filesize |-> 0,
              package |-> Nothing]
  /\ arrays = [name \in {"imports", "comments", "strings"} |->
                 [elts |-> 0, nelts |-> 0, nalloc |-> 0]]
  /\ mem = << >> /\ last = 0
  /\ pushed = [comments |-> << >>, strings |-> << >>, imports |-> << >>,
               declares |-> << >>, definitions |-> << >>, words |-> << >>]

-----------------------------------------------------------------------------
(***************************************************************************)
(* The patterns.  pcre_exec finds the leftmost match from a place on, and  *)
(* a match is decided by its first symbol: EndOf gives its end, 0 if the   *)
(* pattern does not match there.                                           *)
(***************************************************************************)
Closest(text, i, Stops(_)) ==
  LET ends == {j \in i + 1 .. Len(text) : Stops(j)} IN IF ends = {} THEN 0 ELSE Min(ends)

OneLine(text, i, j) == "newline" \notin {text[k] : k \in i .. j}

\* /\*(.|\n)*?\*/
CommentEnd(text, i) ==
  LET Stops(j) == text[j] = "*/" IN IF text[i] = "/*" THEN Closest(text, i, Stops) ELSE 0

\* ".*?" and '.*?'
QuotedEnd(text, i, quote) ==
  LET Stops(j) == text[j] = quote /\ OneLine(text, i, j)
  IN  IF text[i] = quote THEN Closest(text, i, Stops) ELSE 0

\* package .*; and import .*; reach to the last semicolon of the line
StatementEnd(text, i, word) ==
  LET ends == {j \in i + 1 .. Len(text) : text[j] = "semicolon" /\ OneLine(text, i, j)}
  IN  IF text[i] = word /\ ends # {} THEN Max(ends) ELSE 0

\* \b(class|deed)\b: what ends with a character of a word, and what begins with one
WordEnds == {"x", "underscore", "class"}
WordBegins == WordEnds \cup {"package", "import"}
InWord(text, i, word) == i \in DOMAIN text /\ text[i] \in word
ClassEnd(text, i) ==
  IF text[i] = "class" /\ ~InWord(text, i - 1, WordEnds) /\ ~InWord(text, i + 1, WordBegins)
  THEN i ELSE 0

\* \{(([^{}]*|(?R))*)\}
BacketEnd(text, i) ==
  LET depth[j \in i - 1 .. Len(text)] ==
        IF j = i - 1 THEN 0
        ELSE depth[j - 1] + (CASE text[j] = "lbrace" -> 1 [] text[j] = "rbrace" -> -1 [] OTHER -> 0)
      Stops(j) == depth[j] = 0
  IN  IF text[i] = "lbrace" THEN Closest(text, i, Stops) ELSE 0

NoMatch == RangeOf(-1, -1)

\* the set of its one result
PcreExec(EndOf(_, _), from) ==
  LET text == SubSeq(src.content, 1, src.filesize)
      found == {RangeOf(i - 1, EndOf(text, i)) :
                  i \in {j \in from + 1 .. Len(text) : EndOf(text, j) # 0}}
  IN  IF found = {} THEN {NoMatch}
      ELSE {match \in found : \A other \in found : match.start <= other.start}

DoubleQuoted(text, i) == QuotedEnd(text, i, "dquote")
SingleQuoted(text, i) == QuotedEnd(text, i, "squote")
PackageEnd(text, i) == StatementEnd(text, i, "package")
ImportEnd(text, i) == StatementEnd(text, i, "import")

-----------------------------------------------------------------------------
(***************************************************************************)
(* source_set_range, and source_replace_string, which masks what is        *)
(* between quotes and the quotes that a backslash precedes.                *)
(***************************************************************************)
\* Variant: what is taken out stays in the text.
NotSet(text, range) == text

SetRange(text, range) ==
  [i \in DOMAIN text |-> IF i \in range.start + 1 .. range.end THEN "space" ELSE text[i]]

\* Variant: a quote after a backslash closes the string.
ClosesAnyway(open, cur, before) == cur = open

Closes(open, cur, before) == cur = open /\ before # "backslash"

Quotes == {"dquote", "squote"}
Symbols == Quotes \cup {"/*", "*/", "//", "backslash", "newline", "lbrace", "rbrace",
                        "semicolon", "package", "import", "class", "x", "wide", "space", "underscore", "dash"}

ASSUME FilesAssumption == Files \subseteq Seq(Symbols)

\* the quote that is open after cur, by the one before
OpenAfter(cur, before) ==
  [open \in Quotes \cup {"none"} |->
     IF open = "none" THEN (IF cur \in Quotes THEN cur ELSE "none")
     ELSE IF Closes(open, cur, before) THEN "none" ELSE open]

ReplaceString(text, len) ==
  LET open[i \in 0 .. len] ==
        IF i = 0 THEN "none"
        ELSE OpenAfter(text[i], IF i = 1 THEN "space" ELSE text[i - 1])[open[i - 1]]
      Inside(i) == i <= len /\ open[i - 1] # "none" /\ open[i] # "none"
  IN  [i \in DOMAIN text |-> IF ~Inside(i) THEN text[i]
                             ELSE IF text[i] = open[i - 1] THEN "dash" ELSE "underscore"]

\* source_find_first_char_index: a char is signed, so a byte over 127 is below 32
FirstCharIndex(text, from, end) ==
  LET Shown(i) == text[i + 1] \notin {"space", "newline", "wide"}
      shown == {i \in from .. end - 1 : Shown(i)}
  IN  IF shown = {} THEN end ELSE Min(shown)

(***************************************************************************)
(* rap_array_push: an element at the end, after growing in place when the  *)
(* array is the last of the first block and a cell is left there, or       *)
(* moving to twice the room otherwise.                                     *)
(***************************************************************************)
Pool == [arrays |-> arrays, mem |-> mem, last |-> last]

Even(n) == n + (n % 2)      \* two ranges of 4 bytes to RAP_ALIGNMENT

\* Variant: an array grows in place wherever it is.
EndsThePoolAlways(p, a) == TRUE

EndsThePool(p, a) == a.elts + a.nalloc = p.last /\ p.last < Room

\* old, written over with new
Over(new, old) ==
  [c \in DOMAIN new \cup DOMAIN old |-> IF c \in DOMAIN new THEN new[c] ELSE old[c]]

Grown(p, name) ==
  LET a == p.arrays[name]
      to == Even(p.last)
      At(c) == IF c \in DOMAIN p.mem THEN p.mem[c] ELSE Nothing
  IN  IF a.nelts < a.nalloc THEN p
      ELSE IF EndsThePool(p, a)
      THEN [p EXCEPT !.arrays[name].nalloc = @ + 1, !.last = @ + 1]
      ELSE [arrays |-> [p.arrays EXCEPT ![name] =
                          [elts |-> to, nelts |-> a.nelts, nalloc |-> 2 * a.nalloc]],
            mem |-> Over([c \in to .. to + a.nalloc - 1 |-> At(a.elts + c - to)], p.mem),
            last |-> to + 2 * a.nalloc]

\* values: what the caller writes from the new element on
Push(p, name, values) ==
  LET g == Grown(p, name)
      cell == g.arrays[name].elts + g.arrays[name].nelts
  IN  [g EXCEPT !.arrays[name].nelts = @ + 1,
                !.mem = Over([c \in cell .. cell + Len(values) - 1 |-> values[c - cell + 1]], @)]

Pushes(name, values) ==
  LET p == Push(Pool, name, values)
  IN  arrays' = p.arrays /\ mem' = p.mem /\ last' = p.last

ArrayAt(cell) == [elts |-> cell, nelts |-> 0, nalloc |-> Slots]

\* the first array that moves does so in the first block, which it ends from then on
ASSUME RoomAssumption == Room \in Nat /\ 3 * Even(Slots) + 2 * Slots <= Room

-----------------------------------------------------------------------------
(***************************************************************************)
(* source_load and the arrays.  The program ends when there is no file.    *)
(***************************************************************************)
Load ==
  LET text == src.filename
  IN  /\ pc = "load" /\ pc' = "comments"
      /\ src' = [src EXCEPT !.data = text, !.content = text, !.filesize = Len(text) % Wide]
      /\ arrays' = [imports |-> ArrayAt(0), comments |-> ArrayAt(Even(Slots)),
                    strings |-> ArrayAt(2 * Even(Slots))]
      /\ last' = 2 * Even(Slots) + Slots
      /\ mem' = [c \in 0 .. 2 * Even(Slots) + Slots - 1 |-> Nothing]
      /\ UNCHANGED <<start, pushed, printed>>

NoFile ==
  /\ pc = "load" /\ pc' = "ended"
  /\ UNCHANGED <<src, start, arrays, mem, last, pushed, printed>>

Searching(pass) == pc = pass /\ start < src.filesize

(***************************************************************************)
(* A pass over all matches of a pattern: each is pushed and what Content   *)
(* makes of the text takes its place; then the next pass begins at from.   *)
(***************************************************************************)
FindAll(pass, match, array, kind, content) ==
  /\ Searching(pass) /\ match # NoMatch
  /\ Pushes(array, <<match>>)
  /\ pushed' = [pushed EXCEPT ![kind] = Append(@, match)]
  /\ src' = [src EXCEPT !.content = content]
  /\ start' = match.end
  /\ UNCHANGED <<pc, printed>>

GoOn(pass, match, next, from, content) ==
  /\ pc = pass /\ (start >= src.filesize \/ match = NoMatch)
  /\ pc' = next /\ start' = from /\ src' = [src EXCEPT !.content = content]
  /\ UNCHANGED <<arrays, mem, last, pushed, printed>>

Comments ==
  /\ pc = "comments"
  /\ \E match \in PcreExec(CommentEnd, start) :
      \/ FindAll("comments", match, "comments", "comments", SetRange(src.content, match))
      \/ GoOn("comments", match, "strings", 0, ReplaceString(src.content, src.filesize))

Strings ==
  /\ pc = "strings"
  /\ \E match \in PcreExec(DoubleQuoted, start) :
      \/ FindAll("strings", match, "strings", "strings", src.content)
      \/ GoOn("strings", match, "chars", 0, src.content)

Chars ==
  /\ pc = "chars"
  /\ \E match \in PcreExec(SingleQuoted, start) :
      \/ FindAll("chars", match, "strings", "strings", src.content)
      \/ GoOn("chars", match, "package", 0, src.content)

(***************************************************************************)
(* A second package ends the parse with 1, which source_init ignores.      *)
(***************************************************************************)
Package ==
  /\ pc = "package"
  /\ \E match \in PcreExec(PackageEnd, 0) :
       \/ /\ match = NoMatch /\ pc' = "imports"
          /\ UNCHANGED <<src, start>>
       \/ /\ match # NoMatch /\ pc' = "second"
          /\ src' = [src EXCEPT !.package = match, !.content = SetRange(@, match)]
          /\ start' = match.end
  /\ UNCHANGED <<arrays, mem, last, pushed, printed>>

SecondPackage ==
  /\ pc = "second"
  /\ pc' = IF NoMatch \notin PcreExec(PackageEnd, start) THEN "print" ELSE "imports"
  /\ UNCHANGED <<src, start, arrays, mem, last, pushed, printed>>

Imports ==
  /\ pc = "imports"
  /\ \E match \in PcreExec(ImportEnd, start) :
      \/ FindAll("imports", match, "imports", "imports", SetRange(src.content, match))
      \/ GoOn("imports", match, "classes", start, src.content)

(***************************************************************************)
(* A class is pushed on the imports: its header is the element, and its    *)
(* body lies in the next cell.                                             *)
(***************************************************************************)
\* Variant: a class without a body is looked for again.
AfterNoBodyAgain(match, body) == IF match = NoMatch THEN "print" ELSE "classes"

AfterNoBody(match, body) == "print"

PushClass(match, body) ==
  LET declare == RangeOf(FirstCharIndex(src.content, start, body.start), body.start - 1)
  IN  /\ Pushes("imports", <<declare, body>>)
      /\ pushed' = [pushed EXCEPT !.declares = Append(@, declare),
                                  !.definitions = Append(@, body),
                                  !.words = Append(@, match)]
      /\ src' = [src EXCEPT !.content = SetRange(@, RangeOf(start, body.end))]
      /\ start' = body.end

Classes ==
  /\ pc = "classes" /\ UNCHANGED printed
  /\ \/ /\ ~Searching("classes") /\ pc' = "print"
        /\ UNCHANGED <<src, start, arrays, mem, last, pushed>>
     \/ /\ Searching("classes")
        /\ \E match \in PcreExec(ClassEnd, start) :
           \E body \in IF match = NoMatch THEN {NoMatch} ELSE PcreExec(BacketEnd, match.end) :
             \/ body # NoMatch /\ PushClass(match, body) /\ UNCHANGED pc
             \/ /\ body = NoMatch /\ pc' = AfterNoBody(match, body)
                /\ UNCHANGED <<src, start, arrays, mem, last, pushed>>

(***************************************************************************)
(* source_init prints the comments and the strings from the original text. *)
(***************************************************************************)
Elts(name) == [i \in 1 .. arrays[name].nelts |-> mem[arrays[name].elts + i - 1]]

TextAt(range) == SubSeq(src.data, range.start + 1, range.end)

PrintRanges ==
  /\ pc = "print"
  /\ printed' = LET all == Elts("comments") \o Elts("strings")
                IN  [i \in DOMAIN all |-> TextAt(all[i])]
  /\ pc' = "ended"
  /\ UNCHANGED <<src, start, arrays, mem, last, pushed>>

Ended == pc = "ended" /\ UNCHANGED vars

Next ==
  \/ Load \/ NoFile \/ Comments \/ Strings \/ Chars \/ Package \/ SecondPackage
  \/ Imports \/ Classes \/ PrintRanges \/ Ended

Spec == Init /\ [][Next]_vars /\ WF_vars(Next)
-----------------------------------------------------------------------------
(***************************************************************************)
(* The whole text of the file read once from left to right, as a reader    *)
(* does: the mode before the next symbol, and the ranges of the comments,  *)
(* the strings and the characters that were closed.  clean: nothing that   *)
(* the passes see in another order, which is a comment mark between        *)
(* quotes, a backslash after a backslash, and a comment without its end.   *)
(***************************************************************************)
Marks == {"/*", "*/"}
Openers == Quotes \cup {"/*"}

Closing(l, c) ==
  \/ l.mode = "/*" /\ c = "*/"
  \/ l.mode \in Quotes /\ c = l.mode /\ l.before # "backslash"

Unclear(l, c) ==
  l.mode \in Quotes /\ (c \in Marks \/ (c = "backslash" /\ l.before = "backslash"))

Read(l, i, c) ==
  CASE l.mode = "code" /\ c \in Openers -> [l EXCEPT !.before = c, !.mode = c, !.from = i - 1]
    [] Closing(l, c) ->
         [l EXCEPT !.before = c, !.mode = "code",
                   !.found[l.mode] = Append(@, RangeOf(l.from, i))]
    [] Unclear(l, c) -> [l EXCEPT !.before = c, !.clean = FALSE]
    [] OTHER -> [l EXCEPT !.before = c]

Unread == [mode |-> "code", from |-> 0, before |-> "space",
           found |-> [mode \in Openers |-> << >>], clean |-> TRUE]

Reading[i \in 0 .. Len(src.data)] ==
  IF i = 0 THEN Unread ELSE Read(Reading[i - 1], i, src.data[i])

OnePass == Reading[Len(src.data)]

ReadsClean == OnePass.clean /\ OnePass.mode # "/*"

(***************************************************************************)
(* Of a longer file only Len % Wide characters are searched, so that       *)
(* nothing holds of the others: CommentsRemoved shows one.                 *)
(***************************************************************************)
Clean == ReadsClean /\ Len(src.data) < Wide

(***************************************************************************)
(* When the array of imports becomes full with a class in it, the body of  *)
(* that class lies in the first cell of the comments.                      *)
(***************************************************************************)
Strays ==
  /\ Len(pushed.imports) < Slots
  /\ Len(pushed.imports) + Len(pushed.declares) >= Slots

(***************************************************************************)
(* What is printed of a clean file of less than Wide characters are the    *)
(* comments, the strings and the characters of the text, each in the order *)
(* of the text, in spite of the passes that blank and mask it between      *)
(* finding one and the other.                                              *)
(***************************************************************************)
Texts(mode) ==
  LET found == OnePass.found[mode] IN [i \in DOMAIN found |-> TextAt(found[i])]

TextsAsOnePass ==
  pc = "ended" /\ Clean /\ ~Strays =>
    printed = Texts("/*") \o Texts("dquote") \o Texts("squote")

(***************************************************************************)
(* In a clean file of less than Wide characters no word in a comment or a  *)
(* string is taken for a package, an import or a class, nor a brace there  *)
(* for the beginning of its body.                                          *)
(***************************************************************************)
Taken ==
  ToSet(pushed.imports) \cup ToSet(pushed.words) \cup ToSet(pushed.definitions)
    \cup ({src.package} \ {Nothing})

KeywordsOutsideTexts == Clean => \A r \in Taken : Reading[r.start].mode = "code"

(***************************************************************************)
(* Comments are deleted ("/* 删除注释 */", rapc.c:242): after the parse    *)
(* there are spaces where the reader sees a comment.                       *)
(***************************************************************************)
CommentsRemoved ==
  pc = "ended" /\ ReadsClean =>
    \A r \in ToSet(OnePass.found["/*"]) : \A i \in r.start + 1 .. r.end : src.content[i] = "space"

(***************************************************************************)
(* The arrays hold what was pushed, however they grow in the pool: the     *)
(* imports and then the headers of the classes, which are pushed over the  *)
(* body of the class before, every string and every comment.  Only the     *)
(* first comment may be written over, by the body of a class that lies     *)
(* behind the imports; the last body stays there.                          *)
(***************************************************************************)
ArraysKeepRanges ==
  LET kept == IF Strays THEN 2 ELSE 1
      classes == pushed.definitions
  IN    /\ Elts("imports") = pushed.imports \o pushed.declares
        /\ Elts("strings") = pushed.strings
        /\ SubSeq(Elts("comments"), kept, Len(Elts("comments")))
             = SubSeq(pushed.comments, kept, Len(pushed.comments))
        /\ classes # << >> => mem[arrays.imports.elts + arrays.imports.nelts] = Last(classes)

(***************************************************************************)
(* Every pass comes to an end: each match ends after the place it was      *)
(* searched from, and a search that finds nothing ends its pass.           *)
(***************************************************************************)
ParseEnds == <>(pc = "ended")
=============================================================================
