# Verification of rap-vscode

TLA+ models of the Rap extension for VS Code and of the C code of its future
compiler, checked with TLC on small instances and, where it says so, proved with
TLAPS for every value of the constants. Paths are relative to the repository.

## 1. The system and its parts

Two programs live in the repository and share nothing but the language.

**The extension** (`package.json`, `client/`, `server/`). An editor starts the
extension when a document of an activation language is open; the extension
starts a language client, and the client starts a language server in a process
of its own. The two exchange JSON-RPC messages over Node's IPC, in order in each
direction.

**The compiler** (`rap/compiler/`). A sequential C program: a memory pool, and in
pools arrays, hash tables, strings and trees, and a parser that finds the parts of
a source file with regular expressions. Nothing in it runs concurrently; its hazards
are sizes, aliasing, long sequences of calls, and allocations that fail half way.

| Component | State | Operations | Talks to |
|---|---|---|---|
| Language server, `server/src/server.ts` | capability flags, global settings, managed documents, cache of settings promises per document, suspended validations | handlers of initialize, initialized, open, change, close, configuration change; `getDocumentSettings`, `validateTextDocument`; completion | client, by messages |
| Extension and client, `client/src/extension.ts`, `package.json` | client started or running, documents announced to the server, diagnostics on display | `activate`, `deactivate`; what the client library does for them | editor, by calls; server, by messages |
| Memory pool, `rap_palloc.c/.h` | blocks with free offset and failure count, current block, large list, cleanup list | create, destroy, reset, palloc, pnalloc, pcalloc, pmemalign, pfree, cleanup_add, run_cleanup_file | malloc, files |
| Dynamic arrays, `rap_array.c/.h` | elements, count, room | create, init, push, push_n, destroy | pool: reads and writes the free offset of its first block |
| Hash tables, `rap_hash.c/.h` | bucket table; keys gathered before it is built, with their conflict tables | init, find, wildcard_init, find_wc_head, find_wc_tail, find_combined, keys_array_init, add_key | pool, arrays, strings |
| Red-black tree, `rap_rbtree.c/.h` | nodes, shared sentinel | insert, insert_value, insert_timer_value, delete, next, min | strings (string tree) |
| Strings, `rap_string.c/.h` | none | formatting, numbers, comparisons, base64, UTF-8, escaping, string tree, sort | tree |
| Source parser, `rapc.c`, `rapc.h`, `deed.h` | text, ranges of comments, strings, imports, package | load, init, parse | pool, arrays, pcre |
| Grammar, language configuration, Rap samples, editor tests | none | none | editor |

What makes each correct:

- **Session** (server and client together): the diagnostics on display are those of a
  text and a configuration the document really had; they never go back; they reach
  the current ones. The settings cache holds entries of open documents only and
  never a setting that stays stale. No suspended validation is forgotten.
- **Pool**: no byte is handed out twice or out of bounds; chunks and files are given
  back exactly once; blocks are not given up early.
- **Arrays**: an array is the sequence pushed on it, whatever else uses the pool.
- **Hash tables**: a lookup finds exactly what was added. **Tree**: ordered, balanced,
  the keys inserted and not deleted. **Strings**: a conversion agrees with what it is
  documented to compute. **Parser**: the ranges it reports are those of the text.

What is hard: the server suspends at an await and reads its documents again when it
resumes, while documents close and reopen and configurations change; registration
for configuration changes comes after the handshake; the pool steps over blocks,
rewinds on reset, takes records for its own lists from the memory it manages; arrays
rewind the pool's free offset; a red-black delete writes the shared sentinel; the
hash tables walk packed buckets. `hazards` in PROJECT.json gives them line by line.

## 2. Modules, and the order they were written in

1. `LspProtocol`, `LspServer`, `LspClient`, composed by `LspSession`, which implements
   `DiagnosticsContract`.
2. `PoolArena`, extended by `Pool`.
3. `RapArray`, on `PoolArena`, which implements `SequenceContract`.
4. `RBTree`, which implements `OrderedContract`.
5. `TextNumbers`, `TextCompare` and `TextEncodings`, the functions of the string library,
   called by `StringLib`.
6. `HashTable`, on `TextCompare` for the order of names, `HashNames` on it, and `HashLookup` on
   that.
7. `SourceParse`.

Proofs are in modules named `..._proofs`: of the session, the order of its messages and its
contract (`LspSession_proofs`), of the pool, of the arena
that pool and arrays share, of the arrays and what they hold (`RapArray_proofs`), of the
red-black tree (`RBTree_proofs`), of the arrays and the passes of the parser
(`SourceParse_proofs`), of the names in the hash tables (`HashNames_proofs`), and of the string
library (`StringLib_proofs`).
The plan is carried out; section 11 says what is left out and why.

## 3. The session

### Modules

| Module | Models | Correspondence |
|---|---|---|
| `LspProtocol` | the connection | `toServer`, `toClient` are the two FIFO channels; message types are those `server.ts` handles and sends |
| `LspServer` | `server/src/server.ts` | one action per handler; `documents` is the TextDocuments manager, `documentSettings` the Map of promises, `promises` every promise created, `validating` the calls of `validateTextDocument` suspended at line 141, `revalidate` the `forEach` of line 109 in progress |
| `LspClient` | `client/src/extension.ts`, `package.json`, and what the editor and the client library do for them | `Activate`, the handshake, announcing documents, answering requests, displaying diagnostics; the user opens, edits, closes, configures |
| `LspSession` | both, interleaved | `Next` is a step of either side or of the user; invariants and refinement |
| `DiagnosticsContract` | the promise of `README.md:9` | what the user sees, no server in it |
| `MCLspSession` | | instances |

The server is one thread. `Idle` says that a message is only read when no
continuation can run: promise continuations are microtasks and go first. A validation
is two steps: up to its await (`StartValidation`: the global settings, the cached
promise, or a new request cached at once) and after it (`Resume`), which reads the
text then. `Detach` keeps what JavaScript keeps: a run suspended while its document
closes holds the old text object.

Abstractions. A text is its version number and `Words` says how many problems a
version has; a configuration is its epoch and `Limit` says which limit it holds, or
that the section is missing. Published problems are counted, and the two sources of a
count (limit and words) are what `Diagnostics` computes. Two runs suspended on the same
promise for the same document publish the same thing twice, and are one element of
`validating`. The client answers configuration requests in order. `server.ts:89-91` also serves
clients without the capability to answer them: `Init` chooses the capability once, and such a
client is another one than this extension's and pushes its settings with each change, since
`extension.ts:42-45` does not ask the library to. Completion and the
handlers that only log change no state and are left out, as are the server's
disconnection, a crash of the server, and `deactivate`.

### Runs

| Run | What it checks | Bounds |
|---|---|---|
| `session` | `OnlySettingsOfOpenDocuments`, `NoLastingStaleSettings`, `EveryAwaitIsAnswered`, and that the session implements the contract with its liveness | one Rap and one text document, five user operations: enough to edit, close, reopen and edit again, or to change the configuration, with a request of each stage still in flight |
| `session_faults` | types, `NoLastingStaleSettings`, `EveryAwaitIsAnswered`, the safety half of the contract, and `ConfigurationChangeRecovers`, when requests fail or the section is missing | two Rap documents and a text document, two operations; failures before the first operation |
| `poisoned_settings` | expected violation of `EditsAreDiagnosed` | as above, one Rap document |
| `plain_text` | expected violation of `PlainTextIsServed` | as above |

Words and limits are chosen so that versions have more, fewer and no problems than the
limit allows, and the limit is zero, one and two at different epochs.

**Fairness.** Weak fairness of `ServerStep` and of `ClientStep`: each side runs an
event loop that does not stop while it has something to do, and each has one action
enabled at a time up to the order of independent work. Nothing is assumed of
the user, who may stop at any time.

**Findings.** `poisoned_settings`: a rejected request for settings stays cached
(`server.ts:116-124`), so a document whose first request failed is not diagnosed any
more, edit it or not, until it is closed or the configuration changes, although
`README.md:9` promises diagnostics on each file change. `plain_text`: the client
only selects `rap` documents (`extension.ts:41`) although the manifest activates for
plain text, `README.md:7` says that the server works for plain text files and
`diagnostics.test.ts` expects it.

## 4. The memory pool

`PoolArena` has the blocks and bump allocation: alignment, the search from the current
block (`Fitting`), taking (`Take`), a new block with the failure counts of those searched
(`Grow`). `Pool` has the calls: one action each, every malloc may fail. An address is a
block and an offset; malloc aligns blocks to 16 bytes, so offsets align as addresses do.
Sizes are scaled down: `MCPool` aligns to two units, has a header of six and blocks of ten,
so that three or four allocations fill several blocks and some starts need aligning; a block is given up at its second
failure (`FailLimit = 0`, the code has 4) and one record of the large list is searched
for reuse (`ScanLimit = 1`, the code has 5).
`regions` records what was handed out since the last reset, `heap` what malloc gave for
large allocations, `openFiles` the files registered.

The comparison of line 156 is unsigned: `Fits` makes a start beyond the end of the block
look like room without limit, as the code does, and `AllocationsInBounds` shows that this
never happens, because block sizes are multiples of the alignment
(`PoolSizeAssumption`: `rap_palloc.h:97-99` aligns the minimum, and the program creates
its pool with 1024, `rapc.c:441`).

Not in the model: the contents of memory, `rap_pool_delete_file`'s unlink (its close is
there), debugging builds. `rap_pcalloc` is `rap_palloc` and a memset. `rap_reset_pool` keeps the
cleanup list but frees the memory its records are in (lines 93-112): `exposed` remembers that, and
running handlers after it is not modelled, because nothing says what they hold then.

Run `pool`: four blocks, two chunks, one file, five live allocations, two handlers; TLC
visits every interleaving of calls, failing or not. Deadlock is off: a full pool may stop.
Seven properties: types, `AllocationsInBounds`, `AllocationsDisjoint`,
`LargeListExact` (the large list holds each chunk that malloc gave exactly once),
`FilesClosedOnce`, `RecordsIntact` (records the pool links are still allocated) and
`SkippedBlocksFailedOften`.

## 5. Dynamic arrays

`RapArray` puts arrays on `PoolArena` next to other allocations from the same pool.
`GrowsInPlace`, `Moved` and `Returned` are the three places where arrays look at the pool's
free offset. `memory` holds what each unit of a live array was given, so reading an array
back (`Items`) tells whether a copy, an overlap or a rewind lost something; the property
`KeepsItsElements` says that arrays so read implement `SequenceContract`. An allocation
larger than `PoolMax` takes a chunk of its own, whose record stays in the arena.

Run `array`: two arrays of at most four elements in two blocks, one chunk, two other
allocations; every order of growth, destruction and other allocation is reached,
including growth in place after a neighbour was given back.
`InUseIsReserved` speaks of holders, not of regions, so that two of them holding the very
same bytes are seen. `ArrayAssumption` excludes arrays created with room for nothing:
`rap_array_push` would double zero (line 85). No caller creates one. It also excludes
allocations of no bytes: one at the end of the free bytes could be rewound below.

## 6. The red-black tree

`RBTree` keeps the fields of the nodes as the code does: `t.kid`, `t.parent`, `t.red`, with one
shared sentinel whose parent a delete writes. `Insert` is `rap_rbtree_insert` with the descent of
the caller's kind of tree (`GoesLeft`: values, timers by the sign of a wrapping difference,
strings by hash, length and bytes), rotations and recolouring; `Delete` is `rap_rbtree_delete`
with its fixup; `walk` is what `rap_rbtree_min` and `rap_rbtree_next` meet after it. Mirror images in
the code are one operator with a side. Fields nobody may read (the colour of a node
outside, the parents of root and sentinel) are forgotten between operations; if an operation
followed a forgotten parent TLC would stop with an error, and it does not.

A loop of the code is `Loop(Done, Step, x)`, where `Step` is one turn (`Rebalance` of an insert,
`FixUp` of a delete), at most `Most` turns: more than twice the number of nodes. No loop on a
tree needs as many, which is part of what section 10 proves for inserts and deletes.

Run `rbtree`: eight nodes, four callers (distinct keys, duplicates, timers around the wrap of
a 4 bit clock, strings that share hashes and lengths), every order of inserting and
deleting. Deleting needs up to eight nodes before every case of the fixup, both sides, occurs.
A caller has a `rank` for each node: what its key stands for (the number itself, the time of which a timer's
key is the low bits, the place of a string), with `CallerAssumption` saying so. `OrderedContract`
knows ranks only, so `KeepsOrder` does not repeat the comparisons of the code. An insert of a
timer asks for keys less than half their range apart (`SmallRange`), or the sign of a difference is
no order at all.
`LinksAgree` (each node is held once, by its parent), `RedBlack`, `LookupFinds`
(`rap_str_rbtree_lookup` finds what is there) and `KeepsOrder`, the refinement: the tree is a sorted
sequence in which equal keys keep the order they were inserted in. `SmallRange` restricts timers to what the comment at `rap_rbtree.c:128` says of them.

## 7. The string library

Functions without state are operators, and `StringLib` is a program that calls one at a time on
inputs at its edges. `TextNumbers` has `rap_vslprintf`, `rap_sprintf_num` and the parsers: 64 bit numbers
are four limbs below `Limb`, 2^16, since TLC's integers have 32 bits, and a double is a whole part and a binary
fraction. `TextCompare` has comparisons, searches, copying and `rap_sort`; `TextEncodings` base64, UTF-8
and escaping.

| Property | What the results promise |
|---|---|
| `NeverPastTheEnd` | printing stays in its room and is cut, not changed, by it; 20 bytes hold any integer |
| `IntegersReadBack` | an integer of any type, width and base reads back as the number given, with its sign |
| `FractionsReadBack` | a `%f` reads back rounded to its places, or cut when it has none |
| `ParsesExactly` | a parser returns the number an `int4` holds, and `RAP_ERROR` for every other text |
| `OrdersConsistently` | comparisons are orders; `rap_dns_strcmp` keeps names with equal first labels together |
| `FindsFirst` | a search gives the first place within its length |
| `SortsStably` | `rap_sort` orders, and keeps equal elements in their order |
| `ComesBack` | base64, URI, HTML and JSON text is understood as what was encoded |
| `RoomIsEnough` | the counting passes return what the writing passes write |
| `Utf8Exact` | exactly the bytes the decoder takes for a character are one, with the value of their bits; lengths and copies of a text agree with it |

`rap_dns_strcmp` takes a dot for a blank (line 802), so of words with blanks it is no order: `dns` in
`OrdersConsistently`, and `SortsStably`, whose names it sorts, are about words of characters above the blank
(`AboveBlank`). The run has a word with a blank, to which the rest of `OrdersConsistently` applies.

Inputs (`MCStringLib`): limits of the integer types, fractions that carry into the whole part, texts
around the largest `int4` (scaled to 127), names of dots, hyphens and capitals, payloads of up
to three of twelve bytes that the escapes treat differently, and the first and last character of each
length in UTF-8 with malformed neighbours: longer forms than needed, surrogates, leads of 0xF8 and above, following
bytes below 0x80 and above 0xBF, and characters that break off at the end of the text (`MCCuts`).

`Utf8Exact` says what `rap_utf8_decode` promises, which is less than UTF-8. `Taken` gives the bytes it takes in terms of
a character's value (`Bits`) and of the form that is the shortest for it (`Form`), after what the decoder does not look at was
set as the form has it (`AsRead`): the upper two bits of a following byte of 0x80 and above, and the lower bits of a lead
from 0xF0 on. A reader of the comment at `rap_string.c:1155-1156`, which tells valid characters from invalid
sequences, would expect less: `<<195, 192>>`, the surrogates and leads from 0xF8 on decode to characters.

**Findings.** `long_fractions`: the comment at `rap_string.c:99` documents `%f` up to fifteen places; the
scale is computed in 32 bits and wraps from ten places on. Also met while modelling, and modelled as the
code is: `%O %z %i %A %P %r %N` of the comment are not implemented (the default branch prints the
character); `%f` without places cuts instead of rounding; the bit map of args holds a semicolon its comment
does not list, and that of refresh lacks the percent sign its comment lists (`rap_string.c:1378`), so such a text with a
percent sign does not come back; `rap_strcasestrn` never finds a word whose first byte is
above 127, because it compares a signed char.

Left out: `rap_pstrdup`, `rap_strlchr`, `explicit_memzero` and the macros that are libc calls, a format that
ends in a lone percent sign. The string tree is in `RBTree`.

## 8. The hash tables

`HashTable` is `rap_hash_init` (the search for a number of buckets, the room of each),
`rap_hash_wildcard_init` (a table per label, values tagged in their low bits): `Openers` says which
name of the outer loop takes a name, `Heads` are the names that get an entry, `NextNames` those that make
up the table below one, and `WildcardInit` nests the tables. `HashNames` is the table of names around it: `AddKey` is `rap_hash_add_key` with
its refusals, on exact names, `.x`, `*.x` and `x.*`; `Build` is a caller that sorts the wildcards
with `rap_dns_strcmp` and builds the three tables, which may fail. The hash is the code's, a
polynomial modulo `KeyRange`. The buckets of the conflict tables are left out: equal names share one.
`HashLookup` adds the four `rap_hash_find` functions, which change nothing.

Run `names`: four calls over thirteen keys of up to three labels, and three shapes of tables, one of
which no number of buckets fits (line 322) and one that starts its search near the end.
`LookupMatches` compares `rap_hash_find_combined` on eleven names with a definition of what the accepted
calls mean (the exact name, else the longest wildcard, in that order); `BucketsHoldTheirNames` gives
every bucket room for its names and its terminator and every label one entry, in tables nested up to
`MaxDepth` (four here, deeper than names of three labels go); `RefusedForAReason`
allows two accepted keys no name in common, and refuses a key only for an earlier one. A key `.x`
after `*.x` is refused but keeps the exact name x (line 957): the property says so. Deadlock is off:
the calls are bounded.

A key whose last character is a dot may be refused or not (`MayBeTwoDots`): the search for two dots reads one
character behind it (line 750), which is whatever the caller has there.

`KeysAssumption` says what callers give. Keys are characters. An exact key has no NUL, where the comparison with
the names before it would stop (`rap_strncmp`, line 806); among wildcards one is refused. A key with `RAP_HASH_READONLY_KEY` has no
capitals: it is not lowered before it is compared, but laid out in lower case. A key that may be a
wildcard has no blanks and no control characters: `rap_dns_strcmp` makes the dot the lowest character
by taking a blank for it (`rap_string.c:802-805`), so a label with a lower character, or a blank, would sort
between a label and the names below it, and the label would get two entries, one of which is never found.

Left out: allocations that fail between the steps of `rap_hash_add_key` (it returns `RAP_ERROR`, and a caller
gives up), `rap_hash_key_lc`, which nothing calls, names whose value is NULL,
`f` of `rapc.c`, which only exercises the functions. `bucket_size` under 24 bytes divides by zero
when there are no names; with names it is refused first, and only tables with names are built. `rap_sort` returns
silently without memory, and wildcards that are then unsorted build tables that lose names; the model
sorts.

## 9. The source parser

`SourceParse` is `main`, `source_init`, `source_load` and `source_parse` of `rapc.c`. A text is a sequence of
symbols, where a symbol is a comment mark, a quote, a keyword, a brace or one character of another kind; `//` is
a symbol, and to the parser no more than two characters. Each of the
patterns is an operator that says where its match ends; `PcreExec` is `pcre_exec`, the leftmost match from a
place on. Each pass (`Comments`, `Strings`, `Chars`, `Package`, `Imports`, `Classes`) is an action, a step per
match, which pushes a range and blanks or masks the text as the code does. The arrays of ranges lie in the
cells of a pool, where they grow as in `rap_array_push`: they are three neighbours, of which only
the last can grow in place, and only while the first block (line 441: 1024 bytes, 240 ranges; `Room`) has a cell
left. Cells are counted on behind that block for arrays that moved out of it; the head of the module says
why one counter is enough. A class is pushed on the imports (line 339), whose elements are ranges, so its body is
written to the cell behind its element; what lies behind the end of a block is a cell like another one, so the
model does not say what a body written there damages.

Both runs have texts of up to three of 26 parts, and longer ones: texts that make the arrays move next to each
other and out of the first block, and texts longer than `filesize` counts. Arrays start with two elements (the code: 8), the
first block has ten cells, and the size of a file counts modulo 32 (`Wide`, 2^16).

| Run | What it checks |
|---|---|
| `source_parse` | the four properties below |
| `long_source` | expected violation of `CommentsRemoved` |

- `TextsAsOnePass`: what is printed is what a single reading from left to right finds, although comments are
  removed before strings are masked. `Reading` is that reading, a recursive function over the places of the
  whole original text (`src.data`) that knows at each what is open (`Read` is one symbol of it), and takes nothing from the
  passes. The property does not hold, and is not claimed, for three kinds of files. In some the passes
  see another order than a reader (`ReadsClean`): a comment mark in a string, a backslash that is itself escaped, a comment that
  is not closed. Files of `Wide` characters and more are not searched to their end (`Clean` excludes them; see
  `long_source`). And the first comment is lost when the body of a class lies in its cell (`Strays`).
- `KeywordsOutsideTexts`: in such a file, no package, import, word `class` or brace that begins a body is found in
  a comment or a string. `pushed.words` records where the words of the classes stood.
- `ArraysKeepRanges`: the arrays read back as what was pushed, whatever grew beside them, and exactly
  which cells the bodies of classes overwrite. That a body is lost to the next header is what the code does; no
  document says what should become of it.
- `ParseEnds`: the parse ends, under weak fairness of `Next`: it is one sequential program.

**Finding.** `long_source`: `source_load` keeps the length of a file in an `ushort` (line 372), so of a file of
65536 characters or more, the passes search and change only as many characters as are left of it modulo 65536.
A comment behind them is not removed, although line 242 says that comments are. Also met: the parser's only pattern for comments is that of block
comments (line 154), while `language-configuration.json:4` gives `//` as the line comment of the language. A class, an
import or a package behind it is taken for code, and so the properties take it: `Reading` opens nothing at a `//`.

Left out: the limits of pcre's matching, a pool without memory, the buffer `printRange` copies to, the tables of words and
the types nothing uses yet, and `source_load` on files that cannot be read once opened.

## 10. Proofs

`LspSession_proofs`, for any documents, texts, limits, languages and bound of operations:

- `SettingsInvariant`: `Spec => []SettingsInv`, the inductive invariant.
- `TypeCorrectness`: `Spec => []TypeOK`.
- `SettingsCacheCoherence`: `Spec => []OnlySettingsOfOpenDocuments`.

Coherence is not inductive alone. A configuration change starts a validation for each
managed document, one turn at a time, and each turn may cache a promise: so
`SettingsInv` adds that `revalidate` only holds managed documents. A suspended run that
is still `Live` reads the manager's text, so it adds that the document of such a run is
managed, or publishing would not have the type of a message. Versions and epochs stay within
the bounds because they are never ahead of `operations`. The proof has one lemma per side
(`ServerKeepsInv`, `ClientKeepsInv`, `UserKeepsInv`), one step per action, and lemmas for the
fields of messages and for the three ways a validation starts. Assumptions used:
`BoundAssumption`, `WordsAssumption`, `LimitAssumption`, `DefaultAssumption`, `ClosedAssumption`.

The second half of the module is about what the order of the messages guarantees:

- `AwaitsAnswered`: `Spec => []EveryAwaitIsAnswered`. Its invariant, `PromisesAnswered`, speaks
  of every promise, awaited or not: it is settled, or its request is in `toClient`, or the
  answer in `toServer`. Nothing else can become of a request, because the server never
  removes one and the client answers each exactly once.
- `NoStaleSettingsLast`: `Spec => []NoLastingStaleSettings`, from `OrderInv`, which has four parts.
  `HandshakeInv`: the capability `initialize` announces is the one the server knows.
  `RegistrationInv`: the server registers before it knows of any document, so in the
  first-in-first-out channel the registration precedes every request of settings, and the
  client that answers one notifies changes. `PushInv`: without the capability nothing is
  requested and every change reaches the server. `StaleInv`: an outdated answer in `toServer` is followed by
  the notification of a change, and an outdated setting in the cache by one still to be
  read, which clears the cache.

The last part of the module shows that a session implements the safety half of its contract:

- `ContractInvariant`: `Spec => []ContractInv`, and from it
- `DiagnosticsInOrder`: `Spec => DiagnosticsMoveForward`, that is `Contract!Safety`: every step of
  the session is a step of the contract under the mapping of `LspSession`, or leaves what the
  user sees alone.

What has to be shown is that a run of `validateTextDocument` that resumes late does not
publish an older text or configuration over a newer one. `ContractInv` has six parts.
`PublishedInv`: what is on its way to the display comes after what is shown, and its count is
the one of its text and limit. `TextInv`: texts reach the server in order, and no
suspended run is ahead of the manager. `RunsInv`: of two runs of a document that a close
detached, the one that waits for the later promise holds the later text, and a run still
attached waits for the latest. `PromiseInv`: promises are settled in the order they were made, from
configurations that do not go back. `EpochInv`: no setting the server can still use is older
than one shown. `LimitInv`: a limit in use is the one of the configuration it names. So a run
that goes on (`ResumesInOrder`) has waited for an earlier promise than every run of its
document that still waits, and holds no later text. That a promise not settled is still
carried by a channel, behind the settled ones, is `PromisesInvariant`; that the server's idea of the
capability is the client's, `OrderInvariant`. Starting a validation is
split from its callers by `Starts` (what they guarantee) and `Started` (what it does).
Assumptions used besides those above: `NoneAssumption`, that no diagnostics are displayed is
not a list of diagnostics.

The channel lemmas (`SentFacts`, `ReadFacts`, and a pair `...Sent`, `...Read` for each predicate of a
channel) say what sending and reading one message do to it; the steps of the proofs cite
them instead of the definition of a sequence.

`Pool_proofs`, for any sizes, alignment, limits, chunks, files and bounds:

- `PoolInvariant`: `Spec => []PoolInv`, and from it `PoolTypeCorrectness`,
  `PoolAllocatesInBounds` and `PoolAllocatesDisjoint`.
- `LargeListAccount`, `FilesAreClosedOnce`, `RecordsStayAllocated`,
  `SkippedBlocksAreFull`: the other invariants of the run, each by its own induction with
  `PoolInvariant` at hand.

`AlignUpBounds` is the arithmetic: aligning up an offset stays within any aligned bound,
so a start never passes the end of a block. `TakeReserves` and `GrowReserves` say what an
allocation owes its caller (`Reserves`): memory behind the header and behind everything
handed out of that block, in an arena whose free offsets only grow. `SmallReserves` joins
them and `RegionAdded` turns them into the invariant for one more region; `CleanupAdd`, which
allocates twice, uses it twice. Before the pool is created nothing is handed out
(`NothingYet`), or a new arena would lie under it. `SkippedBlocksAreFull` needs both halves of
its property: failure counts fall along the list, so what is skipped with the last
skipped block had failed as often. Assumptions used: `AlignAssumption`,
`PoolSizeAssumption`, `LimitsAssumption`, `CallAssumption`.

`RapArray_proofs`, for any arrays, sizes and pool:

- `ArrayInvariant`: `Spec => []ArrayInv`, and from it `ArrayTypeCorrectness` and
  `ArrayMemoryReserved`.

`PoolArena_proofs` holds what both sets of proofs use of an allocation, up to
`SmallReserves`. `ArrayInv` adds to the two properties that no region held is empty and that
the arena is well formed; with that, whoever ends where the free bytes of the first block
begin is its last holder, so an array may grow there (`GrownInPlace`) and what it gives back
lies above everything else in the block (`GivenBack`, cited twice by `ArrayDestroyKeeps`:
the elements, then the structure). Holders are the elements of a function from names to
regions; `SmallAdds`, `ChunkAdds` and `PallocAdds` extend it by one holder, and `Replaced`
recognises the holders of the next state in the result. Assumptions used: those of
`PoolArena`, `ArrayAssumption`, `AbsentAssumption`.

The second half of the module builds on it:

- `ContentsInvariant`: `Spec => []ContentsInv`, and `ArraysKeepTheirElements`:
  `Spec => KeepsItsElements`, the refinement of `SequenceContract`.

`ContentsInv` adds to `ArrayInv` that every unit of the i-th element of a live array is in
memory with the value i. Every write is to the units of one region (`CopiedKeeps`,
`WrittenKeeps`, `ForgottenKeeps`), and `ArrayInv`, in the state before the step for what is
given back and in the state after it for what is obtained, keeps that region apart from the
elements of the other arrays (`ElementsApart`, `HoldsOutside`). The array that grows keeps
its elements because a move copies at least the elements it holds (`CopiedCarries`: the
doubling push copies `nalloc` of them when `nelts = nalloc`, push_n copies `nelts`). Read
back, the arrays are then `Counted(arrays)`, so that each action is a step of the contract
or leaves it unchanged (`StepRefines`). `AbsentAssumption` also says that the absent array
is no sequence.

`SourceParse_proofs`, for any files, any first size of the arrays, any room of the first block and any width of a length:

- `RangesAreKept`: `Spec => []ArraysKeepRanges`.

Its invariant, `ParseInv`, says that nothing was loaded yet (`Unloaded`) or four things. `Laid`:
the rooms of the three arrays lie apart among the cells, none beyond the last in use; the imports
are the first of them with their first room (`AtHome`), or they have moved to the end and
everything else lies in front. `Filled`: the cells of each array hold what was pushed on it, of
the comments from the second on where `Strays` holds, and the cell behind the imports the body of
the last class. `PushedType` and `Passes`: what is pushed are sequences, and before the pass
for imports there are no imports, before that for classes no bodies. `PushedAs` says what
one push does wherever its array lies, in place, moved, or grown at the end; `PushStep` that it
keeps `Laid` and `Filled`; `FindAllStep` and `PushClassStep` are the two ways a pass pushes. A class
writes two cells although it takes one: its second is inside the room of the imports, behind the
cells in use, or where the comments begin while the imports are at home and full, which is
`Strays`. What the patterns match is not used, so the result holds whatever pcre finds.
Assumption used: `SlotsAssumption`.

The second half is about what the passes find:

- `KeywordsStayOutside`: `Spec => []KeywordsOutsideTexts`.
- `PassesReadAsOne`: `Spec => []TextsAsOnePass`.

Both are about clean files shorter than `Wide`, the width of a length, and about the reading of their whole text; the
second is also conditional on `~Strays`. Both follow from `TextInv`, which says where each pass stands in terms of a reading of the original
text. In the comments (`AtComments`), `start` lies in code, the comments the reading found up to it are
those pushed, and the text is the original with these, and nothing else, blank (`Blanked`).
In the strings (`AtStrings`) the text is `Masked`: between quotes there is nothing but dashes
and underscores, elsewhere nothing changed. From then on (`AfterStrings`) the words and braces
the last passes look for are in code (`CodeOnly`), which taking out a range keeps, and what was taken begins
in code (`PlacesInCode`). The properties need this: they relate a text that
was changed in up to six passes to one that was never changed.

The step of a pass takes two facts. What pcre finds is the first place where the pattern matches
(`FirstFacts`, and a lemma per pattern on where its match ends). What a reader meets next is
that match: a comment, in a text blank up to `start` (`NextComment`; in a clean text no mark
stands between quotes, so the pattern, which knows no quotes, skips none and invents none); a string or
a character, in a masked text (`NextQuoted`; the quotes and the newlines in it are masked, so the pattern,
which stays in a line and knows no backslash, ends where the reader does). That `source_replace_string` masks what a
reader finds between quotes is `OpenAsRead`: with the comments blank, the one quote it remembers is what the reader
has open. Where a pass ends, no match is left and the reading finds no more (`NoCommentBefore`, `NoQuotedLeft`).

The texts are of any length, so these facts need inductions over places. The induction theorems of the library
cannot be used, but a set of numbers has a least one (`LeastElement`, from the well-founded order of the
naturals), and so a property of places, as a set, that goes on from each to the next holds up to the end (`GoesOn`).
`Recursion` gives the functions `Reading` and `ReplaceString` are defined as. `Trace` then says
what a reading does symbol by symbol, without its records, and all lemmas are about a trace. Assumptions used:
`SlotsAssumption`, and `FilesAssumption`, that files hold symbols; what is assumed of `Room` is not needed.

`HashNames_proofs`, for any keys, any sizes of the tables and of a bucket, any number of calls:

- `KeysAreRefusedForAReason`: `Spec => []RefusedForAReason`.
- `BucketsHoldAlways`: `Spec => []BucketsHoldTheirNames`, to any depth of nested tables.

The first is inductive with `KnownBy`: everything the three conflict tables hold (`Known`) was offered by a
call before, and they hold everything that was accepted. So a key is refused for an earlier one, and of
two that were accepted the later one was compared with what the earlier one left.

The second rests on sorting. `BucketsHoldTheirNames` wants one entry for a label, and
`rap_hash_wildcard_init` looks for the names of a label only among those that follow, so names with the same
first label must lie together. `W` weighs the characters as `rap_dns_strcmp` does; `DnsOrder` shows
that what it computes is the lexical order of the weights, `OrderTotal` and `OrderTransitive` that this is an
order, and `SortedOrdered`, from `Inserted`, that `rap_sort` leaves the names in it. Between two names that begin with a
label lie only names that do (`Between`, `BetweenFollows`: here the dot has to be the lowest character), so
no label opens two groups (`HeadsApart`). The rests behind a label are in order again (`RestOrdered`,
`NextOrdered`), so that the same holds a table deeper.

The tables are nested as deep as the names have labels, and are defined level by level over the parts
of the list of names. `NextDown` gives the measure: a level deeper, the names are fewer or shorter. With it
`SolvesExists` and `SolvesOnce` show that the definition has one solution, and `WildcardFacts` gives it
back as the equation that `rap_hash_wildcard_init` is in the code. `HashInitHolds` is one table: names that
differ are laid out in buckets with room for them and for the NULL at the end. `WildHolds` and `NestsSound`
carry it down the nested ones. What is left is what is put on the lists: `ListsHold` keeps exact
names apart and wildcards within the characters of `KeysAssumption`, through `Converted`, which turns the labels
around (`ConvertedFacts`). That a name has a single entry needs both parts of `KeysAssumption`. Assumptions
used besides: `HinitsAssumption`, `TableAssumption`.

`RBTree_proofs`, for any nodes, whatever orders them:

- `TreeInvariant`: `Spec => []TreeInv`, and from it
- `LinksStayAgreed`: `Spec => []LinksAgree`, and `StaysRedBlack`: `Spec => []RedBlack`.

`TreeInv` says `Sound(t, live)`: the links agree (`Linked`), some number falls with every step
down (`Falls`), no red node has a red child, the root is black, and some function `h` is the black
height of every node (`Level`). The two functions are what makes the argument local: a
rotation (`RotatedAs`, `TurnedKeepsLinks`, `TurnedBalances`) or a stroke of paint changes them at
two or three nodes, and nothing has to be said of subtrees or paths.

Inside an operation the tree is almost sound. In the loop of an insert it is `Risen`: but for the
red node x, whose parent may be red. One turn (`RebalanceRises`) ends the loop or moves x to
where `h` is higher by one. In the fixup of a delete it is `Short`: the paths through x are a
black short, and `FixUpAdvances` says that one turn ends the loop or moves x to where `h` is higher.
As `h` falls by one at most from a node to its child (`Steps`), it is no more than the number of nodes
(`HeightBound`), so the loops end before `Most` turns (`LoopRuns`, `RebalancedSound`,
`FixedUpSound`). The loops down the tree end because a balanced tree is not deep (`SoundFalls`,
`LoopDown`). A node with two children is replaced by the least above it: cutting that one off
leaves a tree of the others (`CutKeeps`), and putting it in the place of the node is a renaming of
that tree (`TakesPlaceRenames`, `RenamedKeeps`), which needs no second look at colours or heights.
`HeightIs` connects the recursive function of the property with `h`. Assumption used:
`TreeAssumption`, of which only the nodes, not the keys.

The second half of the proof is about the order:

- `TreeKeepsOrder`: `Spec => KeepsOrder`, the refinement of `OrderedContract`.
- `TreeLooksUp`: `Spec => []LookupFinds`.

The invariant is `OrderInv`: besides `TreeInv`, the nodes of the tree have numbers from one up, from left to right,
the walk lists them by these numbers, and their ranks do not fall (`InRanks`). An order of a tree is a
property of its subtrees, and subtrees are what the prover cannot recurse over; so a numbering comes with
two functions more, the edges between which the numbers below a node lie, each node splitting
the interval of its own edges for its children. That is again local: a rotation
or a stroke of paint keeps it, the descent of an insert ends at a leaf whose edges leave room for
one number (those behind it move up by one), the least node of the right subtree has the
next number (`LeastFollows`), so putting it where a deleted node was is a renaming again, and
`SuccessorIs` shows that `rap_rbtree_next`, up or down, goes to the next number, which makes
`walk` the list of the nodes by number. `GoesLeftIs` is where the
three comparisons come in: each goes left exactly of the nodes of a greater rank, for timers
by the division theorem (`Remainder`, `Division`) and `SmallRange`. Lookup (`OrderLooksUp`): at each turn
every node with the string lies between the edges of the place the descent has come to, so at a leaf
there are none. Assumptions used besides: `CallerAssumption` and the half of `TreeAssumption` about keys.

`StringLib_proofs`, for texts of any length and any choice of what is compared, searched, sorted, escaped and
parsed. The states of `StringLib` hold one call and its result, so a theorem is about what the operators
compute, for every argument:

- `SearchesFindTheFirst`: `Spec => []FindsFirst`. The searches are defined by the places where they look and
  how they compare there; each is shown to stop at the least place where the word stands, also where
  `rap_strnstr` cuts the text by its limit.
- `ComparisonsAreOrders`: `Spec => []OrdersConsistently`. A function that compares character by
  character up to the end of both words is the lexical order of a rank (`Rank`: one per function, the end of a
  word below every character, then the dot of a name or the slash of a path). `Below` is transitive, and two
  words are equal, or one is below the other. That no name comes between two of one first label is read off the ranks:
  behind the label both have one of the two lowest (`LabelFacts`).
- `SortIsStable`: `Spec => []SortsStably`. The insertion sort is a run over the elements; what is sorted so far
  is in order and holds the elements met so far, those of the same rank by their place in the input.
- `BuffersHold`: `Spec => []NeverPastTheEnd`. `Cut` relates what is printed into little room with what is printed
  into more: the same, or full and the beginning of it. Putting text keeps it (`PutCut`), and so
  does each item of a format (`ItemCut`); a minus sign or a plain character is put without looking at the
  end, which is why an item starts only where the buffer is not full (`Open`). `Digits` ends: a number's value
  (`Val`) is ten times that of its quotient and a remainder (`DivModFacts`), and below 10^20, so it has at most 20 digits.
- `IntegersAreExact`: `Spec => []IntegersReadBack`. The format says which number an argument stands for
  (`StandsFor`: a sign and a magnitude, in two's complement of the type's width); that number is what
  `rap_sprintf_num` is given (`NumberPrinted`, by `NegatedLimbs` and `SignLimb`), it is written whole behind sign and
  padding (`SprintfNumWhole`), and its digits read as it wherever they stand: one digit more is the
  quotient times the base and the remainder, limb by limb the number again (`TimesPlusBack`, `DigitsRead`).
  The most negative `int8` is included: `-i64` (line 408) is taken to wrap, as it does in the build.
- `RoomSuffices`: `Spec => []RoomIsEnough`. For each byte what is counted is one less than what is written, and a
  sum over the bytes carries that to a text; base64 is division by three and by four.
- `ParsersAreExact`: `Spec => []ParsesExactly`. `Reading` says what a parser has read after k digits: the value of
  these digits if all were digits and an int4 holds it, and the error otherwise, which stays. `NextDigit` is
  the arithmetic of the overflow tests: with a remainder of the largest int4 by ten and by sixteen they refuse
  exactly what is too large. In `rap_atofp` a dot is left out and counts places (`FpRead`, by `Nth` and `Past`), and the padding is
  the same text with zeros behind it (`ShiftedExact`).

Loops over a text are recursive functions over its places in the model. `Recursion` and `GoesOn`, as above, give
such a function and what holds at each of its places. Assumptions used: `InputsAssumption` (texts are bytes; words have no
NUL), `FormatsAssumption` (the arguments have the types their directives take, as `va_arg` needs; an integer that says
which number it stands for does so rightly, and `Enough` has room for its width, or a sign and twenty digits),
`LimbAssumption` (2^16 is even and has five decimal digits, so four limbs have twenty) and `NumbersAssumption`, which says of the largest int4 that it is 15 modulo 16, as 2^31 - 1 is:
`rap_hextoi` compares with `RAP_MAX_INT_T_VALUE / 16` and looks at no remainder.

Only model-checked: every liveness property and the refinements with fairness, which are
out of the prover's reach; `FractionsReadBack`, which holds for the places and fractions of the instance and fails
for ten (`long_fractions`); `ComesBack` and `Utf8Exact`, which are about two conversions against each other, byte
by byte; and `LookupMatches`, which is about the recursive descents of the lookups.

## 11. Not modelled

- The grammar, `language-configuration.json` and the Rap samples are data without behaviour of their own.
- The editor tests and their runner drive the extension from outside; they were read for what they expect.
- Of the server and the client: completion and logging change no state; `deactivate` only
  asks the client library to stop. A server that crashes is restarted, or not, by that
  library: nothing in the repository handles it, and the server keeps nothing across runs.
- The rest is named at the end of each section above.

## 12. Conventions

Definitions preceded by `\* Variant:` are not part of any specification: each is the mutated
form of the definition that follows it, a plausible bug, which its property detects.
Bounds are constants named `Max...`; models are instances in `MC*` modules and their `.cfg`.
Run TLC as `tlc -config MCPool.cfg MCPool`, TLAPS as `tlapm LspSession_proofs.tla`.
