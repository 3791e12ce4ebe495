# A TLA+ model of perl-rs

perl-rs is the value layer (`src/perl-core`) and the front end
(`src/perl-parser`) of a Perl 5 implementation in Rust. Its values are shared
between threads, so most of what makes it correct is about order: reference
counts, lock-free caches, locks held over callbacks, teardown of graphs, and
knowledge about bytes that has to survive every rewrite of them. This directory
holds TLA+ models of those parts, the TLC configurations that check them on
small instances, and theorems that TLAPS proves for every value of the
constants.

## 1. Inventory

### `perl-core`

| component | state | operations | interacts with | what is hard |
|---|---|---|---|---|
| **scan lattice** (`string.rs`, module `scan`) | none; twelve states of knowledge about bytes | `facts`, `meet`, reader predicates, `append_transition_heap`, `slice_birth` | every string operation | a meet that forfeits or invents a fact |
| **scan slot** (`HeapView`, `Adopted`) | one atomic scan byte and one atomic count per large buffer | `as_str`, `is_ascii`, `is_perl_utf8_valid`, `char_len`, `content_digest` read it and record what they find | all handles of a buffer, on any thread | lost updates; a state read before a walk and used after it; count and state loaded apart |
| **copy-on-write storage** (`cow_buffer.rs`, `Repr` in `string.rs`) | reference counts of buffers and of `Adopted` structs, each struct owning a part of another object | clone, slice, write in place, copy out, unshare, drop, adopt | strings; allocator | writing what another handle reads; use after free through chains of views; failed allocation between two steps |
| **string operations** (`string.rs`) | one envelope: form, flag, scan state, count, and the buffer it points to | constructors, `push_*`, `slice`, `substr`, `upgrade`, `downgrade`, `unshare`, questions | lattice, storage, walks | knowledge kept across a change of bytes; crossing the ends of envelope, allocation and tier |
| **byte walks** (`string.rs`, `cow_buffer.rs`) | cursors | blocked classifiers, their copying twins, in-place Latin-1 expansion and contraction | string operations | sequences across block boundaries; overwriting unread bytes |
| **equality, order, digest** (`string.rs`) | none | `eq`, `cmp_perl`, `content_digest` | scan slot | equal strings of different form or flag with different digests |
| **packed, UUID, hex forms** (`string.rs`) | an envelope payload | pack, push, unpack | string operations | round trips (well covered by unit tests) |
| **scalar cells** (`scalar.rs`) | payload, caches with validity flags, readonly bit, a lock | coercions under the read lock; `assign`, `upgrade_to_full`, `numify_noting_warning` under the write lock | values, strings | readers filling one cache at once; caches that survive their payload; failure half way through a replacement |
| **release worklist** (`heap.rs`, drops in `scalar.rs`, `containers.rs`) | strong counts; one worklist and a draining flag per thread | `HeapArc::clone`, `release_value`, the `Drop` impls | every container | unbounded recursion, values dropped twice or never, a flag that outlives its frame |
| **values** (`value.rs`) | a variant and its payload; an alias variant points to a cell | `take_ref`, the coercions, `numify`, `stringify` | cells, containers | one cell behind many slots; taint lost when a value moves; a truth, an integer and a string that disagree |
| **numeric classification** (`numeric.rs`, `value.rs`) | decimal digits cached beside a number | integer and float parsing, the warning's grammar, rendering | values | the same string read by four scanners; boundaries of the widths and of the cache |
| **arrays, hashes** (`containers.rs`) | gap buffer geometry; table, order, `each` cursor; three engines each | index, push, pop, shift, unshift, delete, each, clear | values, worklist | a cursor across deletions and rehashing; holes; engines that disagree |
| **warnings, allocator back end** | tables; none | set operations; allocation | | |

### `perl-parser`

| component | state | operations | interacts with | what is hard |
|---|---|---|---|---|
| **source** (`source.rs`) | cursor, current line, queue of lines to replay, lookahead capture, bounds of the frames on the context stack | `next_line`, `lookahead`, `lookahead_to`, `consume_lookahead`, `start_heredoc`, `start_delimited_body`, `pop_context` | lexer | lines delivered twice, never or out of order after nested scans; bounds; numbering |
| **lexer** (`lexer.rs`, `token.rs`, `keyword.rs`) | stack of contexts, copies of the parser's pragmas | tokens for a term or for an operator, interpolation, quote-like bodies | source, parser | a word lexed under pragmas that are about to end |
| **parser and tree** (`parser.rs`, `ast.rs`) | one token of lookahead; frames of prefixes and brackets with a precedence; saved scopes | expressions without recursion for prefixes and brackets, statements, stamping of contexts | lexer, pragmas, symbols | frames that restore the wrong precedence; parentheses forgotten where they matter; blocks that end in an error |
| **pragmas, symbols** (`pragma.rs`, `symbol.rs`) | scoped feature sets; declared names, imports, prototypes | `apply_version_bundle`, `declare_sub`, `import`, `lookup`, `SubPrototype::parse` | parser | scopes that leak; import cycles; versions that round to another bundle |
| **errors, spans** | plain data | | | |

Correctness, component by component: knowledge is never false and never lost
for nothing (lattice, slot, string operations, walks); a handle shows a value
that only its own operations change, and storage lives exactly as long as it
can be reached (storage); an answer is the one the current payload gives, a
warning comes once, readonly means readonly (cells); every value is dropped
exactly once, in bounded stack (worklist); every engine of a container is the
same container, and `each` visits every key once (containers); every line is
delivered once, in the order of the grammar (source); equal strings are equal,
ordered and digested alike whatever is known of them (equality); a value
answers for one content through every face, slot and reference (values,
numbers); an expression has the one tree its operators' table gives it, with
the contexts its text demands (parser); what a scope sets ends with it (lexer,
pragmas).

## 2. Modules

| module | models | built on |
|---|---|---|
| `ScanLattice` | the lattice as operators over the five content classes | |
| `ScanSlot` | readers racing on slot and count | `ScanLattice` |
| `StringValues` | abstract: handles that each have a value of their own | |
| `CowBuffer` | handles, envelopes, buffers and `Adopted` structs | implements `StringValues` |
| `Utf8Scan` | the decoder, whole classifications, the Latin-1 encodings as functions | `ScanLattice` |
| `ByteWalks` | the byte loops, iteration by iteration | `Utf8Scan` as reference |
| `StringBuffer` | one string through all operations | `Utf8Scan`, `ScanLattice` |
| `StringCompare` | two strings compared, ordered and digested | `Utf8Scan`, `ScanLattice` |
| `Numeric`, `NumericStrings` | parsing, classification, rendering and the digit cache; the words they are tried on | |
| `Values` | slots and cells: faces, references, aliases, freezing | `Numeric` |
| `ScalarCell` | one cell under concurrent coercions and writes | |
| `ReleaseWorklist` | threads dropping shared graphs of nodes | |
| `ArrayContract` | abstract: a sequence of values and holes | |
| `ArrayEngines` | the gap-buffer array and the persistent one | implements `ArrayContract` |
| `HashEach` | the three hash engines under `each` | |
| `SourceLines` | delivery of lines under heredocs, delimited bodies and lookahead | |
| `Expressions` | the expression parser, token by token, and the pass that stamps contexts | |
| `Pragmas`, `Symbols`, `Prototypes` | feature sets and versions; declarations, imports, lookups; the prototype parser | |
| `Scopes` | statements and blocks over one token of lookahead | `Symbols`, `Pragmas` |

Components that act on each other only through a value are checked beside each
other: `MCCells` joins `ScanSlot`, `ScalarCell` and `ReleaseWorklist`, `MCObjects` joins
`MCContainers` (`ArrayEngines` and `HashEach`) with `StringBuffer`, `MCValues`
extends `Values`, `NumericStrings`, `ByteWalks` and `StringCompare`, `MCParser`
extends `Scopes` (over `Symbols` and `Pragmas`), `Prototypes` and `SourceLines` and
instantiates `Expressions` (`E`) and a second `Scopes` (`V`) for the versions. A
variable `kind` chosen at the start says which of them moves.
Modules written to be extended beside another name their own initial state,
steps and specification: `GraphInit` and `GraphSpec` of `ReleaseWorklist`,
`CellInit`, `SourceInit`, `HashInit`, `WordInit`, `WalkInit`, `PairInit`, `ProtoInit`, `StringInit` and so on. `Scopes` over `Symbols` and
`Pragmas`, `Values` over `Numeric` and `StringBuffer` over the lattice are
compositions proper: one step changes or consults both.

`MC…` modules give the constants values for TLC; `…_proofs` modules hold the
theorems. A definition marked *Variant* is the definition below it with a
plausible mistake in it, and is what shows that a property notices.

### How state and actions correspond to the code

* **ScanSlot.** `slot` and `count` are the atomics in the allocation (heap tier)
  or in the `Adopted` struct; `birth` is the envelope byte, which a reader meets
  with the slot in the adopted form only. A reader's `pc` goes through the
  function: *peek* (the state is matched), *count* (cached count), *classify*
  (the walk), *load* and *cas* (the loop of `narrow_scan`), *fill*. The weak
  compare-and-swap may fail for no reason; such a failure is the step that
  reloads.
* **CowBuffer.** An envelope is `[obj, own, cut]`: the object it points to,
  whether it owns the whole buffer or is a view, and the part it shows.
  `rc`, `holder` and `live` are the objects' counts, parents and allocation.
  Calls run in steps (`pc`): an in-place write is *Unique* (the `is_unique` load),
  *Tear* (the bytes are neither old nor new) and *Settle*; a slice retains, then
  mints, then undoes the retain if minting fails; a release that reaches zero
  goes on to the parent. Rust's `&self`/`&mut self` discipline on one handle is
  the guard `Shared`/`Exclusive`.
* **StringBuffer.** The one variable is a record: storage form, bytes, flag,
  scan state, the copy of the state in an adopted view's envelope, character
  count, capacity, and whether the handle is alone. *Share* and *OthersDrop* are
  other handles coming and going.
* **ByteWalks.** One behaviour is one loop over one text. The text is built of
  pieces whose class is known, so the expected result does not come from a walk.
* **ScalarCell.** The lock is `writer`/`readers`; `valid` and `cache` are the two
  halves of each cache, stored in the order of the code. Coercions are an
  arbitrary function `Coerce`; MC takes one in which the string's integer parse
  differs from its numification.
* **ReleaseWorklist.** `stack` is the native stack of each thread, in frames of
  the drop glue (`drop`, `tear`, `clear`, `release`, `drain`); `pending` and
  `draining` are the thread-local `ReleaseState`. One container operation is one
  step, since each runs under its node's lock.

* **SourceLines.** `lx` holds the fields of `Parser` that deliver lines, a line
  being its index, cursor, effective length and termination, indent and number;
  `scan` is a lookahead guard with the locals of the function that holds it. A
  scan runs byte by byte or line by line, as the loops do. The lexer is the
  environment: whatever stands at the cursor it may consume, open as a body,
  peek past, or abandon with its line, which covers every grammar above it.
  `read` and `gone` record what became of each byte.
* **StringCompare.** `left` and `right` are strings with a flag, a form and what
  is known of them, in every state that is true of their bytes. *Compare* is
  `eq` with what its walk records; the grid is the table of states that decide
  without looking, `PairWalk` the walk under different flags, `WalkOn` its step: a
  block of ASCII at once or one character.
* **Numeric.** A string is a sequence of symbols, words like `inf` being one
  symbol; a finite float is an exact decimal. The integer parse, the float parse
  with its span, the classification that notes a warning and the grammar that
  only decides it are four operators, because they are four scanners in the code.
  The integer of a noted string is read off its number (`IntegerOfNumber`), not
  parsed again.
* **Values.** `slot[i]` is a value, `cell` the addresses references point to,
  `taken[i]` the slot a reference was taken from. `TakeRef` promotes a plain
  value into a fresh cell and leaves an alias behind. `Faces` holds the answers a
  slot gives: truth, integer, float, number, string and taint.
* **ArrayEngines.** `hdr` is the `Geometry`, `buf` the allocation slot by slot with
  what lies outside the window, `dead` the values whose destructor has run. A
  call is one step, since it holds the container's lock; its second disjunct is
  the allocation that fails. `Contents` maps either engine to the contract's
  sequence.
* **HashEach.** A table's buckets are where the hash function may put a key (any
  free one), so every rehash is every permutation. `owed` and `returned` follow
  the walk; `exempt` names what befell it that `EachVisitsAll` leaves out.
  `"removal"`: deleting a key of an ordered hash behind the cursor, other than the
  one `each` just returned, moves the last key to where the walk has been; `delete`
  answers for no such deletion. `"rehash"`: the entry call finds its key and has
  rehashed the table under the cursor all the same. That one the code does
  answer for (`containers.rs:1028`, `1101`), so `UpdatesKeepWalk` does not leave it
  out, and the run `each_rehash` finds it violated.
* **Expressions.** `stack` holds the `ExprFrame`s and, among them, the callers that
  wait for a recursive `parse_expr`; `mode` is where in the loop the parser
  stands. Tokens are chosen as they are lexed, so that a run covers all inputs.
  One token stands for each row of the operator table. The finished tree is
  compared with the text by a reference that knows precedence and brackets only:
  no operator stands under one that binds tighter without brackets between.
* **Prototypes.** One character is one round of the loop. A character of the model
  is a class of those the loop takes alike: space and tab are apart from newline
  and carriage return, which a group refuses, and `_` and `+` from `$`, `&` and `*`,
  which alone a backslash and a group take.
* **Scopes.** `ahead` is the parser's token, with the pragmas it was lexed under;
  `pragmas` and `lexer` are the parser's and the lexer's copies. `texts` is what
  a reader of the program would say is in force, and grows and shrinks with the
  braces alone.

## 3. Runs

| run | question | instance |
|---|---|---|
| `scan_slot_as_str` | does `as_str` answer the question its doc says it answers? (No: see findings.) | two readers, all pairs of questions, both forms, all classes, all birth states |
| `cow_buffer` | are counts exact, writers alone, handles independent; does every call end, is everything freed? | two handles, four objects, every allocation may fail |
| `cells` | do racing readers keep the slot true, lose nothing they paid for, answer right, and end; are answers of the cell, warnings single, readonly cells kept; is every value dropped once, in bounded stack, and does teardown end? | the readers of `scan_slot_as_str`; three threads on a cell; two threads, three nodes, three references |
| `scalar_cell_stale` | is a stale cache unrepresentable? (No.) | two threads |
| `values` | do the byte loops find what is there; do all readings of a word agree; does a value stay one through references; are equal strings equal however they are stored? | all texts of three pieces in blocks of four bytes; words of up to four of thirteen symbols; three slots, two cells; pairs of fifteen contents |
| `objects` | is an array the sequence it promises, a walk whole, knowledge of a string true, its characters kept? | arrays up to length 4, three keys, strings up to 5 bytes |
| `each_rehash` | do updates of keys at hand leave a walk alone? (No.) | a table of three keys, four buckets, then eight |
| `array_moves` | does a move keep the values alive? (No.) | the array with two values that own something |
| `source_number` | is a line's number its number in the source? (No.) | ten texts of up to five lines |
| `parser` | is the tree the table's, are contexts the text's, do scopes nest, do names mean their last declaration; is every byte delivered once, under the right frame, whatever was peeked at, and does lexing end? | six alphabets, six tokens before only closers follow; four statements, two levels of blocks; prototypes of five characters; the ten texts |
| `parser_leak` | does anything of a block leak out? (Yes.) | the statements of `parser` |
| `prototype_blanks` | is whitespace in prototypes ignored? (No.) | prototypes of four characters |

**Bounds, and why they are enough.** Two readers suffice for lost updates
because a reader interferes with another only through one atomic; the proofs
remove the bound. Two handles are enough for one to write, release or
tear down beside another; that the safety properties hold for any number of
handles is proved. Four objects hold a buffer and a chain of two structs beside
one fresh copy, the longest chain in which retain, mint and release of
different levels can meet. `StringBuffer` scales the code's 15, 30 and 65535
bytes to 1, 2 and 3 and keeps their order, so that five bytes cross every
boundary; `MaxCut` bounds what a part leaves out at each end to one byte, a
cut of more being a cut of a cut. `ByteWalks` has blocks of four bytes for the code's 16384, so that
sequences of two to thirteen bytes start before a boundary and end behind one or
more. `ReleaseWorklist` has three references, enough for a cycle and a value
beside it; cycles leak, as in Perl, and can use the references up. The texts of
`SourceLines` are chosen, not enumerated: one for each way in which a heredoc,
an indented heredoc and a delimited body can lie in, before or across each
other, each terminated and not; as the lexer may take any introducer for
content, each text stands for all those with fewer bodies. The reference
count's ceiling ends a behaviour of `CowBuffer`: the code aborts there.

`StringCompare` has a first block (`Line`) of two bytes for the code's 64, later ones
(`Gate`) of four, and strings of up to four, with their
first difference in, at and behind the first block. `Numeric` scales the
widths: an `i64::MAX` of 48, so that two digits reach it, its unsigned twin and
what is beyond both; floats that are infinite from 940 on; two significant
digits for fifteen; caches of one and two digits. A word has at most four
symbols, sign, digits, dot, exponent, space or trailing garbage, and each of
the words `inf`, `inity` and `nan` counts as one. `ArrayEngines` spills its
header beyond 3 instead of 2^32 - 1, and a size class grants at most one slot
more than is asked for, or none. `HashEach` has three keys in tables of two, four and six buckets,
which grow twice; the code's have four, eight and more. `Expressions` reads up to
six tokens of an alphabet and then only what closes, over six alphabets in which
each operator meets its own level, the levels around it, its prefix namesake
and the brackets that end it. `Scopes` makes four statements in blocks two deep; the versions
take every minor from 0 to 50 in every spelling.

**Deadlock** is checked where nothing may stop: `cow_buffer` and `objects`. The
others end: a leaked cycle can hold every reference (`cells`), a loop or a word
is finished (`values`), a text or an input is at its end (`parser`). A reader
that could not go on in `cells` would violate `ReadsFinish`, a lexer that could
not in `parser` `LexingEnds`.

**Fairness.** `ScanSlot`, `CowBuffer` and `ReleaseWorklist` assume weak fairness
of the steps of a call already begun: a thread inside a function keeps running.
`SourceLines` assumes it of the whole, one thread that lexes a text to its end;
a peek is made at most once before the lexer moves on, as `at_fat_comma` is
called once for a word.
No call has to be made, and the choice among calls is never fair. This is what
an operating system gives any runnable thread; none of these steps waits for
another thread.

**Findings.** Each is a run that expects a violation.

* `as_str` of a whole-object adopted view returns `None` for `PerlValidNonAscii`
  without a look at the bytes, although that state leaves Rust validity open; an
  `is_ascii` on another handle can bring it about.
* `numify_noting_warning` replaces a cell's payload and leaves its caches, so a
  coercion of the string goes on answering for the number.
* The terminator of a heredoc is never counted, so every heredoc makes the
  numbers of the lines behind it, and `__LINE__`, one too small; a peek made on
  the introducer's line after the body makes them smaller still.
* Moving an array's window clears the slots it leaves by assignment, which drops
  the values that have just been copied out of them: a second drop of a value
  that lives on.
* `entry_or_undef` on a key that exists rehashes a table with no room left, because
  hashbrown's `entry` reserves before it tells whether the key is there, and leaves
  the cursor of `each` where it was in the old layout: keys come twice or never.
* A newline or a carriage return in a reference group of a prototype is an
  error, although one between slots is skipped and whitespace is said to be ignored.
* The word behind a block's closing brace is lexed before the block's pragmas
  are taken back, so they decide what that word is.

Seen while modelling and not a run of its own: `ensure_element`
(`containers.rs:363`) keeps the new geometry only if its growth succeeded,
although a growth that fails may have moved the window already; the other calls
store it either way. `WindowHolds` fails at once when `"ensure_element"` joins
`Failing` in `Objects.cfg`. The two array engines differ in length after a
deletion that follows a `pop` onto a hole (`containers.rs:701`), which
`ArrayContract` leaves open. `is_bool` answers from a value's own
variant and does not look through an alias (`value.rs:645`), so a boolean whose
slot was promoted is none any more. A call with a `\` in its prototype builds the
reference around an operand whose context is not set (`parser.rs:2760`).
`use 5008001` is read as major 5008 (`parser.rs:4043`).

## 4. Proofs

All theorems are about every value of the constants (any number of readers,
handles, objects, threads; any contents, any coercion function).

* `Strings_proofs`, the lattice: `MeetExact`, the meet of two states admits exactly
  the classes both admit, a case analysis over twelve by twelve states on which
  everything about the slot rests. `AppendSound`, `CleanSliceExact` and
  `DirtySliceSound` say the same of the two tables a buffer's state is carried
  through, against the class that text put behind content gives it (`Extended`) and
  the classes a part of it can have (`Parts`): an append claims nothing that is not
  so, and a clean cut forfeits nothing either.
  *The slot*: type correctness, `SlotTrue`, `AnswersTrue`, `CertificationKept`, and
  that no step widens the slot (`NarrowOnly`). The inductive invariant adds that
  every loaded state and count was true of the bytes when loaded, and that the
  bytes do not change; then a compare-and-swap that succeeds stores a meet of true
  states, and one that fails has lost nothing.
  *The bytes*, for texts of any length. A classification is a walk by characters;
  `ClassifyTells` says what it means without a walk (`Tells`): a text is `Sound` when
  every lead byte decodes and every continuation belongs to a lead before it, its
  characters are its lead bytes, and its class is the greatest of theirs. Read that
  way a classification says something of a part seen as a `Window` of the whole, so
  `AppendedIs` and `CutIs` justify the two tables byte by byte; `UpgradedIs` and
  `DowngradedIs` say that the two encodings of Latin-1 text undo each other.
  *The string*: `KnowledgeTrue` and `TransformsKeep`. The inductive invariant `TrueOf`
  adds to the first the types and that only an adopted string has a second state
  in its envelope; with it every constructor, append, transform, cut and question
  has a lemma (`ConstructGood` ... `PartGood`), joined in `StringStep`. Assumed: the
  sizes are in the code's order (`SizesAssumption`; an envelope decodes to twice
  what it holds at least, as `DECODE_MAX` is defined), contents are byte sequences
  in bounds, and appended Rust strings are valid (`ContentsAssumption`).
  *The byte loops*: `ClassifiesRight` and `RewritesRight`, one step being one
  iteration. Of a classifying loop `ClassifyInv` says that what it has found so far
  (`facts`) added to whatever the rest is classified as gives the class and number of
  characters of the whole text (`Adds`), and that what it has copied out is the text up
  to the block under way; of the loops that trust their input, that the
  count is that of the lead bytes behind the cursor. That the text is what its
  pieces say is `TruthIs`. Of a rewrite in place, where source and destination
  share the buffer, `RewriteInv` says which part has been overwritten already and that
  it is not read again: expanding, the destination cursor is where the upgrade puts the byte
  at the source cursor (`Spot`), and the upgrade stands from there on (`Widening`);
  contracting, the text is the upgrade of some `d` of which the buffer begins
  with as much as the cursor says (`Narrowing`; `LatinUpgrades` finds the `d`,
  `ReadsBack` reads it). Assumed: a block has a byte and a piece is one character
  or malformed (`WalkAssumption`, `PiecesAssumption`), which TLC evaluates.
  *Two strings*: `VerdictsAgree`. Its invariant (`PairInv`) is that each string's state
  and count are true of its bytes (`WellKnown`); from that alone the three verdicts
  follow. Equality: `WalkedOn` says of every step of the walk that while all was equal
  the flagged bytes up to the cursor are the upgrade of the plain ones up to theirs
  (`Abreast`) and `high` has seen every byte past ASCII so far, so the walk ends equal
  exactly for an upgrade (`PairWalkIs`); the two grids refuse nothing that is equal
  (`SameFlagRefuses`, `CrossRefuses`). The ordering: an upgrade is ordered as the text
  (`UpgradeOrders`: after a shared beginning the first bytes to differ are ordered as
  the characters, also where two encodings share their lead byte). The
  digest: whichever of its passes is taken, it feeds the one unflagged string of
  those characters if there is one (`DigestIs`). What a walk learns is true of both
  sides (`WalkTells`), which keeps the invariant. Assumed: contents are byte
  sequences and blocks have bytes (`PairsAssumption`).
* `CowBuffer_proofs`: type correctness, `RefcountExact`, `BytesPinned`,
  `WritesAlone`, and `SharingInvisible`, the refinement of `StringValues`. None
  is inductive alone. The invariant adds the shapes a call's registers have at
  each step (`CallShape`), those of an envelope (`EnvShape`), that a struct's
  parent is older and allocated (`Chained`, `Grounded`), that what is being
  freed is reachable from nowhere (`DoomedApart`), and that initialised bytes
  are what the envelope says (`BytesSound`). Counting owners uses the
  library's cardinality theorems.
* `ScalarCell_proofs`: type correctness, `AnswersOfCell`, `WarnedOnce`,
  `ReadonlyKept`, from the shape of the lock, of a numification under way and of
  a call, and `CachesSound`: a raised flag means its slot holds a coercion of
  the payload or of the string it was numified from.

* `ReleaseWorklist_proofs`: type correctness, `StacksAreBounded`, `PlacesAreSingle`,
  `CountsAreExact`. `StackShape` says which frames may stand on which: a drain
  loop runs only in the outermost frame that releases, and what it calls lists
  instead of draining, so four frames are the most. `Apart` says it of places
  (`Spots`: slots, hands, worklist entries, frames): no value is in two, and a
  value is somewhere exactly while it has a target; every action then is a move,
  a removal or an addition of one value between two spots. `TornApart` says that
  a node being torn down is allocated, unreferenced, and torn down by one frame
  of one thread. Without it the second tear of a node could not be excluded, and
  without `Apart` a count could not be compared with its referrers. Assumed: no
  node is `None`, the references are finitely many (they are counted).
* `Containers_proofs`, the arrays: `HeaderDescribesBuffer` and `EnginesKeepContract`, the
  refinement of `ArrayContract`. The invariant is `Sound`: the buffer is as long as
  the header says and nothing outside the window holds a value. Each step of the
  geometry (`Slide`, `Grow`, `Lengthened`, `Extend`, `Shrunk`, `SlideRight`, and so on)
  has a lemma that it keeps `Sound` and what it does to the live sequence; an
  operation composes two or three. Assumed: sizes and indices are naturals
  (`NumbersAssumption`), and `EnsureSucceeds`, that an allocation made by
  `ensure_element` itself does not fail. The last is not idle: without it the
  theorem is false (`containers.rs:363`, see below), and every other caller's
  failures are in the theorem.
  *The hashes*: `WalksVisitAll`, by an invariant of the table (no key in two
  buckets; its items and tombstones leave `Spare` room, which the allocator's
  accounting never overdraws), of the ordered engine (no key twice), and of the
  walk: what it owes was returned or is ahead of the cursor, what it
  returned is not ahead. The theorem covers every rehash by which a key is added,
  and says nothing of two walks: an ordered hash's after a key behind the one last
  returned was deleted, and a table's after an entry call for a key at hand
  rehashed it, which the code breaks (`each_rehash`).
  The accounting is needed because the entry call rehashes, and so moves keys
  across the cursor, exactly when no room is left; single places are needed for
  the cursor to meet each key once. Assumed: finitely many keys
  that are not the mark of a free bucket, and a bucket count that holds them all
  (`TablesAssumption`).
* `SourceLines_proofs`: `DeliversOnce`, `KeepsBounds`, `PeeksLeaveNoTrace`, for every
  text. No property is inductive: none says what happens while a scan runs, nor
  why the lines a scan returns lie where they came from. The invariant `IInv` has
  two halves. Between scans the lexer is `Settled`: the queue is in the order
  of the text and before the source (`Queued`); frames nest, each bound on or
  behind the line it suspends and each line seen through the bound below it
  (`Nested`); and the bytes read, gone, on the current line, on the frames' lines
  and waiting part the text (`Partition`). During a scan, `ScanOk` says that the
  lexer *would be* settled were the scan dropped now (`Dropped(Drop(p, s), ...)`),
  and that all it has seen is seen through the bound it runs under, which is one
  that no waiting line lies across (`Ceil`, what `Ceiling` computes). So a line
  delivered in a scan changes nothing (`ScanNext`), the end of a peek is nothing
  but the drop, and a body or a heredoc that closes is a move of bytes between
  two places of a settled lexer (`CloseLies`, `HeredocLies`). The proof has a lemma
  per action (`ConsumeGood` ... `TerminatorGood`), joined in `StepGood`. Assumed: texts
  are sequences of lines shorter than `Width`, and `None` is no line
  (`TextsAssumption`, `NoneAssumption`).
* `Parser_proofs`: `LookupFollowsImports`, `ScopesNest`, `NamesAsDeclared` and
  `PrototypeAsWritten`. A lookup is a loop that a recursive function describes; what
  it finds is told by induction on its rounds, which end because each import
  is followed once. For scopes the invariant adds `StacksAgree` (the saved pragmas
  and packages are those the text's open blocks have), `AheadShape` and `TableAgrees`
  (the symbol table holds exactly what the text declared so far). The prototype
  loop is cut after each character: `Settled` says what the slots, the slurpy slot
  and the required count are up to there, and behind it lies nothing, a
  backslash or an open group; so strings of every length are read as the grammar
  says, a grammar that allows newlines between slots but not in a group, as the
  code does. That the code should not tell them apart is `BlanksIgnored`, which fails. Assumed: packages and names are finitely many, `main` among them, and
  versions have minors up to 999 (`SymbolsAssumption`, `ScopesAssumption`).
* `Values_proofs`: `OneIdentity`, by an invariant that every address a slot or a
  reference names is that of one cell in use and a fresh cell is named by nobody.
  `FacesAgree` and `FacesKept`: digits are made by repeated division, cached digits
  unpack to those packed, and the truth of a number is that of what it renders as.
  They need `StringsAssumption`, that no string put in a slot is a negative zero,
  and would be false without it: of "-0" the float keeps the sign
  its integer has not, so noting its warning changes its float face. That
  assumption is a fact about the strings chosen, which TLC checks.
  `FacesKept` has one exception that the code makes: `parse_int` stops at an
  exponent or a word and a number does not, so the integer of "1e3x" is 1 until its
  warning is noted and 1000 from then on (`value.rs:1252`, `scalar.rs:313`). The
  theorem says that this is the only answer noting changes, that it changes to
  the number's integer, and that it does so only of strings that are not `Exact`.
  `ReadsOneInteger`: the integer parse adds up digits and wraps or clamps, the
  classification finds an integer, an unsigned or a float, each with limits of its own.
  `DecimalIs` says what a decimal is cut off to: as much of its mantissa as its exponent
  leaves (`Shortened`), clamped; `MantissaFigures` that the leading digits are the
  mantissa shortened by its fraction; `TooLong` that more digits than a finite float has are
  beyond every integer. Joined (`OneInteger`), and with them for floats (`OneFloat`), they
  give the faces of a string.
  `WarnsAsGrammar`: the walk that numifies spans just the token the grammar
  describes, and trimming on the two sides commutes.

The types of the slot, storage, cells and worklist, `NarrowOnly` and `BytesPinned` are proved and no run
repeats them. Assumptions are those the modules name: finite sets of handles, objects and
threads where the proofs count them, sizes that are naturals in the right order.

**Induction over data** is made without the library's induction theorems, whose
operator parameters the provers cannot instantiate: `UpTo`, `DownFrom` and `WalkBack` state the
induction over a set, from the least element of a set of numbers, and a recursive
function is shown to satisfy its equation by building an approximation of every
length (`IterationExists`, `WalkExists`, `BuildExists`).

**Only model-checked.** The liveness properties `ReadsFinish`, `CallsFinish`,
`Reclaimed`, `TeardownEnds` and `LexingEnds` (liveness under fairness is beyond
the prover). `RendersBack`: that the decimal expansion of a rendering is the number
again takes rounding to `Precision` digits on the way out, which nothing here has lemmas
for yet. `TreeObeysTable` and `ContextsAsWritten` of
`Expressions`: a tree is a recursive operator there, and a module that declares one
has no arithmetic prover. The properties of the violation runs fail and are not proved.

## 5. What is not modelled

*Storage.* Byte layouts, alignment and size classes; memory orderings weaker than
sequential consistency (the code's acquire/release pairs are taken to do what
they are for); static and immortal images in `CowBuffer`, which nobody counts or
writes; envelope forms there, which share nothing; the UUID and hex forms and
the taint flag in `StringBuffer`; the wrap to zero of a reference count, which
needs 2^32 handles. The seven- and thirteen-byte forms of UTF-8 are judged
minimal by their leading continuations, their values being beyond 32 bits.

*Values.* Node locks in `ReleaseWorklist`, weak references, and a drop that
panics inside the drain loop, which no `Drop` of this code does. References to
arrays, hashes and code in `Values`: a value that is a reference is handled by
one rule whatever it points to. Floats are exact decimals, not rounded to 53 bits.
So `ReadsOneInteger` and `FacesAgree` compare the two integer readings of a string where rounding
changes nothing (`Exact`): a string with an exponent, or with a dot and more than 15
digits, may have an integer of its own in each ("0.99999999999999999999" is 0 to
`parse_int` and 1 by way of its float, `value.rs:1252`), and `scalar_cell_stale`
builds on the first. Hash values, snapshots and clones of containers. The wording of
warnings and their category tables.

*Source and lexer.* Carriage returns, byte order marks, UTF-16, `# line`
directives, delimiters of several bytes or that do not nest, and
`consume_lookahead`, which has no caller. Inside tokens: numbers, strings,
regular expressions and interpolation, whose scanning keeps no state of its own
but the place in the text.

*Parser.* Of expressions: hash subscripts, the fat comma, dereferencing other
than `@{ }`, arrows other than `->[` and a method, the assignments of
refaliasing, smartmatch, calls with a prototype, and what may follow a named
unary operator other than `and`, `or`, closers and operators of the alphabet. Of
statements: compound statements and modifiers, formats, classes, signatures. An
error inside a package block leaves the inner package current; nothing is
parsed after it. `use subs` and declarations are the only makers of names, an
import is made through the table's own interface, since no statement makes one
yet; the name of a `sub` is kept whole, so a qualified one is declared under a key that no
lookup reaches. Trees and tokens are data; their printing is left out.

## 6. Plan

1. Proofs: what of `Expressions` can be said with trees as functions instead of
   recursion.
2. The lexer's context stack for interpolation over `SourceLines`.
3. Statements of the parser that own a block and a condition, and calls with a
   prototype, over `Expressions`.
4. The packed, UUID and hex forms in `StringBuffer`.

## 7. Running

    tlc -workers 2 -config CowBuffer.cfg MCCowBuffer
    tlapm CowBuffer_proofs.tla

Every configuration is named after what it checks, and its module is the one
`PROJECT.json` gives; the longest run takes about three minutes.
