# A verification project for tabnas/zon

`zon` reads and writes ZON, the data literals of Zig (`.{ .name = .zon }`), in
three runtimes that are meant to agree: TypeScript (`ts/`, the canonical one),
Go (`go/`) and Rust (`rs/`). It is a plugin: a declarative grammar
(`zon-grammar.jsonic`) and a handful of lexer matchers laid over the relaxed-JSON
grammar of `tabnas-jsonic`, which runs on the `tabnas` engine. Around it stand a
renderer written in alchemy (`alchemy/render.alc`), a C shared library
(`go/clib`), the workflows that release all of it, and a corpus of real `.zon`
files. The engine, the JSON grammar and alchemy's runtime are other
repositories.

This directory holds TLA+ models of the parts, TLC configurations that check them
on small instances, and proofs about most of them that TLAPS checks for every
value of the constants. `PROJECT.json` maps each definition to the lines it
models, and lists the runs, the mutants that show each property can fail, the
hazards the properties are for, and the theorems.

    tlc -workers 2 -config MCClib.cfg MCClib      # a run
    tlapm ClibProofs.tla                          # the proofs of a module

## The system

| Component | State | Operations | Interacts with |
|---|---|---|---|
| C library, registry (`go/clib/core.go`, `tabnas_c.go`) | `loaded`, `nextID` under an RWMutex; a mutex and an engine per handle | `tabnas_grammar`, `tabnas_parse`, `tabnas_grammar_free`, `tabnas_free`, from any thread | engines, built by the Go plugin; C callers |
| C library, `jsonUnsafe` | the path of containers being walked | one walk per accepted parse | the parse result, before `json.Marshal` |
| Grammar (`zon-grammar.jsonic` and the hooks of `lib.rs`, `zon.go`, `zon.ts`) | the rule stack, the node of each rule | open and close of `val`, `map`, `list`, `pair`, `elem`; duplicate guard; enum rewrap | pulls tokens, two ahead; falls back on jsonic's alternates |
| Lexer (`rs/src/lex.rs` and its twins) | the cursor | matchers for `.x`, `.{`, `."`, strings, `\\` lines, characters, numbers, doc comments | classes a brace as struct or tuple by a scan of its own, for the grammar |
| Scalar scanners (`zon.go`, `lex.rs`, `number.rs`) | decoded characters and pending bytes; digits of each part; limbs | a string's body, a number, an integer in a power-of-two base, a character | called by the matchers |
| Render (`alchemy/render.alc`, copied into `go/` and `rs/`) | a stack of markers | one step per tree event | alchemy's streaming runtime; records of output |
| Transduce (`alchemy/transduce.alc`) | the containers it is in | one step per rule pass of the parser | the grammar's passes in, tree events out, to the render or a host |
| Install and options (`rs/src/lib.rs`, `ts/src/zon.ts`, `go/zon.go`) | an engine instance: its alternates, options, matchers, hooks and the mark that it has the plugin | install, on a fresh instance or again; read a bag of options | the engine, jsonic, which must be there first |
| Default parser (`rs/src/lib.rs`) | two `OnceLock`s: the parser, the grammar's rules | `parse`, `parse_with`, from any thread | install |
| Release (`.github/workflows/release.yml`) | npm, the tags `ts/v` and `go/v`, main | dispatch, push of a tag, re-run | npm, git remote, an orchestrator |
| Crates and C release jobs (`crates-release.yml`, `clib-release.yml`) | crates.io, a GitHub Release and its manifest | called by a release, or dispatched for a tag | the tags |
| Corpus builder (`scripts/fetch-zigzon.sh`, `test/zigzon/tools`) | files: downloads, a toolchain, a stamped source tree, two files of cases | fetch, unpack, harvest, judge; run by the test suites | the network, the Zig compiler |
| `port-deps`, Rust gate, embedders, checking workflows | files | text rewriting, tests | |

What is hard in it:

- *Concurrency*: the registry lock is let go before an engine's mutex is taken, so
  a handle may be freed, and another loaded, while a parse waits. Threads meet at
  two cells that are filled once, one of which needs the other. Release runs have
  no concurrency group and overlap.
- *Failure*: an engine may panic or hang inside a call. An installation may fail
  half-way on an instance the caller keeps. A release is a sequence of writes to
  systems that cannot be rolled back (npm, crates.io, the Go proxy), and a run may
  die between any two. So may the corpus script, and what it wrote stays.
- *Streaming*: events leave the transducer while the parse may still fail, and the render writes before it knows what comes, and holds back what
  it cannot yet write (an empty container's brackets, a big integer's digits).
- *Two views of one text*: the brace's look ahead and the matchers scan the same
  characters in different ways; three runtimes scan them again.
- *Numeric edges*: limbs, rounding, exponents, continuation bytes, surrogates.

What makes each correct is stated by the properties below; every hazard is in
`PROJECT.json` at its line, with the properties that cover it or the reason none
does yet.

## The modules

`MCx.tla` gives `x` its small sets; the properties of a component stand at the
end of its module.

### The C library: `ClibAnswers`, `ClibSpec`, `Clib`, `ClibProofs`; `ClibWalk`, `ValueProofs`

`ClibSpec` is what the header promises: an atomic table of live handles, a call
being invoked, taking effect at one instant and returning. `Clib` is the code,
one action for each thing a goroutine does between two points where another can
run: `loadGrammar` builds an engine, announces itself to the RWMutex, waits for
readers to drain, increments, reads and inserts under the lock; `parseWith` looks
up under the read lock, lets it go, takes the instance's mutex, parses, lets the mutex
go and makes its reply; `freeGrammar` deletes under the lock. The RWMutex is modelled
as `sync` documents it: a waiting writer stops new readers. The increment and
the read of `nextID` are steps of their own, so that the lock has work to do.

An engine is an identity; it is `torn` when two threads are in it at once. What it
answers is a `Verdict` of the source, a constant: a value, a rejection, an unsafe
value, an internal error or a panic (`defer` and `recover` answer `internal`).
A parse may also never come back.

- `NeverTorn`, `EnginePrivate`, `TableStable`: the mutexes' discipline.
- `Linearizable` (`Atomic!AtomicTable`): every behaviour of `Clib` is one of
  `ClibSpec` under a refinement mapping. A load takes effect at its insertion, a
  parse at its lookup, a free at its deletion.
- `EveryCallReturns`, if parses come back; `HungParseHarmsNoRegistry`, even if one
  does not.

`ClibWalk` models `jsonUnsafe` over heaps of containers that share, hold and
contain each other; what is on the path is kept by address and length, two of the
three parts of a `pathKey`. `Withheld` says it withholds exactly what JSON would corrupt or
never end on, `WalkEnds` that it always answers.

### The render: `ZonNames`, `Render`, `RenderTree`, `ValueProofs`

`Render` is the transducer: its stack of markers (`array-open`, `held`, `member`,
...) and one action per kind of event, each with the whole of what the step
writes. Text is a sequence of tokens, an indentation with its depth. `ZonNames`
is the convention that writes every JSON name as a ZON field (`$empty`, `$$x`,
`$json:...`), over names as sequences of characters. `RenderTree` reads a stream
of events by recursive descent: which streams are trees, what document a tree is
written as and what its records are. The properties compare: `TreeEventsOnly`,
`WritesTheTree`, `WholeRecords`, and all three are proved.

### The reader: `ZonTokens`, `ZonParse`, `ZonDocument`, `ZonParseProofs`, `ZonLex`

`ZonParse` runs the alternates of `zon-grammar.jsonic`, in their order and before
jsonic's, on a rule machine: a stack of rules, two tokens of look ahead, groups,
replacement, the depth budget and the plugin's hooks. Tokens come in any order in which
the brace's class is the one `PeekKept` (in `ZonTokens`) promises. `ZonDocument`
defines documents and their values by size; `AcceptsDocuments` and
`RefusesNoDocument` say that parser and definition agree on every source and that
an error comes only at the first token no document continues. `Nested`
ties the rule stack to the brackets read. TLC checks the three on a small instance;
all three are proved.

`ZonLex` is the lexer over characters. `LexerKeepsPromise` is `PeekKept` of its
tokens: what the parser assumes, the lexer is shown to give. `NothingSwallowed`
says that looking ahead consumes nothing, and the doc-comment properties where
`//!` and `///` are refused. The grammar's property `DocCommentsRefused` is violated (see
Findings); `DocCommentsRefusedBetweenTokens` is what holds.

### The translation: `Translation`

The three alchemy and grammar parts in a row, as a host that translates a document
runs them. The stages are pulled: the parser makes a step, its pass becomes the
events `transduce.alc` makes of it (`OpenPass`, `ClosePass`), the render
takes each event before the parser goes on, and when it has finished a second
instance of the parser reads the tokens of what was written. A parse that fails
leaves what was streamed where it is, which is what a streaming host sees too.

- `StreamsTheValue`: the render refuses no event, whatever is read, and the events of
  an accepted document are exactly those of its value: an enum literal its name, an
  integer that no double holds the object `{"$big": ...}`, a token that was only
  looked at nothing.
- `ReadsBack`: the text is a document again, and its value is the value translated,
  when its names are read by the reverse of the convention. The names are those the
  convention bends (`$empty`, `$big`), and the digits of a big integer occur as a
  string as well.

### Scalars: `ZonString`, `ZonNumber`, `ZonBigUint`, `ZonChar`, `ZonSpelling`, `ZonScalars`, `ScalarsProofs`, `NumberProofs`

Scanners and conversions, each a state machine over a short source; `ZonScalars` puts
them side by side with `ZonLex`, the lexer standing at one of them, and names their
properties.

- `ZonString`: the body of a string in Go, which gathers `\xNN` bytes and decodes
  each run when it ends. `DecodesRuns` compares it with the Unicode standard's
  maximal-subpart rule, and its escapes with those Zig has.
- `ZonNumber`: `number_matcher` and `scan`, against the grammar of literals that
  the hint of `zon_number` describes, `-0` among what is none (`ScansLiterals`).
- `ZonBigUint`: packing into limbs, exactness, spelling in decimal and the scale of
  hexadecimal floats, with widths as parameters: `KeepsTheNumber` at every step,
  `ExactOrSpelt`, `ScaledWhereAPowerHolds`. IEEE arithmetic is written down in full;
  limbs and digits are numerals to a base (`Numeral`, `Power`), which the proofs can reason about.
- `ZonChar`: the three runtimes' matchers on one source: `PortsAgreeIn32Bits`.
- `ZonSpelling`: `js_number_to_string`, which spells a number that is used as a tag, against
  ECMA-262's `Number::toString` as what it asks of a text (the fewest digits that are
  read as the number, the nearest of those, laid out plainly between two thresholds).
  `SpeltButPowersOfTwo` is what holds, `SpeltAsJavaScript` what is said.

### Installation: `ZonOptions`, `ZonInstall`, `InstallProofs`

`ZonOptions` is the bag of options and how Rust and TypeScript each read it, over every
kind of value a field may hold. `ZonInstall` is `zon` on an instance, one action for
each step that changes it: refuse an instance without the relaxed-JSON rules, register
the hooks, overlay keys, fixed tokens and matchers, take the rules from their cell or
fill it, put the alternates in front, exclude jsonic's, mark. Callers build instances
bare or with jsonic, install on them once or again and parse; others use `parse` and
`parse_with`. The two `OnceLock`s are cells: empty, being filled by a thread, or
set; a second thread waits.

- `WholeOrUntouched`: an instance no thread is installing on is as it was, or speaks
  ZON in full and is marked. `SpeaksZon` is written against the tables of `ZonLex` and
  `ZonTokens`, which the reader's models use.
- `ParsesAsAsked`: a parse goes by a whole instance and by the options its caller
  asked for, as TypeScript reads them.
- `EveryCallReturns`: no thread waits at the cells for good.

### The corpora: `Corpus`, `CorpusProofs`

`Corpus` has an action for each step of `fetch-zigzon.sh` and `judge.py` that reads or
writes a file: the two downloads with their hashes, the compiler and its library
unpacked in that order, the tree removed and extracted in two parts each, its stamp,
the harvest, and the two files of cases, each opened, and emptied, before it is
written. A run may be stopped between any two. The script and its tools are edited
between runs (never back to an earlier text). TypeScript's suite runs the script every
time, those of Go and Rust only when a file of cases is missing.

- `StampedTreeIsWhole`: a tree with this script's stamp is all of what it unpacks.
- `GradesWhatItShould`: a suite that passes graded whole corpora; TypeScript's, those of
  the checkout.
- `Recovers`: running the suites again brings the corpora of the checkout, unless a
  stop left a compiler without its library (see Findings).

### Releases: `Release`, `ReleaseJobs`, `ReleaseProofs`

`Release` has an action per step of the workflow (checkout, decide, view, publish,
tag, hand over) for overlapping runs, with failures between and inside steps,
re-runs, merges to main and tags pushed by the orchestrator. A run acts on the
tags its checkout fetched. `ReleaseJobs` adds the crate and C jobs, called for a Go
tag or dispatched for any name, of either kind and whether the tag is there or not; a
GitHub Release belongs to a tag. `TagsAgree` is the heart: the two tags of a version never name
different commits. `TagAfterPublish`, `RepairShipsTheTag`, `CrateFromTheTag`,
`PublicReleaseWhole` and, with fairness, `RepairFinishes` and `DraftFinishes`
state what the comments of the workflows promise of a release that broke off.

## The runs

| Run | Question | Bounds | Distinct states |
|---|---|---|---|
| `clib` | locking, linearizability, every call returns | 2 threads, 2 loads, handles 0..2, sources accepted, rejected and panicking | 59 700, and a liveness check |
| `values` | the render: exactly trees, exactly their documents; `jsonUnsafe`: withheld exactly for cause, always an answer | streams of 8 events, 4 names, 3 scalars; 3 containers of up to 2 items | 823 186 |
| `release` | tags never part; repeated dispatches finish | 2 runs, 3 commits, 2 versions | 127 683, and a liveness check |
| `release_jobs` | the crate is the tags' commit, Releases stand on tags and are whole; drafts are finished | 1 run, 1 job, 2 commits | 92 740, and a liveness check |
| `parse` | exactly the documents; translated and read again | 9 tokens, 2 names, depth budget 2 | 451 951 |
| `scalars` | tokens, strings, numbers, integers, characters, keys | below | 1 260 506 |
| `install` | whole or untouched, options as asked, no deadlock | 2 threads, 4 calls | 146 953, and a liveness check |
| `corpus` | whole corpora, recovery | 3 suites, 3 edits, 3 stops | 94 655, and a liveness check |
| `release_commit`, `lex_doc`, `hex_float_all`, `number_key` | the findings | | violation |

Why the bounds are enough:

- `clib`: two threads give every pair of operations in every interleaving, and two
  loads a handle used while another is issued. A source that panics and one that
  hangs (any parse may) are in. Three threads with one handle and two sources pass
  as well; safety is proved for all.
- `values`: eight events hold a container in a container with a big integer
  beside another member, and every stream that breaks off or goes wrong within
  them; the names are the four the field convention could confuse. Three
  containers are a cycle of each length, a diamond, and a slice and a shorter slice
  of the same array. The two walks share no state and are run side by side.
- `release`: two runs overlap in every way, over a version with a second commit
  and a bump. Safety is proved for all. `release_jobs` has one run and one job
  at a time, of either workflow and for tags of either kind: its safety is proved for any number.
- `parse`: nine tokens are two nested containers with two members, or one
  nested once too deep for the budget of 2; two names make duplicates. A document of
  nine tokens is written in up to eighteen (`$big` may become a struct), which is
  the second reader's bound. Nesting is proved for all.
- `scalars`: the lexer reads, after a prefix that gets the look ahead going (`.{`,
  `.{ .@"`, `//`, `\\`), every source of five characters of those it tells apart;
  strings of four bytes with one of every range of lead and continuation bytes (a
  UTF-8 sequence has at most four), and three items of every kind; every number
  of four characters and the interesting ones of five; every integer of twelve bits
  against limbs of four and doubles of three, so that values span three limbs and
  exceed the exponent's range; every hexadecimal float of two digits, every exponent
  to past the cap; character literals of two items over code points 0..8, of which 3
  is a surrogate, 5 the last code point and 7 the last that Go's integer holds; every
  double of four bits between 1/128 and 960 as a key, plain between 0.1 and 100.
  TLC's integers have 32 bits, which keeps the machine widths small.
- `install`: two threads meet at each cell in every order, while one of them fills
  it; four calls are an installation refused, repeated with other options, and two
  parses. `MaxCalls` counts the calls of all threads. Safety is proved for all.
- `corpus`: three stops leave every combination of half-written files a later run
  can meet; three edits change the script twice and the tools once, or the other
  way. Safety is proved for all.

`CHECK_DEADLOCK FALSE` stands in the runs whose system ends: a stream, a parse, a
lexed source and a scan are finished, and callers, edits and stops are used up. The
registry and the releases are checked for deadlock; a finished run of a workflow can be
dispatched again. `EveryCallReturns` of `install` is what rules a deadlock out there.

### Fairness

- `Clib`: weak fairness for each step of a goroutine outside an engine, since the Go
  scheduler preempts and runs every goroutine that can run; strong fairness for
  the acquisition of a lock, since `sync.Mutex` hands over to a waiter that has
  starved for a millisecond, and an RWMutex's unlocking writer lets the waiting
  readers in first. Callers owe nothing: no call need be made. `EveryCallReturns`
  has the assumption that parses come back in the property; `HungParseHarmsNoRegistry`
  goes without it.
- `Release`, `ReleaseJobs`: a maintainer who sees a half-finished release, or a draft,
  dispatches the workflow again (strong fairness of the dispatch, with `go` set or for the
  draft's tag), and no step of it fails for ever (strong fairness of each
  step's success). `DraftFinishes` has this in its premise for the draft's tag alone; other
  runs, and jobs for other tags, come in between as they please. That is the procedure the
  workflows describe; no scheduler provides it.
- `ZonInstall`: weak fairness of each thread's next step, the operating system's; a
  thread that waits at a cell is not enabled, so nothing is said of whom it wakes.
- `Corpus`: a run goes on until it ends or is stopped (weak fairness of its next step);
  the TypeScript suite is run again and again, and a server asked again and again
  sends the right file (strong fairness): what "Idempotent" is about.
- `ClibWalk`: the walk runs to its end once called (weak fairness of its next step).

## What is proved

For every value of the constants that meets the assumptions
(`ClibAssumption`, `VerdictAssumption`, `RenderAssumption`, `NamesAssumption`,
`QuotedAssumption`, `ReleaseAssumption`, `ParseAssumption`, `OptionsAssumption`,
`InstallAssumption`, `SharedAssumption`, `CorpusAssumption`, `WidthsAssumption`,
`PointsAssumption`, `SpellingAssumption`, `SourcesAssumption`, `BodiesAssumption`,
`CharactersAssumption`, `DigitsAssumption`, `NumeralsAssumption`, `HeapsAssumption`); TLC evaluates each on the
runs.

**The registry** (`ClibProofs`). `NeverTorn` is not inductive: that two threads are
not in one engine follows from its mutex being held by whoever is in its section
(`MutexHeld`). `EnginePrivate` needs what a load has in its hands to be new
(`LocalsOK`), and that no other thread holds it. `TypeOK` needs the counter
to be one ahead between its increment and the insertion (`IdAhead`), and that
needs the load to be alone (`RegistryHeld`: who holds the lock can be read off the
program counters). `IInv` is their conjunction; each part has a lemma for a step.
From it follow `TypeCorrect`, `NoParseTorn`, `EnginesPrivate` and `TableIsStable`.

**The refinement** (`ClibProofs`). `Refinement` states `Spec => Linearizable`. A
lemma per action shows that its step maps to a step of `ClibSpec` or to a stutter,
using `IInv`; the mapped variables are moved by general lemmas (`BarsMove`,
`SilentStep`, `EffectStep`, `InvokeStep`), so that each action's lemma only
says where its thread is before and after.

**The check of a parse result** (`ValueProofs`). `WithheldAsItShould`: for any heap of
finitely many containers. What has been walked to its end is in the least set of
containers closed under holding nothing but fit leaves and members of the set (`Tame`);
nothing in it contains itself (`TameNoCycle`). The invariant says that the path is of distinct
containers from the root, each held by the one before (`OnePath`), that what is behind the walk is tame but
for the containers it is in (`BehindIsTame`), and that a reason given is of the item the
walk stands at (`ReasonIsHere`). No such path is longer than there are views of containers
(`ViewsSuffice`, by the pigeonhole), so what it reaches `Reach` does too.

**The render** (`ValueProofs`). `NamesApart`: no two names become one field,
for any characters and any injective quoting that writes no U+0000; by cases of the
convention, from the cancellation of a common prefix. `FieldsIdentify`: every
field is one Zig takes. Of the machine: `TypeCorrect`, `StackWaits` (below the
innermost container every marker is one a completed value advances) and
`BareNumbersAreZon` (nothing is written as an integer but what the reader takes for one, and no number as
`-0`). The
invariant adds that what is held as digits is an integer: the text is written two
events after the digits were read.

**What the render writes** (`ValueProofs`). `TreeEventsAlone`, `TextIsTheTree` and
`RecordsAreWhole`, for any names, values and stream. The descent of `RenderTree` is a
function over the positions of a stream, each row of which looks at later rows
only (`RowLocal`), so that there is one (`FromExists`) and it obeys its rules (`ValueRule`,
`MembersRule`, `ItemsRule`). The render is a machine on a stack and a text (`May`,
`StackAfter`, `Writes`; `StartGoes` to `EndGoes` show that its actions are that), and the
invariant (`Traced`) is that it stands at the end of a run over the events it took
(`IsTrace`: the stack and the text before each event). What the descent reads at a
position then tells the fate of the run from there (`Fate`): it passes the end of
what was read with its text written, or the events ran out inside it, or one was refused. By
induction from the end of the stream this holds of every position (`AllRun`): a line of a
container and the lines after it (`LineRuns`), and the one place where the render
is behind, a `$big` and digits whose container may turn out to be an integer or a struct
(`DigitsRun`). For the records, what the descent gives for a stream that breaks off ends
with the end of a record (`RootSettles`), and what the run wrote past it holds none
(`RecordsCut`).

**Releases** (`ReleaseProofs`). `IInv` says of each run that what it knows is still
so: tags it fetched have not moved, npm has what it found there, and before it
tags, the version is on npm (`RunsKnow`). A step of one run keeps what another
knows because no tag and no published version ever changes (`Settled`). From it
`TypeCorrect`, `TagsNeverPart`, `TagsFollowNpm` and `RepairsShipTheTag`, for any history of
main and any number of overlapping runs; and for the jobs, with `JobsInv`, `CratesMatchTheTags`,
`ReleasesAreWhole` (of tags of either kind: a dispatch may name any, so that a
Release stands on a tag that is there because `--verify-tag` says so and no tag goes) and `JobsTypeCorrect`.

**What the parser accepts** (`ZonParseProofs`). `AcceptedAreDocuments`: an accepted source is a
document and the value handed back is the one it means; `DocumentsAreAccepted`: no
document is refused. `ZonDocument` builds documents size by size; `ValueIs` and `GroupIs`
turn that into what a value and a run of members are made of, whatever the
bound on sizes, and `StructIsValue` and `ThenIsGroup` into what they can be put together to.
For soundness the invariant (`SInv`) cuts what was read into what each rule of the stack has
consumed (`Levels`) and what is ahead, and says of each rule the part of a document that is
(`Part`): a pair its name, `=` and value, a container its brace and the run of members that its node
holds. A container grows on the right, so a run is its members and one more. For
completeness the invariant (`CInv`) says of every document that begins as read that what is
left of it is what each rule still expects (`Expect`), from the top down: a value,
the rest of a container with names its node has not, a brace. Here a run is cut from the left
(`GroupSplits`, by reassociating it), and two tokens of look ahead must settle
the alternate: `Looks` shows that what is ahead are the first two that are expected, and `StructBegins`
that a run of members never begins with a brace, which is why a comma and a brace is the end.
`~Duplicate` follows as no name expected is in the node.

**The parser's stack** (`ZonParseProofs`). `Inductive` and `RulesNest`: whatever is read, the rule
stack alternates as a document does, so that the one closing brace of ZON closes
the container it is in. `StackOK` says that each rule fits the one under it, which is
in its close state; a step changes the top, pushes, pops or replaces, and `Popped`,
`TopChanged` and `PushedOn` say what each leaves of the stack. What a step may push
depends on the alternate taken, and that is the first that matches (`FirstTaken`): one
lemma per rule and state goes through the alternates of the grammar file and of
jsonic. `ListIsMade` shows that no open list goes without a node of its own, the plugin's
alternates standing before jsonic's.

**Installation** (`InstallProofs`). Of the options, `ReadsAsTypeScript` (over the defaults the
engine merges in, Rust uses each field of a bag as TypeScript does, whatever kind of value it holds, but for
two tags: a container, as `DIVERGENCE.md` records, and a power of two that it misspells.
The numbers a bag holds are both zeros, NaN, Infinity, 1 and 2^89; which others it
misspells is the finding `number_key`) and `Lossless` (typed options survive the bag). Of the threads,
`NeverHalfInstalled` and `ParsesGoByWhatWasAsked`. The invariant says of each thread what its
instance has gone through by where the thread is, that the shared instance is in the
hands of whoever fills its cell, and whole when the cell is set; two threads never work
on one instance, so a step of one leaves the others' parts alone.

**The corpora** (`CorpusProofs`). `StampsAreTrue` and `PassesOnWholeCorpora`, for any suites,
edits and stops. The invariant adds what a run that is under way has made sure of:
no stamp of this script stands while the tree is removed and extracted, and it is put there when the
tree is whole (`TreeGrows`); what is judged was harvested from that tree (`CasesGrow`); and
a file of cases that can be read is of a whole tree (`WholeCases`).

**The lexer** (`ScalarsProofs`). `LexerPromise`, `NothingIsSwallowed` and
`DocCommentsStayBetween`, for a source of any length. `NextMoves` says of each step which of
six moves it makes: it skips, emits one or two tokens at the cursor, or answers `#BD`.
The promise is then what is `Owed` at the cursor: after a brace classed as a struct, the look
ahead from here still sees a field, because it skips what the matchers skip
(`SeesTheSame`, `IgnoredIsSkipped`). That no token is swallowed is a tally: the structural
characters behind the cursor that stand outside comments are as many as the structural
tokens made (`WholeInv`), so that no look ahead may move the cursor over one.

**Character literals** (`ScalarsProofs`). `RuntimesAgree`: each runtime is before its match,
between its two steps or at the `Verdict` of its source (`PortsInv`), and the verdicts
differ only where a port is recorded to differ or 32 bits are exceeded.

**Strings** (`ScalarsProofs`). `RunsDecodeWhole`: an accepted string is what its items
spell. `HeadAlike` shows that the code's `InvalidPrefixLen`, from a table of lead bytes, is the
maximal subpart of the standard, from the table of well-formed sequences; `DecodersAlike`
that the two decoders are then one. Of the scanner, the bytes held are those behind
some place where no run goes over, and up to there what the items spell is written
(`Held`); `CutSpells` shows that a spelling may be cut at such a place.

**Integers** (`NumberProofs`). `IntegersKeepTheirNumber`, for any digits to any power of two
and any widths of a limb and a chunk. A numeral that ends in a digit is the numeral before it
with more above (`NumeralAppend`), and what is above counts as many times as there are places
(`NumeralShift`): so a digit packed above the bits is the digit above the digits packed so
far (`DigitPacked`), a limb taken off leaves the rest above it (`LimbTaken`), and a pass of
long division turns the limbs into a chunk with the quotient above it (`DivisionIs`). The
invariant (`IntegerInv`) adds that the bits held and the limbs have as many binary places as the
digits packed, and that the bits held are fewer than `filled`, which is why the last
limb holds them all and why the code may put a digit above them with `|`.

**The number scanner** (`NumberProofs`). `NumbersAreLiterals`: what is scanned where a digit
leads is a literal, and every literal is scanned but `-0`, however long the source. The grammar
says of a text that it *has* a point and a mark that cut it into runs; `BodyIs` turns those into
the places where the integer part, the fraction and the exponent end (`Parts`). The invariant
(`NumberInv`) says of each stage that what was accepted is, part by part, all of its run
(`WholeAt`, `FractionAt`, `PowerAt`), and that the digits kept are that run's. As a literal has nothing
attached to it and asks for no fraction, every literal of the source then ends each of its parts
where the scanner did (`SameWhole`, `SameFraction`, `SamePower`): so a refusal leaves none
(`BadWhole`, `BadFraction`, `BadPower`, `NoLeadingZero`), and what is left to the end is one, the longest
(`ScannedIsLiteral`).

A function that recurs through a source is used by its rule, and `Forward` and
`Gather` show that the rule has a solution: from any place it goes on further ahead. What
holds of its values is proved from the end of the source to its beginning (`Backward`,
from the well-foundedness of the naturals, over a set instead of a predicate). `BackFrom`
is `Forward` for a rule that comes back from the end, as a numeral's and a long division's do.

**Only model-checked**: liveness, which is out of this prover's reach, as are ENABLED and
induction over data, so what the recursive walk of a value computes
(`StreamsTheValue` and `ReadsBack`) is compared by TLC on bounded inputs; `^`, which
the provers do not interpret, and with it the doubles of `ZonBigUint` and `ZonSpelling`
(`ExactOrSpelt`, `ScaledWhereAPowerHolds`, `SpeltButPowersOfTwo`).

## Findings

- `release_commit`: a run that publishes to npm and dies before it tags leaves
  nothing to repair from but HEAD. If main has moved on by then, the tags, the Go
  module and the crate name a commit npm never served (`release.yml:164` against
  the comment at `release.yml:158`).
- `lex_doc`: a doc comment between a dot and the name after it is skipped by the
  dot's matcher (`lex.rs:115`) and accepted.
- `hex_float_all`: the scale of a hexadecimal float is made a double before it
  meets the mantissa: `0x0p2000` is NaN, and `0x10p-1076` is 0 (`number.rs:142`).
- `number_key`: the second formatting of a number spelt as a key rounds to the nearest
  decimal, which below a power of two may be another number's (`number.rs:500`): `2^-44`
  and `2^89` among 46 of the 2046 normal powers of two.

These came up as well and have no run of their own:

- An escape such as `'\u{80000000}'` makes Go's `ParseInt` fail and its matcher give
  the literal up (`go/zon.go:889`), where the other runtimes answer `zon_char`;
  `DIVERGENCE.md` has no entry for it. `PortsAgreeIn32Bits` is the agreement that holds.
- `transduce.alc:26` says a repeated field is refused "before any pass streams it". The
  guard runs at the pair's close (`lib.rs:470`), when the pair's open pass and the passes
  of its value have been streamed. What holds is `StreamsTheValue`: of an *accepted*
  document the events are its value's.
- `fetch-zigzon.sh:154` takes the toolchain for there when its executable is: a run
  stopped while unpacking leaves one that every later run takes and none repairs, which
  is the exception in `Recovers`.
- A run stopped while it removes the old tree, and the script then put back to the text
  of the old stamp, leaves part of a tree with a stamp that matches. Edits in `Corpus`
  never go back.
- After a change of recipe the suites of Go and Rust grade what is there, which may be of
  the old one, or one file of each (`GradesWhatItShould` says what they do promise).
- Go marks an instance before the grammar is applied (`zon.go:104`), Rust after
  everything. `RefuseMarked`, a mutant of `ZonInstall`, is the order of Go.

## What the models leave out

- External, modelled from how this code uses them: the engine's rule machine and its
  fixed, space and comment matchers, jsonic's alternates, IEEE arithmetic,
  `unicode/utf8`, npm, the git remote, the orchestrator.
- `ZonLex` has no digits and no character literals, which `ZonNumber` and
  `ZonChar` have, and in a string no escape of bytes or code points and no control
  character but a tab and a line's end, which `ZonString` has; the refusal of
  a quoted name with U+0000 (`lex.rs:160`) is in neither; a malformed token is one token `#BD` whatever its code; rows,
  columns and messages are left out. `ZonParse` is run with `enumTag` set.
- `ZonNumber` treats `inf` and `nan` as a character each and has lowercase exponent
  letters only; the double of a decimal float is the standard library's.
- `ZonBigUint`: the decimal representation is a string of the library's. The scale of a hexadecimal
  float is made from the exponent cut at the cap, so a fraction of more digits than the
  cap leaves room for, with an exponent past the cap, is outside what `ScaledWhereAPowerHolds` is checked on.
- `ClibWalk`: the type in a `pathKey` (`core.go:323`), which tells a struct from its first
  field at the same address, as no container of a modelled heap is part of another's memory but a
  slice; which fields of a Go type are emitted, and a method that panics. A map
  or struct is the sequence of its keys and values.
- `Release`: build and tests are one failure before publishing. `gh release create`
  after a failed `view` is one step. One version is read for `ts/package.json` and
  `rs/Cargo.toml`, which the release checks for equality. Of `clib-release` a dispatch with `darwin_only`, which attaches to a
  Release that is there, is external, as the build it calls. A Release published by hand is on a tag that is there.
- `Translation`: a string's characters, a number's lexeme and the layout of the text are
  not told apart; its second reader is given tokens, not characters. The steps of
  alchemy's `transduce-tree` are modelled from the spec the part gives them.
- `ZonInstall`: Rust's. In Go and TypeScript the engine keeps the options in other places;
  what they read of a bag is in `ZonOptions` for TypeScript. The grammar text is a
  literal, and all that can go wrong with it once the hooks are registered is left
  out: that it does not parse, is no grammar document (`GrammarSpec::from_value`) or is not
  applied (`grammar_with_setting`, `lib.rs:572`). An instance such an error left behind would
  have hooks and no alternates, unmarked.
- `Corpus`: one suite at a time. Two at once share the part files and the tree
  (`fetch-zigzon.sh:182`), which nothing in the script prevents. The census of the
  documents found and the skip on a host without a toolchain are left out.
- `ZonSpelling`: the two formats of the standard library are what it documents of them.
- Not modelled: `port-deps`, whose logic is text; the Rust gate, the embedders and the
  checking workflows, which keep no state of interest; the translate modules, which
  are a manifest and embedded text.

## Plan

Done, in the order planned: what is concurrent or cannot be undone (registry,
releases), the renderer and the reader, the scalars, the installation, the corpora, the
translation that composes reader, transducer and render. What is left:

1. Proofs: the doubles of `ZonBigUint`, which need a power
   that the provers know; the locks' hand-over in `ZonInstall` as a refinement of one that installs at once.
2. Two suites at once in `Corpus`.
3. The installation in Go, with its mark set first.
4. `port-deps`, if its decisions prove to be more than text.
