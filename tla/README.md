# memspec: models, checks and proofs

This directory holds a TLA+ development of memspec, the analyzer of `.memspec`
files: what its components do, as modules; small instances that TLC checks; and
theorems that TLAPS proves for every instance. `PROJECT.json` lists the
components, the runs, the mutants, the findings, the hazards and the theorems,
and maps every definition to the lines it models.

## The system

A `.memspec` file holds one slice: a name, `use` declarations of other files,
and blocks (cells, derived values, associations, events with steps,
post-failures, forbidden states, kill tests), and optionally a `revisions` block
that records how the slice came to be. The program is a library
(`crates/memspec-parser`) and a command line with a viewer (`crates/memspec-cli`).

| component | state it keeps | operations | what is hard | what makes it correct |
|---|---|---|---|---|
| lexer (`lexer.rs`) | position in the text, tokens, diagnostics | `tokenize` | offsets are bytes, characters are not | tokens in order, on the edges of characters; it ends |
| parser (`parser.rs`) | position in the tokens, open calls, diagnostics | `parse` | seven loops recover on their own | clean exactly on the language it is written for; the tree says what the text says; it ends |
| import loader (`analysis/loader.rs`) | working set, visited paths, chain of open imports | `load_with_imports`, `walk_imports_of` | diamonds, cycles, two names for one file, files that change or fail during the load | each file once, real cycles only, no import dropped in silence, and it returns |
| passes of one slice (`structural.rs`, `coherence.rs`, `symmetric_failure.rs`) | none: functions of the tree | `run` of each | the passes lean on each other's tables | no diagnostic, no fault |
| working set (`analysis.rs`, `cross_slice.rs`, `composition.rs`) | none | `analyze_working_set` | diagnostics of five sources merged by path, some taken back | a clean walk means every reference resolves |
| revisions (`analysis/revisions.rs`) | the chain in the file | `synthesize_revision_source`, `run` | a chain must replay; ops are coarser than edits | an accepted chain is the slice's history |
| synthesize-revision (`main.rs`) | the file, its temporary copy, what a power loss leaves | `synthesize_revision_cmd`, `atomic_write` | several runs, an author, failed I/O, kills, power losses | the file is whole, acknowledged revisions last |
| suggest (`analysis/suggest.rs`) | none; its caller loops | `suggest` | the loop must end | what it calls complete is |
| query (`analysis/query.rs`) | none | `list_ids`, `by_id`, `refs_to`, `gaps` | doubles the logic of the passes and of the viewer | agrees with the walk and with the viewer |
| viewer (`tui.rs`) | roots, working set, rows, cursors | keys, reload | lists that change under a cursor, files read twice, blocks found again by name | cursors on rows, a reload shows the disk, a row shows its block |
| rendering, diff, genesis report, schema (`render.rs`, `diff.rs`, `revisions.rs`, `main.rs`) | none | | | |

They interact by calls: `walk` loads the working set, runs the passes over each
file and the cross-slice passes over the whole, and turns diagnostics into an
exit code; `synthesize-revision` parses, replays, diffs, renders and walks what
it wrote; `suggest` runs the passes and answers with one gap; the viewer loads and
analyses like `walk`, and looks edges up like `query`. What is shared is
the file system: editors, watchers and other runs change files at any time.

## The modules

### ImportLoader

`load_with_imports` and `walk_imports_of`. A file has an identity; a path names
it, and a canonical path exists for each file. `files` is the working set in
discovery order, `visited` and `chain` are the code's sets, `stack` is the
recursion (the importer of each open call), `target` is the path just
canonicalised. One action per step between which somebody can save: reading the
root, canonicalising an import, then reporting a cycle, sharing a loaded file,
reading it, or failing to; and the return of a call, which pops the chain.
`Save` is an editor that writes, breaks or removes a file.

Run: `loader` has worlds of two kinds. Those without an editor take every import
graph of three files, each with up to two declarations (the second may repeat the
first's alias), each file present, missing or unreadable: three files are the
fewest with a diamond, a cycle that does not hold the root and a cycle through two
files. The others have two files and three paths, one of which is a second name,
and an editor that saves twice at any point: one save before a read and one between
two reads is what it takes to turn the graph under the walk. A root given by a
path that is not canonical is loaded twice if an import leads back to it
(`loader.rs:174`); `CanonicalFilesLoadedOnce` says so much.

Fairness: the loader is one thread of straight-line code; weak fairness of its
step says that it runs until it returns. Nothing is assumed of the editor.
CHECK_DEADLOCK is off: the load is over when it returned.

Proved, for every set of files, paths, sources and number of saves: every
invariant of the run. Only `Termination`, which is liveness, is left to TLC.

- In the first part of `WorkingSetWalk_proof`: `TypeCorrect`, `EachPathLoadedOnce`, `AliasMapsAcyclic`. The
  type invariant needs `Shape`, which ties `pc`, `stack` and `target`. For the cycles
  the inductive invariant says that the chain holds the files of the open calls
  and that an alias map leads from an open file only to files that are finished
  or next on the stack: what was finished never leads back to an open file.
- And of what a load leaves behind:
  - `EachFileLoadedOnce` from `CanonInv`: every key in use is a canonical path.
  - `EveryImportAccounted` from `ReportInv`: in a finished file every declaration has an
    outcome, in an open one every declaration up to the current one
    (`AllDeclared`), and an alias of a map is one of these (`AliasHas`).
  - `NoFalseCycle` from `CycleInv`: an open file reaches all that were opened after it
    (`OpenReach`), and the keys of a reported cycle are those of loaded files.
    Reachability is said with closed sets, as in the module, so that no step needs
    an induction over paths.
  - `LoadIsReachability` from `DiskInv`: while nobody saved, a loaded file holds what
    the disk holds, a use that was dealt with names what it resolves to, which is
    loaded unless it is unreadable, and whatever is loaded is reachable. When
    no call is open, the working set is closed, hence all of what is reachable.

### RevisionOps and RevisionChain

`RevisionOps` has what a slice projects to, `diff_projections`, and
`apply_revision_op` with replay, as operators on projections. `RevisionChain`
is the file over time: the author edits the slice (`Edit`), somebody edits the
revisions block by hand (`Tamper`: an entry dropped, doubled, unhooked, given an
unknown op; a second block), and `Synthesize` is `synthesize_revision_source`
with all its refusals. Hashes stand for what they hash; rendering and parsing a
block give back its entries.

Runs: `revision_chain` takes every pair of edits among 36 slices that differ by
what the diff distinguishes: cells with fields in both orders, events with steps
swapped, added, changed, fields between steps, imports, a renamed slice, a step outside
an event, an event named `walk`. Two edits suffice for the properties of a
step and for a chain of three entries. Among five of the slices the same run goes on
to a third edit and two interferences with the block. `revision_chain_refused` shows that
an ordinary slice cannot be given its first revision (finding).
No fairness: the properties are of safety, nobody must synthesize.

`Listing` holds the two ways this code makes one list from another: an iterator's
filter, and the walk over a `BTreeMap`, by rank and not by place.

Proved in `RevisionChain_proof`, for every set of slices, every alphabet and any number of
edits and interferences: every property of the run but `AppendsTheExpressible`. Of the constants it
assumes that a slice is a list of entries, up to three deep, with kinds and names from the alphabet,
and that the mark for a replay that failed is no slice.

- `ChainInv` is inductive. Beside the types it says that a chain nobody wrote in by hand
  has no errors under the name it started with (`Untouched`): replay begins with the current
  name of the slice, so after a renaming the chain is invalid although nothing in it changed,
  and the invariant must speak of the other name. And it says that an answer
  "appended" or "no_op" stands over a clean chain (`Answered`).
- That a chain without errors is a history (`ValidHistory`) rests on `ReplaySteps`: a replay
  that gets through took every entry from the declared result of the one before it to
  its own. It takes two facts about the ops: one that does not apply ends the replay for good
  (`HoleStays`), and none changes the name of the slice (`ApplyKeeps`).
- That a chain just written is read back as it was written takes `DiffKnown`: every op of
  a diff, at any depth, is one the parser of revisions knows.
- `Listing_proof` has what filter, order and flattening return. Lists are
  built by recursive functions. That such a function exists and has the values its
  definition says is shown with the least number for which it fails (`Least`, `Inductive`);
  only the induction theorems of the library, whose parameters are operators, cannot be used.

`AppendsTheExpressible` is model-checked only: it says that diff and replay are inverse where
`Expressible` holds, which is an induction over blocks inside blocks.

### SynthesizeFile and RevisionLog

`synthesize_revision_cmd` and `atomic_write`: read, answer, temporary file,
rename, directory sync, read-back and walk, in as many processes as `Proc`,
beside an author who saves, failing reads and writes, kills and power losses. A
file is a version of the slice with the versions its revisions record, a stamp
for the write and whether its data was synced. `durable` is what the path would
name after a power loss. `RevisionLog` is the promise: a slice its author edits
and a log that grows by the current version, only at its end.

Runs: `synthesize_file` has two processes and an author, three saves, two power losses
and six writes, with all kinds of versions (sound, malformed, flawed, refused): enough for two
runs to overlap with a save between them, one to be repeated, and a power loss after
each. The runs that have the file to themselves are in it as well: `shared` becomes true
when a run or a save falls into another run, and until then every step must be one of
`RevisionLog` (`ImplementsLog`). `synthesize_file_history` and `synthesize_file_bare` are
findings. The processes are interchangeable and used as a symmetry set in the first;
its one temporal property, `ImplementsLog`, is a formula `Init /\ [][A]_v` that names no process.

Proved in `SynthesizeFile_proof`, for every number of processes, versions, saves
and losses: types, `FileIsWhole`, `AcknowledgedIsDurable`, `NeverTwiceInARow`,
and, as long as no run shared the file, `ImplementsLog`. `WholeInv` adds that a temporary
file about to be renamed is synced. `StampInv` orders the stamps: what is
durable is never newer than what the path names, and a run past the directory
sync wrote nothing newer than what is durable. `RepeatInv` says of each copy a
run holds that it was not on record when read. `AloneInv` says that
the path still names what a lone run read until the run replaces it.

### SliceAnalysis and Authoring

`SliceAnalysis` has the three passes over the tree of one slice as operators,
one per function, and `gaps` of `query`. A slice is the sequence of its items;
each pass gives its errors in the order of the code. A block has an identifier for a
name, a number (`numbered`), or no name: the structural pass accepts a number
(`structural.rs:198`), and every other pass goes past the block as if it had no name.
A field of the slice itself is an item of kind `field`; with it a slice is not
empty for E0201, as in the code, so that one with nothing else is walk-complete. The symbol table keeps the
first of two blocks with one id, the index of rows and the tables of `query` the
last, as in the code. The cycle search is the code's loop with its stack and
colours: `Turn` is one turn of it, `Search` the loop until the stack is empty,
`Searched` the loop that starts it at every value that is still white.

Proved in `SliceAnalysis_proof`, for every slice: `CyclesAreFound` and
`AnalyzeFinds`. A slice is assumed to be a list of blocks whose ids are in `Order` (`IsSlice`,
`SliceAssumption`).

- `AnalyzeFinds` says of the three passes together what they report (codes of their own, never
  one of a parse error) and exactly when they report nothing, in terms of the slice and
  of its tables. Each function of the code has a lemma with its own share; `TableFinds`
  takes the order of a table away.
- `CyclesAreFound` is the correctness of the depth-first search. Its invariant (`SearchInv`)
  says that the grey values are those on the stack, each once, and that the stack is a path of the
  graph. While nothing was found, sources gone through are black, so what is black is
  closed and without a circle; what is found closes a circle of grey values.
  `TurnKeeps` shows that a turn keeps it and gets past one more source, or
  past the end of one value (`Progress`), so that the turns counted in `Search` are enough for
  the stack to be empty (`SearchIs`). In the end every value is black (`SearchedIs`).

`Authoring` puts the passes to use: `Ask` is `suggest`, and one action per template is the
author who pastes it where `insert_after` says (`PlaceFor`, and the end of the slice for a
missing field, `PasteField`), with ids that fit for its placeholders. When a pasted field left its gap
the author goes by the message and writes the field into the block (`FillField`); a missing name or
state, for which the template has only `<field>: <value>`, is always written by the
message (`FillByMessage`). `FreeId` and `Mend` are what the author does where a block in front has the id, and about
an error without a template. What a template says is what the code writes, field by field.

Runs: `authoring` starts from some 11,800 slices (68,510 states) in families that bring one kind of
reference each into all its states: two forbidden states and two kill tests that
name each other or not, up to three derived values over each other, events with two or
three steps that may fail or mutate, with and without rows. Each family also has blocks with a
number for a name, references written as a list where an identifier belongs, lists of other
things than identifiers, and blocks of another kind that have the id. What makes two blocks
conflict takes two of them, a cycle that a search can miss takes three.

`CompleteMeansSound` and `AlarmsAreReal` compare the passes with what a slice
must be, said without tables, colours or order (`Sound`), of the blocks that have identifiers
for names and the references that are identifiers. That complete means no more than that is the
finding of `authoring_letter`. `PasteFillsWhereItFits` says exactly when a pasted template fills its
gap, and so where the code falls short of "a template that fills it" (`suggest.rs:4`): the template of a
missing field never does where `suggest` wants it, that of a kill test or forbidden state does
unless a block in front of its place has its id.

`authoring_letter` takes three sentences of the repository by the letter and has TLC find one slice that
breaks all three (`OneSentenceIsTrue`).

Fairness: the author keeps going until suggest says walk-complete. This is weak
fairness of `Work`, written without its ENABLED, which TLC evaluates badly here;
`Work` is enabled in every state that is not walk-complete, and the deadlock
check, which is on, says so.

Proved in `Authoring_proof`: the four invariants of the run, `CompleteIsSound`, `NoFalseAlarm`,
`GapsAreTheWalks` and `KilledIsExecuted`, for whatever slice the author has reached and wherever
the author began.

- Each theorem has the form `Spec => [](IsSlice(slice) => P)`. `IsSlice` says no more than that the
  items are blocks with ids in `Order`, names and fields of the forms above; nothing is assumed of
  what blocks name, or how. That an edit keeps `IsSlice` is not proved, and cannot be for the ids:
  `Order` is a finite list, and the author makes new ids from any two. TLC checks it of every edit
  (`PasteFillsWhereItFits`).
- The invariant is that a report is about the slice as it is (`ReportIsFresh`): an edit throws it
  away, so "walk_complete" is an empty answer of the passes about this slice, and `AnalyzeFinds`
  says what that is.
- The rest carries that from places, tables and indices over to blocks and ids. In a slice
  that gives each id once a table holds all the blocks of its kind and a lookup finds the
  only block of an id (`TidyTables`, `TidyStepTables`, `TablesAre`). That the ids are given
  once is itself said by the passes with tables (`IdsAre`). Then one lemma for each conjunct of
  `Sound`: `FieldsAre`, `ReferencesAre`, `PairsAreMutual`, `CyclesAre`, `RowsAre`.
- `CompleteIsSound` asks for one row that shows both states, `NoFalseAlarm` for all:
  between the two lies the row the pass looks at (`RowOf`), the last one. It is one of the
  findings of `authoring_letter`.
- `KilledIsExecuted` is an equation: query's list of unkilled forbidden states is what it should
  be, of the blocks with identifiers for names.
- `GapsAreTheWalks` needs no unique ids for the rows, and does for the cells.

`PasteFillsWhereItFits` counts the errors of two slices and `Converges` is liveness: TLC checks them.

### WorkingSetWalk

`memspec walk` with imports: it extends `ImportLoader` and `SliceAnalysis`, runs
the one and then, in the action `Walk`, the passes on each loaded file, the
cross-slice references, the composition warnings, the suppression of W0270, the
replacement of a flood of E0003, and leaves the report by path; `ExitCode` is
what `main` makes of it. A file's text is its declarations (`disk`) and its
blocks and parse errors (`text`).

Run: `working_set` has two files, each with up to two declarations of either
file or a third, under one alias or two, and eight texts: a cell used by nobody, used
locally, referred to through either alias, from a step, a name both files have,
an empty slice, a parse error, a text that is no memspec. Two files suffice for
a reference, its failed or cyclic import and a repeated alias; the third lets two
aliases lead to different places. The properties are said of the disk:
`Whole` follows paths, not the loader's maps. CHECK_DEADLOCK is off: the
walk is over when it reported. No fairness: that the load returns is `Termination`
of `ImportLoader`, and `Walk` is enabled after it.

Proved in `WorkingSetWalk_proof`, behind the proofs about the loader on which it rests, for every
import graph and all contents of the files: every property of the run. `WalkAssumption` says that paths are canonical and that what a file
holds is what the parser makes of a text (`IsSlice`, parse errors from `ParseClass`, references
that are a pair of an alias and an id). `WalkInv` takes `DiskInv` and `CycleInv`
from the loader and adds what they leave out (`RootParts`: the root was read, and an
import called unreadable is) and that a report is that of the finished load.

- `ReportedIs` and `ExitIs` carry the exit code back to the files: through the merge by path, the
  replacement by E0006 and the suppression of W0270, 2 means that some file has a parse error and 0 that
  each file is `IsClean`. `AnalyzeFinds` keeps the passes from reporting a
  code that counts as a parse error.
- `EdgesAre`: when every declaration was followed, the alias maps are the imports on the disk and the
  working set is what the root reaches. This and `ResolvedAcyclic` give `CleanIsWhole`.
- `WholeIsClean` needs that a false E0401 is impossible. `CycleOnDisk` takes the files that lead to
  the importer through followed imports, which `CyclesAreReal` describes with closed sets:
  each of them imports another, so the disk has a cycle.
- `RemovedIsWhole`: without one declaration the root reaches no more than before, and
  a reference that did not go through it leads where it led.

### Lexer and Parser

`tokenize` and `parse`. A text is a sequence of bytes, each of the class the lexer
tells apart; `lead` and `cont` are the two bytes of a character that is not
ASCII. `Lexer` has one action per branch of `scan_one` and one per turn of the loops
in trivia, comments and literals; `pos` is the byte offset, and the one slice that can
split a character makes the lexer abort, as the code does.
`Parser` extends it and goes over the tokens. The recursion is a `stack` of calls, each
with what it has parsed so far; `doing` is the loop the innermost one is in,
`result` what the last call returned. Each turn of a loop is an action, with the
diagnostic it gives and the tokens it skips.

Run: `parsing` has every text of up to three loose bytes, literals and comments of up to
four behind their openers, and, for each loop of the parser, every sequence of up to
three to five of the tokens it tells apart behind a prefix that leads there. Every branch
and every recovery needs at most two tokens of a loop; the rest of the bound is
for what follows a recovery. `MCParser` has the grammar, as sets of positions at which a
phrase may end, and the text of a tree: the parser is compared with both. `TreeIsTheText` is the
promise of recovery (what is skipped is left out, never put elsewhere). The deadlock check is
on: a parse ends in `Stopped`, and nowhere else.

`CleanIffGrammatical` says that the parser reports something exactly if the text is no sentence of the
language it reads. That is not the documented one. The grammar takes the forms on which the two differ as a
parameter: `AsDocumented` has the qualified keys of `grammar-v0.md:104` (in maps and in
the block form of a map) and the placeholders of `grammar-v0.md:236`, `AsRead` the empty argument
lists, trailing separators and mixed separators that `parser.rs:588` and `637` exclude. For
each of these forms `Departures` has a text on which the property checks that the parser's
answer is not the document's, so that no departure is there for convenience. The kinds of blocks, the fields
they may have and whether a name may be a number are not the parser's matter: it reads every
kind alike, and `SliceAnalysis` has what the passes make of it. `<unchanged-from-pre-event>` of
`grammar-v0.md` fails in the lexer already, at its dashes.

`lexer_aborts` is a finding: short literals with escapes, `NeverAborts` violated.

Fairness: weak fairness of `Next`; lexer and parser are loops of one thread.

Proved in `Parser_proof`, for every text: `EveryTokenInOrder`,
`OneWayToAbort` (a text aborts only right behind a backslash before a character that is not ASCII: the
finding has one cause), `EveryTurnAdvances`. The invariant `LexInv` says of each phase of
the lexer that it stands on the edge of a character, that the token it scans began at an
earlier one, and that the tokens so far end before it; `ParsePlaces` that the parser
stands at a token and that the last one is the end of the text. `Advances` is about a
measure: 20 for each byte still to be read, 9 for each token and 8 for each open
call pay for all turns, with less for each loop that has fewer turns left before
it must consume something. It is the reason for `Termination`; that the measure cannot
fall for ever, and `Termination` itself, is left to TLC. So are
`CleanIffGrammatical` and `TreeIsTheText`, whose definitions are recursive.

### SliceGraph, SliceViewer and SlicePanes

`SliceGraph` has what the viewer and `query` read off a slice, one operator per function:
the rows of the Slots pane, the block a row leads to, the edges out of a block, and
`list_ids`, `by_id` and `refs_to`. Four of them walk the tree, each in its own way.

`SliceViewer` is the viewer: one action per key, and a reload in two steps, `Load` and
`Rebuild`, because a reload reads the files twice: `load_with_imports` for what is shown
and `compute_line_col` for the line of each diagnostic. `Save` is an editor at any
point. What a text holds and what the analysis says of it are constants: the
viewer only carries them.

`SlicePanes` composes the two: each text holds a slice (`SliceOf`), and its properties relate the
row under the cursor, the panes on the right and the answers of `query`. `PanesAssumption`
says what ties the constants of the viewer to slices: the rows of a text are
`SlotRows` of its slice, blocks nest twice, a qualified reference has one alias, and
the analysis of a working set holds the diagnostics of the passes over each file that
is there (`analysis.rs:67`-`80`). `MCSliceViewer` gives the constants their values.

Run: `viewer` has a directory with two listed files and one file that is imported but not
listed, each of them there or not, holding one of three texts, and one save; it starts
with a directory, a listed file, a file of another extension, and a file whose directory
cannot be read. The three texts have blocks of one name and kind, of one name and
different kinds, a step named like a block, a step twice, nested blocks, imports in use
and out of use. Two listed files are enough for a selection to move, one save for a
list that grows, shrinks or vanishes and for a text that changes between the two
reads. CHECK_DEADLOCK is off: the viewer ends with `Quit`. No fairness: nobody
must press a key.

`WrongDetailIsReported` and `QueryAgreesWithThePanes` are about what the panes on the right
show of the row under the cursor, in every state the keys lead to, also while the files
have changed under the screen. The second leaves no edge out: of those the Graph pane draws, it says which
`refs_to` leads back on and which it loses, namely all references with an alias and all keys of nested
blocks, against "Every site that references an ID" (`README.md:63`) and "every site in the slice" (`tui.rs:809`).
That sentence is refuted in `authoring_letter`.

Proved in `SliceViewer_proof`, for all files, texts, orders and analyses that
`ViewerAssumption` admits: `CursorsAlwaysFit` and `ScreenShowsTheDisk`. `ViewInv` says that the
cursor of the Slices pane is on the root, also between the steps of a reload;
`FreshInv` that what was loaded is still on the disk while nobody saved. That the
list of diagnostics loses none takes the lemmas on the sort: its order is total,
so the ranks of the rows are different, and there are as many ranks as rows.

Proved there too, for all slices: `WrongDetailsAreReported` and `QueryAgrees`. `PanesInv`
strengthens `ViewInv`: between reloads the rows on the screen are those of the slice that was
loaded, and each diagnostic of the analysis of what was loaded is in the Diagnostics
pane. Neither property follows without it: a key that moves the cursor relies on rows and
diagnostics that an earlier reload left. TLC checked it before it was proved. The rest of the argument is about slices:

- The block a row is led back to is the first of that name. If that is not the
  row's block, the row's block is a second one, and the pass on duplicates reports
  it, at the block or at the step (`TwinsAreSaid`, `DuplicatesAreSaid`); by `PanesInv` the
  report is on the screen.
- Rows and ids are both lists made of lists, one per kind, block and step. The
  lemmas on mapped and flattened lists at the end of `Listing_proof` carry the
  comparison from the steps of a block up to the whole slice. They rest on `Grows`: a set
  that holds the empty list, and with a list each one longer by an element, holds all lists.
- The edges out and the edges in are compared field by field: both are the fields
  of the block that name `x`, whatever kind of value they hold (`BothWays`). What is left of the edges out has an
  alias or is to a nested key (`OutgoingAre`).

## Findings

Each is a run that TLC finds violated; `PROJECT.json` quotes the sentence of the
repository it disagrees with.

- `revision_chain_refused`: ordinary slices cannot be given their first
  revision, because a replay puts blocks in another order (`revisions.rs:1459`).
- `synthesize_file_history`: a run overwrites what was saved after it read
  (`main.rs:401`).
- `synthesize_file_bare`: with a bare file name the directory sync fails after
  the rename (`main.rs:453`).
- `authoring_letter`, one slice that is walk-complete for three reasons at once:
  - a number passes for a name (`structural.rs:198`), and every later pass goes past such a
    block, so that a forbidden state with a number for a name may name a kill test that is nowhere, and
    `query --gaps` does not list it;
  - of two rows for one step only the last is checked (`symmetric_failure.rs:33`);
  - `query --refs-to` goes past the keys of nested blocks (`query.rs:186`) and past qualified
    references (`query.rs:212`).
- `lexer_aborts`: a backslash before a character that is not ASCII makes the lexer slice inside that
  character and panic (`lexer.rs:267`).

Said by a property that holds, because the property names each case:

- the eight departures of the parser from its documents (`CleanIffGrammatical`, `Departures`);
- a missing field's template comes with `insert_after` the end of the slice, where it
  fills nothing (`suggest.rs:177`), and a `kill_test` that names a block of another kind is told to declare a second
  block of that name, where the gap stays (`suggest.rs:192`): `PasteFillsWhereItFits`.

Seen while modelling, without a run of their own:

- E0402 says that no `use` declaration introduces the alias; one may, whose import
  failed or closes a cycle (`cross_slice.rs:219`, `grammar-v0.md:128`).
- `walk` of a root that cannot be read exits with 3; `README.md:54` has 4 for I/O
  errors (`main.rs:820`). No command exits with 1 for an incomplete walk.
- W0274 is reported for two declarations of one alias that name different files
  (`composition.rs:75`).
- A body of a forbidden state is suggested before missing fields, the reverse of
  the documented order (`suggest.rs:154`, `suggest.rs:10`).
- A `kill_test` that is a list satisfies every pass and is not reported as unkilled
  (`query.rs:412`).
- After the write, `synthesize-revision` reports any semantic error of the slice as a
  failed replay check (`main.rs:417`).
- A character that is not ASCII comes out of a triple-quoted string as one character per
  byte (`lexer.rs:221`).
- Recovery in a block skips any token, a closing brace among them (`parser.rs:342`): one
  missing value can close a block late. A `use` behind the declarations is reported, and
  recovery takes the token after its clause along.
- `query --by-id` answers with a step of an earlier event before a block of that id
  (`query.rs:113`).
- Viewer: a file given by its bare name has the empty path as its parent, where no
  siblings are found (`tui.rs:221`); the mark of an imported file compares paths as given
  with canonical ones (`tui.rs:525`); of two blocks with one id the details of the first are
  shown for both; a block of another kind with the name of a cell hides it, and nothing
  reports it (`tui.rs:913`); lines are counted in a text read after the analysed one
  (`tui.rs:1484`); a reload never looks for new siblings.
- `diff` takes the highest `walk N` block for a clause without `walk_added` (`diff.rs:165`);
  its comment speaks of the slice's top-level `walk:` (`diff.rs:6`).

## What is assumed and what is left out

- `RevisionChain`, `Authoring`, `WorkingSetWalk` and `SlicePanes` take what a parsed text says as
  given; `Parser` says how it is parsed. They are not composed: the properties of
  the passes are about trees.
- Hashes do not collide; rendering a revisions block and parsing it give back its entries.
- The file system: a rename replaces the name at once; after a power loss the
  directory has the name it had at the last directory sync or any later one.
- The viewer's paths are canonical, and each of the two reads of a reload is one step.
- Stack depth and memory are unbounded.

Not modelled:

- rendering (`render.rs`) and the JSON schema: layout, without state;
- `diff`: one pass that sorts clauses by four numbers, without state and used by
  nothing else;
- the genesis report: it prints what synthesis would start from;
- the command line: parsing of arguments and of answers, without state. The commands
  with effects (`walk`, `synthesize-revision`, `view`) have modules;
- the infos and the warnings W0271 and W0272, which no decision depends on;
- `InMemoryLoader`, a double for tests.

Liveness, ENABLED and what needs an induction over trees is checked by TLC only. That is
`Termination` (loader, parser), `Converges`, `AppendsTheExpressible` and the two properties
of `MCParser`. So is `PasteFillsWhereItFits`, and with it
that the author's edits keep a slice one (`IsSlice`).

## Plan

Done: `ImportLoader`, `RevisionOps` and `RevisionChain`, `SynthesizeFile` over
`RevisionLog`, `SliceAnalysis` and `Authoring`, `WorkingSetWalk`, `Lexer` and `Parser`,
`SliceGraph`, `SliceViewer` and `SlicePanes`; all safety invariants of the loader, of the
synthesis of a file, of the revision chain, of the lexer, and of the viewer with its panes and
`query` over any slices, as theorems; the answers of the passes, the cycle search among them,
for every slice, what suggest and query may conclude from them, and what a walk over a file
and its imports means for the disk.

Left, in this order:

1. `PasteFillsWhereItFits` as a theorem, template by template: it takes the places of the
   diagnostics, which `AnalyzeFinds` leaves out, and what an inserted block does to the tables.
2. `WalkDiff`: `diff` between two walks of one slice, against a definition by sets.
3. `AppendsTheExpressible` as a theorem: diff and replay of one block first, then of a slice.
