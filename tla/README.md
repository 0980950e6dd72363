# Verification of vgi-iso20022

TLA+ models of the DuckDB worker in this repository that reads SWIFT MT and
ISO 20022 (MX) payment messages, the TLC runs that check them on small
instances, and proofs for TLAPS of what holds for every instance.
`PROJECT.json` lists the components, the runs, the source lines of every
definition (`map`), at least one seeded bug for each property (`mutants`), the hazards
the properties are aimed at, and the disagreements between code and
documentation that the runs exhibit (`findings`).

## 1. The system

A worker process serves SQL functions to an engine (DuckDB) over an SDK.  Paths
below are relative to `src/crates/`: `core` is `iso20022-core/src`, `worker` is
`iso20022-worker/src`.

| Component | State it keeps | Operations | Modelled in |
|---|---|---|---|
| File scan: `core/cursor.rs`, `worker/table/scan.rs`, `table/common.rs` | a cursor (paths, index), carried between batches as an opaque resume token | resolve the argument, next batch, encode and restore a token | `FileGlobScan`, `ScanContract` |
| Exploders (`*_lines`, `*_entries`): `worker/table_in_out/` | row, counts, child and index lists of one `process` call | read the cells, parse each, repeat the parents, take | `Exploder` |
| Scalar functions: `worker/scalar/` | the column builders of one call, `ok` and the error list of `validate` | a loop over the rows of a batch | `ScalarFunctions` |
| Tables and their columns: `worker/cols.rs`, `table/*.rs` | none | a schema, builders and a row, put together by position | `Cols`, `MtColumns`, `MxColumns`, `ChildColumns`, `TableBuild` |
| Message argument: `worker/arrow_io.rs` | none | a cell is text, a path, or NULL | `Exploder`, `ScalarFunctions`, `FileGlobScan` |
| Detection: `core/sniff.rs` | none | the type of a message, from its text | `Validation` (MT), `MxSniff` |
| MT text: `core/sniff.rs`, `core/mt/block.rs` | none | find a block, make fields of its lines | `MtText` |
| MT940: `core/mt/mt940.rs` | none; `parse_61` has a position in a line | cut a file into statements, join lines and narratives, read a line, a balance | `Mt940Statements`, `StatementLine`, `Narrative`, `FieldValues`, `MtColumns` |
| MT942: `core/mt/mt942.rs` | none | the same, with floor limits, summaries and the moment of the report | `InterimReport`, `FieldValues`, `MtColumns` |
| MT103, MT202: `core/mt/mt103.rs`, `mt202.rs`, `field.rs`, `uetr.rs` | none | one lookup by tag per column; parties, amounts, markers | `MtColumns`, `FieldValues`, `Validation` |
| Dates, money: `core/dates.rs`, `core/money.rs`, `worker/cols.rs` | none | six- and four-digit dates; decimals to `DECIMAL(38,9)` | `StatementDates`, `Money` |
| XML tree: `core/mx/dom.rs` | stack, root and pending text of `parse` | one branch per event | `XmlDom` |
| camt readers: `core/mx/camt*.rs` | none | statements, entries, ordinals | `Camt`, `MxMessages`, `MxColumns`, `ChildColumns` |
| pacs and pain readers: `core/mx/` | none | one row per transaction, one lookup by path per column | `MxMessages`, `MxColumns` |
| Validation: `core/validate.rs`, `worker/scalar/validate.rs` | the remainder of the IBAN fold | rules for each type | `Validation`, `FieldRules`, `MxMessages`, `IbanCheck`, `FieldValues` |
| Character sets: `core/charset.rs` | none | sanitize | `Narrative`, `FieldValues` |
| Catalog, metadata, start: `worker/main.rs`, `meta.rs` | none | constants, registration | not modelled |

How they interact.  The engine calls `next_batch` on a scan, gets a batch with
the token of the cursor behind it, and may drop the producer and continue on
another one.  A batch's `raw` column is passed by the user to an exploder, which
parses the text again: `mt940_lines((SELECT raw FROM mt940_read(...)))`.  The
validator reads the same text as the readers, with lookups of its own; the type
it goes by is found in the text before anything is parsed.  The engine puts the
column of a scalar function beside its rows, and the columns of a table under its
schema, by position.  All
parsers are pure: nothing is shared between calls but the file system, which
other processes change at any time.

What is hard to test here:

* a scan suspended, lost and resumed at any point while files come and go;
* an exploder whose parents and children are two lists built in step, while the
  files named by its cells change;
* three parsers that must agree on where a statement begins: the reader, the
  writer of `raw`, and the reader of `raw`;
* subfields without separators, some optional, in a line cut off anywhere;
* years that are not written, amounts at the limits of a mantissa;
* character data that an XML reader delivers in pieces, and documents that stop;
* rules and readers that choose among repeated tags and elements separately, and
  a type that is found by searching the text for words;
* values without separators, sliced by bytes, in fields that are cut off or hold
  characters of several bytes;
* schemas, builders and rows written down apart, up to thirty columns long, of
  which only the types are ever compared;
* builders fed in one loop, of which one gets a value per row and one a list.

`PROJECT.json` lists these as hazards, line by line.

## 2. Modules

`FileGlobScan` stands on `ScanContract` (its abstract specification), every
other group is a chain of `EXTENDS`:

    MtText <- Mt940Statements <- InterimReport <- MCMt940
    MtText, MxSniff, (FieldRules <- MxMessages) <- Validation <- MCValidation
    XmlDom <- Camt <- MCCamt
    StatementDates, Money, Narrative <- StatementLine <- MCStatementLine
    IbanCheck, StatementDates <- FieldValues <- MCFieldValues
    (Exploder <- ScalarFunctions), (Cols <- MtColumns, MxColumns, ChildColumns <- TableBuild) <- MCWorker
    FileGlobScan <- MCFileGlobScan
    FileGlobScan <- FileGlobScanProofs
    XmlDom <- XmlDomProofs
    SequenceLemmas <- WorkerProofs, FieldValueProofs, StatementLineProofs, Mt940Proofs,
                      ValidationProofs, XmlDomProofs

`Selection` has the one helper that several modules share: `Keep`, what a loop with
a condition keeps of a sequence.  `SequenceLemmas` has no model in it, only facts
that the proofs cite: about recursive functions and sequences and, in its second
part, about the loops of `MtText`, for the readers of statements and for the
validator, which both stand on it.

An operator whose comment begins with "Bug:" is no part of a model.  It is what
a plausible mistake would make of the definition after it; with it in place TLC
finds the property it is listed with violated.

### FileGlobScan and ScanContract

`arg`, `fs`, `stable` are the host: what the argument names, the state of each
file, and the files that nothing happened to since the query was bound.
`producer` is the `FileGlobCursor`; `token`, `delivered` and `done` are what the
engine holds.  `OpenScan` is `on_bind` and `producer`, `Resume` is `producer`
followed by `restore_resume`, one `NextBatchTurn` is one turn of the loop of
`GlobProducer::next_batch` (the cursor moves before the file is looked at, as in
`scan.rs:80-84`), `NextBatchEnd` its end, and `Receive` the return of the call
with `encode_resume`.  `LoseWorker` drops the producer between two turns or
before its result arrives; `ChangeFile` changes a file.  A token may be damaged
when `TokensIntact` is FALSE: `restore` then leaves the fresh cursor in place.
The rows of a file are abstracted to whether there are any.

`ScanContract` is what `cursor.rs:1-8` and the argument's documentation promise:
batches in sorted order, each at most once, and no end before all that is due.
An entry is due when it has rows and has not been touched.

### Exploder

One call of `PerMessageTable::process`, statement by statement: `ReadCell` for
each cell (a file may change between two), `BuildMessage` for each message,
`TakeRow` for each parent, `Emit`.  `Children` gives the number of children of a
message; which ones they are is the subject of `Mt940Statements` and `Camt`.

### ScalarFunctions

The loops of `mt_type`, `mt103_field`, `mt103_amount` and `validate`, one turn an
action (`AppendValue`, `AppendVerdict`), with the builders as variables and
`MessageBytes` of `Exploder` for the cell.  `validate` has two: `values` is `ok`,
`items` with `ends` the list builder.  `RawTag` is `field::raw_tag`; what else is
computed from a message is a constant of the module.

### Cols, MtColumns, MxColumns, ChildColumns, TableBuild

A message is the set of places in it that hold something, a value the place it
was read from.  A schema is a sequence of name, Arrow type and the places that
the column's comment names; builders are a sequence of type and field of the row;
a row is the record that the parser makes, with its fallbacks.  `TableBuild` runs
`build` and `finish` on them: columns meet the schema by position, and a
difference in type is the panic of `scan.rs:115`.  The comments of the schemas are
what the columns are compared with.  Which messages there are is a constant,
`MessagesOf`; `TableAssumption` only says that they hold places of their table, and
no part of a field without the field.

`MCWorker` puts exploders, scalar functions and tables into one worker, which
serves one of them at a time.

### MtText, Mt940Statements, InterimReport

A file is a sequence of lines `[kind, id]`, the kind being a tag or one of the
brackets, the trailer, or prose.  `Block` is `sniff::block`, `Block4Bodies` the
loop of `block4_bodies` with its restart after the first closing brace
(`BlockFrom`), `ParseBody` folds continuation lines and drops lines before the
first tag (`TakeLine`).  On top are `SplitStatements` (`Groups`, cut where `TakeField`
cuts), `ParseLinesFrom` and `SerializeFields`, and the rows of `mt940_read`,
`mt942_read` (`SetLimits`) and of both `*_lines` functions.  Each loop is a
recursive function of the number of turns.  The only action
writes one more line, so the properties are about every file within the bounds,
cut-off ones among them.  The mark of a floor limit is part of the kind.

### StatementLine, StatementDates, Money, Narrative

`parse_61`, one action per subfield: `pos` is the code's `pos`, `head` the
characters that arrived, and each guard is the code's test of what stands there.
`written` is the line a bank meant, `Encode` how it is written (external).  After
the last subfield, `JoinNarrative` is `apply_86` and `BuildRow` the column
`dec_col`.  `Money` models `rust_decimal` by a mantissa and a scale, with what
`rescale` does at the limits (external, from how the code uses it): the
mantissa is `MaxMantissa`, eight bits in the run instead of ninety-six, and the
scales are small.  `Narrative` treats a marker code as one piece; its `Split` and
`Money`'s `Pow10` are recursive functions.  `LineAssumption` says which lines a bank
writes, as SWIFT has them: a funds code is one letter, a type four characters that
begin with N, an amount has a digit, and the customer's reference no slashes that
could be taken for the separator.

### XmlDom, Camt

`XmlDom` is `dom::parse` with an action per event kind of quick-xml.  `ReadEvent`
delivers what that reader could: ends only of open elements, character data in
pieces, an error or the end anywhere.  `Camt` reads the tree as `camt053.rs` and
`camt.rs` do, both for the rows of a document and for the entries of a row's
`raw`.  What the tree should be is read off the events alone: `Level` counts how
deep an event stands, `BeginOf` finds the beginning of the element that an event
closes, and `Trees` is a recursive function that gives each closed element the
texts and the trees one level below it.

### FieldValues

The parsers that take a value apart by counting bytes: balances (:60F: and
like it), :32A:, :33B:, :34F:, :90D:, :13D:, :28C:, the transaction type of :61:,
the markers of :72:, and parties.  `Get` is `str::get`; a slice that Rust would
refuse is `Panic`.  `FieldInit` writes a field as `Encode` says (external) and has
it arrive whole, cut off anywhere, or with a wide character in the place of one,
as `from_utf8_lossy` makes of a byte that is not UTF-8.  `ReadField` parses it, and
of a party takes the account that `validate.rs` would check; `CheckIban` runs the
fold of `IbanCheck` on it.

### Validation, MxSniff, FieldRules, MxMessages, IbanCheck

`Validation` has a message (its headers, then its lines or elements piece by
piece), the errors of `validate` and the rows of the readers side by side.  A
value is the class that a rule tells apart: a good or a bad IBAN, a currency and
its decimals.  The IBAN check itself is `IbanCheck`: an action per character
folded, with the number it stands for kept as history.  `MxSniff` finds the type
of a document in the text before its body: brackets, the word Document, names of
elements and namespaces, in the order in which `mx_type` looks for them.

## 3. Runs

Every run finishes within two minutes with two workers.

| Run | Question | Instance and bounds |
|---|---|---|
| `scan` | Does a scan drop, repeat or reorder anything, does it implement its contract, and does it end? | three files and a text, one name that looks like a message, two file changes and two losses at any moment |
| `statements` | Do `raw`, entries, narratives and limits stay with their statement or report? | files of 5 lines of nine statement kinds, of 7 lines of kinds that only frame, of 5 lines of report kinds |
| `explode` | Does every row get its own children and values, once, and every column what its name says? | batches of up to 3 cells and calls of up to 2 rows, messages with 0, 1 and 2 children and errors, a file that keeps changing; every table with messages that hold two places or none, or all but two or none |
| `documents` | Is the tree that of the first element, and are its statements and entries those of the document? | documents of 11 tag events; of 6 events of any kind |
| `line` | Is a line read and stored as written, and never sliced beyond its end? | every combination of subfields, cut off anywhere; dates at both ends of the window; amounts around the limits; narratives of 5 pieces |
| `validate` | Does "ok" mean that the readers return sound rows, and is a sound message ok? | messages of up to 6 pieces, MT and MX, good and bad values; comments, declarations and business headers before a body |
| `fields` | Are fields read as meant, cut-off ones not misread, parties complete and checked, and slips in an IBAN found? | dates at both ends of the window, zones on both sides of UTC, parties of up to 3 lines, :72: of up to 4 tokens; every cut and every wide character; IBANs of the least length and one more |
| `trailing_narrative`, `second_statement`, `angle_markers`, `big_amount`, `byte_slices` | What a comment of the repository says, and the code does not do | the instance of the run it is named beside |

Why the bounds are enough.  `scan`: two losses and two changes are a loss of the
resumed scan and a file that comes and goes again, and three files are one
before, one at and one after the cursor; a run has about everything twice.
`statements`: a block nested in a block with an entry on either side takes seven
lines; two statements with a line and a narrative each take five.  `explode`:
three rows with none, one and two children put every count beside every other; a
list builder that is off by one is so at the second row.  A column reads one
place, with one or two fallbacks: messages with next to nothing and with next to
everything tell every two places apart and reach every fallback.
`documents`: eleven tags are two statements with an entry each, or one with two
details.  `line`: the parts of a line that can be mistaken for each other stand
next to each other, and all neighbours are combined; the families keep apart
what does not interact.  `validate`: an MT103 needs five fields, the sixth is the
one that disagrees.  `fields`: a value has at most six parts, and every cut and
every damaged byte of each is tried; counts beyond `MaxInt32`, 99 in the run, stand
for those beyond 2^31; four tokens are a marker, what follows it, and another.  The
IBAN fold carries one number from character to character, and two further
characters pass through all of its branches; the theorem covers every length.

### Properties

* `InScanOrder`, `NoFileDropped`, `TokenAdvances`: the two halves of "without
  dropping or duplicating rows", and that the list of files is settled by the
  first batch.  `ImplementsContract` is both, step by step.  `ScanEnds`: a query
  that keeps asking is told the end.
* `UnderItsParent`, `EachChildOnce`, `NeverFails`: the join of children to
  parents.  `ValuesOfTheirRows`, `VerdictOfItsErrors`, `FailsOnTagsOnly`: the same
  of the columns of scalar functions, and that no message fails a query.
* `LayoutsMatch`, `ColumnsShowTheirPlaces`, `CompanionsTogether`: no layout panic;
  under each column what its comment names and all of it; amount, mark and date,
  or name, account and bank, from one element.
* `RawRoundTrips`, `ReportsRoundTrip`: parsing `raw` gives the row again, and its
  lines are those that were counted.  `EntriesInPlace`, `NarrativeOfItsLine`,
  `BareStreamComplete`, `LimitsOfItsReport`: nothing under a neighbour, nothing
  twice, nothing lost.
* `InLine`, `ReadAsWritten`, `DatesSurvive`, `JoinsAreExact`,
  `RoundsToNearest`, `QuestionMarksSplit`, `NothingShifts`: a line from the bank
  to the column.
* `WholeFieldsRead`, `CutOffInventsNothing`, `AsciiNeverPanics`,
  `PartyLosesNothing`, `EndToEndOfItsMarker`: a field from the sender to its
  columns; `ReadAccountIsChecked`: the account that is shown is the one validated.
* `RootIsFirstTree` compares the tree with a definition over the events, also
  after the root was closed; `StatementsOfDocument` and `ExplodesToEveryEntry` compare rows and entries with the elements of the
  document.
* `SoundIsOk`, `OkIsReadSound`: the validator against the readers.
* `ChecksTheNumber`, `SlipsAreFound`: the IBAN check.

### What the code does otherwise than it says

* A `:86:` after `:62F:` replaces the narrative of the last line
  (`mt940.rs:41` speaks of the following one).
* A wide character in a `:13D:` or in the type of a `:61:` panics (`mt942.rs:140`,
  `mt940.rs:273`; `core/lib.rs:5-7` says that no entry point ever does).
* `raw` of a second statement explodes to the entries of the first
  (`camt.rs:49`).
* `>NN` markers are sanitized away before they are looked for (`mt940.rs:291`).
* An amount that fills the mantissa before it reaches nine decimals is stored too
  small (`money.rs:71`).

Not runs of their own, but visible in the models: a truncated XML document gives
nothing but what was closed at its top (`dom.rs`); a balance that is cut off in its
date has a piece of it for its currency (`mt940.rs:89`); a first line of a party
that begins with a blank and a slash is an account to the validator and a line of
the name to the reader (`validate.rs:292`, `field.rs`); a name of eight or eleven
capitals is a party's BIC (`field.rs:39`); the word Document in the text of a
business header, or a comment with a `>` and then a `<` in it, hides the body from
`mx_type`, which then goes by the first namespace, and with a header's namespace
first no rules but that of the group header are applied (`sniff.rs:138`); a text block nested in another
block is read twice (`mt940.rs:358`; `EntriesInPlace` is stated of files whose
blocks do not nest); a message whose block 4 is not closed is read as a whole and
may be valid (`block.rs:24`, README.md:112 speaks of balanced blocks); a name
found by a glob that begins like a message is not opened (`scan.rs:82`).

## 4. Fairness

`FileGlobScan` alone has liveness.  The worker's loop is plain sequential code
that runs until it returns (`WF` of the two turns), and `ScanEnds` is about a
query that keeps asking (`WF` of the engine's calls); losses and file changes
need not happen, and are bounded.  The other modules are run to completion by
their caller and state safety only; their runs do not check for deadlock where
a finished call or a file at its bound has nothing more to do.  `Exploder` does
check for deadlock: a call always returns and another may follow.

## 5. Proofs

For every value of the constants that satisfies the named assumptions:

| Module | Theorems | Inductive invariant |
|---|---|---|
| `FileGlobScanProofs` | `TypeCorrect`, `NothingDropped`, `OrderedAtMostOnce`, `TokenMonotone`, `Refinement` | `OrderInv`: what was delivered lies before the cursor in one ascending list. `CoverInv`: every entry that is due is in the list and lies ahead of the cursor, or is the reply, or was delivered |
| `WorkerProofs`, of `Exploder` | `TypeCorrect`, `QueryNeverFails`, `JoinedToParent`, `ChildrenExact` | `Inv`: how far each list has come at each point, that the children of a message fill a stretch of `all` that begins where the last one ended, and that the repeated rows agree with `all` as far as they go |
| `WorkerProofs`, of `ScalarFunctions` | `ScalarInvariant`, `ValuesAreOwn`, `VerdictIsOwn`, `OnlyTagsFail` | `ScalarInv`: texts, values and ends are as long as rows were done; `ends` ascends, and the stretch of `items` between two of them is the errors of that row's text |
| `WorkerProofs`, of `TableBuild` | `ColumnsFitSchemas`, `CellsUnderTheirColumns`, `CompanionsOfOneElement` | `TableInv`: behind the parser the rows are those of the message, behind the builders the columns are the fields of the rows |
| `FieldValueProofs`, of `FieldValues` | `OneByteTextsNeverPanic`, `PartyKeepsEveryLine`, `ReadAccountsAreChecked`, `EndToEndIsOfAMarker`, `WholeFieldsAreRead`, `CutOffFieldsInventNothing` | `ReadInv`: the text is one of bytes, and what was read is what its parser returns of it. `CheckInv`: the fold is on the account that was read, and has come as far as `Folded` says |
| `FieldValueProofs`, of `IbanCheck` | `FoldTypes`, `FoldChecksTheNumber`, `FoldDoesNotOverflow`, `SlipsAreAlwaysFound` | `Folded`: the remainder is that of the number so far |
| `StatementLineProofs` | `NoSliceOutOfRange`, `DatesRoundTrip`, `EntryStaysNear`, `LinesRoundTrip`, `ExactJoins`, `NearestStored`, `MarkersBecomePairs`, `NarrativeStaysInPlace` | `LineInv`: the position is in the line, the dates read so far are dates, and of a whole line are the written ones (`Reading`). `FieldsInv`: what is left of a whole line at each stage begins with the subfield that is read next (`Ahead`), and what was read is what was written (`Behind`) |
| `Mt940Proofs` | `TextIsNumbered`, `StatementsRoundTrip`, `NarrativesAreOwn`, `EntriesStayInPlace`, `BareStreamsAreComplete`, `ReportsAreReadAgain`, `LimitsAreOwn` | `TextOk`: each line has its number, so that two equal lines are one. All else is about what the parsers make of such a text |
| `XmlDomProofs` | `FirstTreeReturned` | `XmlInv`: no more is closed than is open (`Nested`); `root` is the tree of the first element closed at the top; and while the loop runs, `stack` is `OpenElements` and `run` is `PendingRun`, what the events read so far make of them (`StateOf`) |
| `ValidationProofs` | `MessagesOccur`, `OkMeansSound`, `SoundMeansOk` | `MessageOk`: the headers are of a message that occurs, and it is written in lines or elements that messages of its type have. All else compares rules and readers on such a message |

Why they are needed.  None of the properties is inductive.  That a batch is not
repeated depends on where the cursor is relative to everything delivered, and,
once the producer is gone, on the token being that cursor; so the invariants
speak of the token and the cursor together.  `UnderItsParent` holds of the
output only because of the lists it is taken from.  `DatesSurvive` is about a
line that is done; the invariant follows the characters of the two dates
through `Encode`: the lemmas say at which positions their digits stand, that
tens and units make the number again, and that the year that is inferred for an
entry date up to five months away is the one it was written in.
`ReadAsWritten` needs to know, at each stage, what is left of the line and not only
what was read of it: `Ahead` names the suffix of `Encode` that `Rest` is, and one
lemma per subfield says that what stands there tells it from the next one: no mark
of one letter begins one of two, no amount begins with a letter or is followed by a
digit or a separator, and the first `//` is the one between the references.  The
digits of an amount make the number again turn by turn of `NumberOf`, since the
quotient by ten times a power is the quotient by the power, divided by ten.
`VerdictOfItsErrors` is about stretches of one long list; that an earlier stretch
is not disturbed by what is appended is the invariant's part about `items`.

The parsers are loops over fields, lines and characters.  A loop is a recursive
function of the number of turns; `SequenceLemmas` derives from the well-ordering of
the numbers (`LeastElement`) that such a function exists (`Recursion`) and that
what holds before the first turn and passes through each holds at the end
(`PrefixInduction`), so that each proof has one lemma per loop that says what a
turn keeps.  For `Mt940Statements` these are: a body that `BlockFrom` finds is a
stretch of the text, and the next one begins behind its first closing brace; the
fields of a body are stretches of it that begin at its tags; the groups are runs
of fields that follow each other and join up to all of them.  From the three
together a row has a stretch of the file to itself, which is `EntriesInPlace` and
`BareStreamComplete`, and a narrative lies in its own row behind its own line.
Writing the heads and tails of a group and reading them back gives the same
group, which is what `StatementsRoundTrip` and `ReportsAreReadAgain` need.
`LimitsAreOwn` follows the two limits through the fields by position.

`WholeFieldsAreRead` goes kind by kind: where each part of a field begins, that the
slice there is the part, and that its digits make the number they were written
from.  A field that is cut off is a whole one up to where it ends, so that a slice
either is the part that was written or does not exist; `CutOffFieldsInventNothing`
rests on that.  Both assume what `EncodeAssumption` says of the fields that a
sender writes.  `SlipsAreAlwaysFound` compares two numbers that differ in one
place or in two neighbouring ones: their difference is a small number times a power
of ten, and 97 divides neither.

`ExactJoins` and `NearestStored` are about powers of ten.  An amount that fits is
stored as its digits times the power that its column has beyond its own scale, so
that two columns are equal exactly when the cross products are; one with too many
decimals becomes a quotient whose double distance from the amount is at most the
divisor.  Both hold for every mantissa, scale and limit that `MoneyAssumption`
allows, those of the code among them.  For the narratives, the parts that `Split` makes
are the stretches between the markers and the ends (`Splits`), so that those that
begin with a code are those behind the elements of `Marked`, in order, and two ascending
lists of the same set are the same (`SameList`).  Sanitizing changes neither the
question marks nor the codes, hence `MarkersBecomePairs`.

`OkIsReadSound` and `SoundIsOk` compare the rules of a type with the reader of that
type.  Of an MX document the argument has two halves.  The type: in the text of a
whole document `mx_type` finds the id of its body, since every turn of its loop passes
over one comment or instruction, there are at least as many turns as brackets, and what
is left then begins with the body's tag (`ElementOfWhole`); where the word Document
stands before its tag the first namespace decides (`TypeOfWhole`), and that is the
header's in the one case that `HeaderHidesBody` names.  The rules: for each
type, that without an error the rows are sound, and that sound rows have no error unless
something is wrong that no row shows (`Pacs008Agrees`, `Pacs002HasRow`, `CamtAgrees`, `Pain001Agrees`, put together by
`MxAgrees`), where the rows of pain.001 are those of several payments joined to one
list, and every transaction is in one of them.  Of an MT message `MtErrorsAre` says that
there is no error exactly when the fields are good, whatever was folded into them; the
rows of the readers are then field by field sound (`Passed103`, `Passed202`,
`Passed940`), for statements by way of the one group that has the one `:20:`.
`SoundMeansOk` goes the other way, from lines to the fields that they become.  Assumed is
which messages occur (`ValidationAssumption`): `IsWhole` says what text a document that
is whole has in front of its body, `IsLine` and `IsElement` which values a line or an
element of a type can have; `FieldRulesAssumption` bounds the decimals of a currency.

`RootIsFirstTree` says nothing of the stack, from which the root will come; `XmlInv` says
what every open element has gathered.  The level changes by at most one from event to event,
so that the k-th open element is the one that begins at the last `Start` at its level,
and everything since then lies inside it (`OpenFound`, `OpenIsOpen`).  What is read off
earlier events, levels, runs, texts and trees, stays when an event more comes
(`SameLevel` to `SameTrees`), so that an event changes only what ends with it: one more piece of a
run (`DataRun`), or the run flushed to the last open element and a text, an element
begun or an element closed behind it (`FlushIs`, `FlushedStep`, `JustBegun`, `CloseStep`).  An
element that is closed is by then the tree that `TreeOf` makes of it (`EndTree`), and it
becomes the root if it is the first at the top (`FirstTreeStep`).  Assumed is of
`XmlDomAssumption` only that texts are sequences of characters; `Nesting` and the bounds
play no part.

The tables are ten lists of up to thirty columns, compared column by column:
`TablesLaid` says that the builders make what the schema names, and `RowsShow` that
each field of the row that the parser makes is looked up where the column's comment
says, a fallback behind what it falls back from.  From these, `ColumnsFit` makes
`Finish` end in a batch, which is the step that `TableInv` needs.  `TableAssumption` is
used for one thing only, that NULL is no place.

`EntryStaysNear` (an entry date is never more than six months from its value date)
and `FoldDoesNotOverflow` (a turn of the fold stays below 10000) are proved and not
repeated in a run.

`OrderedAtMostOnce`, `TokenMonotone` and `Refinement` assume `TokensIntact`: a
damaged token starts the scan over, and then files do come twice.
`NothingDropped` does not assume it.  `Refinement` shows that each initial state
is one of the contract and each step a step of it or none (the contract has no
fairness).  The other assumptions are of the constants' types, beside their
declarations.

Checked by TLC only: liveness (`ScanEnds`) and anything with ENABLED; of `Camt`
`StatementsOfDocument` and `ExplodesToEveryEntry`, whose search through the tree
(`PreOrder`) is a RECURSIVE operator over trees of any depth, out of the prover's reach.
Both rest on the tree being the document's, which is proved.  What the code does otherwise than it says
(section 3) is no theorem; because of the mantissa that fills up, `ExactJoins` is
stated of amounts that fit.

## 6. What is not modelled

Engine, SDK and transports are the environment: their calls, losses and
repetitions are actions.  Catalog, descriptions, examples and registration
(`main.rs`, `meta.rs`, the `mod.rs` files) are constants and calls at start; a
model of them would restate them.  The tables of currencies, charge codes and BIC
shapes are data.  A UETR is the class that the rules tell apart, and its
sub-block is not looked for by characters.  The dates and times of MX messages are
parsed by chrono, amounts by rust_decimal: of the second the limits are modelled,
of the first nothing.  Attributes of XML elements are places in `MxColumns`, and
not events of `XmlDom`.  How the values of a repeated field are joined to one text
is not modelled, only which ones are.  The bytes of a resume token are not
modelled; one that arrives damaged is.

## 7. Plan

Written so far, in the order of importance: (A) `FileGlobScan` with its contract
and proofs, (B) `MtText` with `Mt940Statements` and `InterimReport` and
proofs, (C) `Exploder` with proofs, (D) `XmlDom` with proofs and `Camt`, (E) `StatementLine` and its parts
with proofs, (F) `Validation` with `MxMessages` and proofs, (G) `IbanCheck` with proofs, (H)
`ScalarFunctions` with proofs, (I) `FieldValues` with proofs, (J) `TableBuild` and
the columns with proofs, (K) `MxSniff`.

Next: the searches of `Camt` as functions over the places of a tree instead of
RECURSIVE operators, to prove `StatementsOfDocument` from `FirstTreeReturned`.
