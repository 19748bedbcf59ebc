# A TLA+ model of apktag

apktag puts a distribution channel name into a signed APK without breaking its signature, reads it,
removes it, and packs one artifact per channel from one base. This directory holds a TLA+ model of
its core (`internal/core`) and of its command line (`cmd/apktag`), the TLC runs that check it on small instances, and proofs checked by
TLAPS that hold for every value of the constants.

## The system

| Component | Code | State | Operations | What makes it correct |
|---|---|---|---|---|
| Signing Block | `signingblock.go` | the ordered ID-value pairs | find, insert and drop a channel pair, reassemble and pad | foreign pairs survive in order, one padding pair, page alignment, offset in range |
| ZIP comment | `v1.go` | the comment's bytes | parse, append and cut the V1 suffix | the comment before the suffix survives, length limits |
| Archive | `archive.go` | the parsed APK | load and validate | what is accepted is cut into parts without gap or overlap; what apktag writes, it loads again |
| Transform, read, detect | `transform.go`, `detect.go` | none: a function of the input file | `Pack`, `RemoveChannel`, `ReadChannelWithBlockID`, `Detect` | signatures keep verifying, what is packed is read, removal undoes packing, no channel hides another |
| Batch | `files.go` | goroutines, two channels, the output directory | `PackFiles`, `atomicWrite` | whole files only, results in order, nothing replaced without `Overwrite`, no litter, it returns |
| Path planning | `files.go` | none | `normalizeChannels`, pattern expansion | distinct outputs inside the directory, none of them the base |
| Command line | `cmd/apktag/main.go` | the files it is given | `put`, `get`, `remove` | in-place removal is atomic, an error changes nothing, a removed channel is back only where another removal replaced the file unseen, a repeated `put` does the same |
| Logger | `logger.go` | a global pointer, a mutex per logger | `SetLogger`, `CurrentLogger`, `LogPrintf` | whole lines, one report per batch, nobody waits forever |
| External | `apksig-go`, a signing tool | | verify, sign | the part the code relies on |

Interaction: `PackFiles` reads the base once, plans paths, and every worker calls `Pack` on the
same bytes and `atomicWrite` on its own path. `Pack` and `RemoveChannel` call `loadArchive`, choose a
mode from the pairs that are there, and call the block or the comment writer. `RemoveChannel` in
automatic mode calls both, the second on what the first wrote.

`runPut` turns its arguments into a channel list and an
output directory and calls `PackFiles`; `runRemove` calls `RemoveChannel` on a buffer and renames the result
over its destination with an `atomicWrite` of its own. Every worker logs through the logger of its batch.

Hard behaviour: *sequences of calls* on one APK, because three representations (VasDolly, Walle or
custom pair, V1 suffix) coexist and each operation looks at some of them; *boundaries* (page, 2^32 - 1,
65535, 32767); *goroutines* of one batch; *other batches* and *other processes* on the same files; *names* that collide,
escape or alias after cleaning; *failures* of
each file operation; *crashes*. The list with source lines is `hazards` in `PROJECT.json`.

## Modules

- `SeqFolds`: totals and selections over sequences, as folds that can be proved about.
- `SigningBlock` (`signingblock.go`): IDs, pairs and the operators on sequences of pairs.
- `ZipComment` (`v1.go`) extends it: comments as sequences of tokens.
- `Archive` (`archive.go`): the APK record, `Loads`, and the external `Verifies`.
- `Transform` (`transform.go`, `detect.go`): each call as a result operator (`PackError`,
  `RemoveError`, `ReadError`: the first check that fails, in the code's order) and the file it
  writes (`Packed`, `Removed`).
- `ApkChannel`: the state machine. `apk` is the current file, `prior` the file the last call was
  given, `last` the call. Actions `Pack`, `RemoveChannel` and the external `Sign`.
- `ChannelStore`: the abstract specification, one slot per channel ID and one for the comment. A
  call fills one empty slot, empties the slots it names or is refused truthfully.
  `ApkChannel!ImplementsStore` maps an APK to its slots.
- `PackFiles` (`files.go`): batches. `call[b]` holds the planning position, the feeder's next
  index, the result channel and the collector's variables of one call; `worker[w]` a worker's next step,
  job and temporary file; `disk` the outputs; `stable` what a crash may bring back.
- `Batch`: the abstract specification of a call of `PackFiles`: artifacts appear one by one, each whole and
  in one step, and the call is answered once, truthfully. `PackFiles!ImplementsBatch` maps the goroutines
  to it: an artifact counts as published from its rename on. `BatchSafety` is its safety part, which needs no
  fairness; `PackFiles!KeepsPromise` is the mapping onto that part alone.
- `PathPlan` (`files.go`): the channel list, the output pattern, `filepath.Clean`, `withinDir` and the checks
  of the planning loop, as operators over a file tree with directories and links.
- `PutCommand` (`main.go`, `files.go`) extends it: commands `put` one after the other. `tree` is the file
  tree, `call` the batch in progress with the jobs that have a temporary file (`open`) and those that ended,
  `history` how each command ended. `RefuseEarly` and `Plan` are `runPut` up to the workers, `OpenTemp`
  and `Publish` the two ends of `atomicWrite`.
- `RemoveCommand` (`main.go`): processes that run `remove` and `get` on shared paths. `process[c]` holds a
  process's next step, what it loaded and its temporary file, `disk` and `stable` are as in `PackFiles`. `Clears` and
  `Refused` are the branches of `RemoveChannel`, for each mode and for blocks with and without a signature.
- `Logger` (`logger.go`): the global pointer, a mutex per logger, the logger a batch settled, and where each
  worker is in the three parts of a job's report (`PackFiles`, `Pack`, `PackFiles`).
- `ZipLayout` (`archive.go`): offsets and lengths of a file, `Accepts` (the arithmetic of `loadArchive`), and
  the rewrites of block and comment as actions on them.
- `MCApkChannel`, `MCPackFiles`, `MCPutCommand`, `MCRemoveCommand`, `MCLogger`, `MCZipLayout`: constants and
  instances for TLC.
- `SeqFoldsProofs`, `ApkChannelProofs`, `ApkChannelStoreProofs`, `ZipLayoutProofs`, `PackFilesProofs`,
  `PutCommandProofs`, `RemoveCommandProofs`, `LoggerProofs`: lemmas and theorems.

### Abstractions

A pair's bytes are what their readers can tell of them: a raw channel, a channel in Walle's JSON, a
signature (the comment it was computed over), zeros, or opaque bytes. Names are model values with a
length; JSON escaping, which makes some Walle values longer, is left out. The padding's fill is not
stored, `BlockLen` computes it. A comment is a sequence of tokens: text, well-formed suffix, broken
bytes that end in the marker. Everything else `loadArchive` checks about the ZIP structure is the
Boolean `intact`; that a rewrite does not change it is what `ZipLayout!RewriteReloads` shows. `Sign` puts a fresh signed block over the comment as it is.

In `PackFiles` the outcome of `Pack` is the set `BadJobs`, fixed per batch because `Pack` is a
function of the base and the channel. Paths are abstract: `BatchAssumption` states what planning
establishes, one path per job and no more workers than jobs; `PathPlan!PathsRefused` is where the first comes
from. A step of the model is one operation another goroutine,
process or crash can observe: one `os.Stat`, hand-over, send, receive, file operation. Chmod,
Sync and Close are one step, as no one else sees the file in between. A crash may undo any rename
(the directory is never synced) and tears data that was not synced; afterwards, calls that had not
returned are made again.

In `PathPlan` a path is the sequence of its names, all from the set `Words`, and at most one link lies on a
path. What trimming makes of a raw channel and what a segment
of the pattern expands to are tables given by the instance, so the model has no characters; which names
hold a separator or a control character is a set. `Real` resolves links to directories, which the code does not. A channel
file is the list of its fields. Temporary files get the names in `TempNames`, which nothing else has
(`os.CreateTemp` picks a free one).
`PutCommand` leaves failing operations and concurrent batches to `PackFiles`: its jobs fail only where the tree
makes them. In `RemoveCommand` an APK is the set of slots that hold a channel (the store of
`ChannelStore`), whether its block is signed, and `went`, the removals its content has gone through, which only the
properties look at. A renamed file is never written again, so opening it settles what will be read.
`Logger` has one line per part of the report: each part is a run of `LogPrintf` calls with one logger.
In `ZipLayout` a file is its lengths; where `apksig-go` finds an EOCD, a header or a block is given by the layout.

## Runs

| Run | Question | Instance |
|---|---|---|
| `apk_channel` | Does every history of calls keep signatures and foreign metadata, reload, read back, remove, undo, follow `Detect` and implement the store? | 16 bases, 12 pack and 8 remove requests, re-signing |
| `pack_files` | Is a batch safe, does it always return, and does it keep the promise of `Batch`? | 4 jobs, 2 workers, 7 failing operations, 1 crash, foreign files |
| `pack_files_shared` | Do batches that share paths still find their artifacts and keep the safety part of the promise? | 2 batches of 2 jobs in opposite order, one overwrites and has a job that cannot be packed, renames and removals fail, 1 crash |
| `put_command` | Do two commands in a row keep the base, stay in their directory, give every channel its file, repeat, and fail only where paths obstruct each other? | 141 commands: lists with blanks, duplicates, dots and bad names or from a file; directories that exist, are linked, missing or a file; patterns that collide, nest, leave or come back |
| `remove_command` | Do removals and a `get` on one APK keep their word? | 2 removals in place (mode v2 and automatic), 1 that puts its result of a second APK in the same place (mode v1), 1 get, every content of both paths on a signed and an unsigned block, 2 sets of failing steps, one of them with kills, 1 crash |
| `logger` | Does each batch report to one logger, in whole lines, and never wait forever? | 2 batches (one with its own logger), 3 workers, 2 loggers, 2 calls of `SetLogger` |
| `zip_layout` | Is what `loadArchive` accepts tiled by its parts, and accepted when rewritten? | up to 2 entries over 10 byte offsets, every fault of the EOCD, rewrites of block and comment |
| `remove_breaks_signature`, `pack_unread`, `pack_sentinel`, `pack_files_race`, `put_base_alias` | Each refutes one statement of the documentation; see below | the smallest base, batch or command that shows it |

**Bounds.** `apk_channel` needs none on the number of calls: each representation takes one channel,
so the state space is finite. Lengths are the real ones (page 4096, comment 65535, V1 name 32767) except
`MaxOffset`, scaled to 2^16 - 1 so that a base can lie a page below it. The bases cover no block,
padding in the middle, last or absent, a block whose padding is down to its header (the next pair needs
a page), the offset at and below the limit, corrupt and duplicate Walle pairs, broken suffixes, bad
signatures alone and beside good ones, and files `loadArchive` rejects. In `pack_files` more jobs
than workers makes a worker take a second job; one crash reaches a retry over the artifacts of
the first attempt, and a second crash adds only repetition. Two `put` commands are the
fewest that meet what the first one left; with two workers for at most two channels both jobs are in flight
together. Lengths in `zip_layout` are scaled (an EOCD has 2 bytes, a header 1, the sentinel
is 9), which keeps every comparison at, below and above its border. `CHECK_DEADLOCK FALSE` is set
where the program stops once every call, command or report has ended, or a file is refused; that `PackFiles`
and `Logger` stop nowhere else is `Termination` and `ReportsEnd`.

**Fairness.** `PackFiles!Spec` has weak fairness for each goroutine: planning and collecting for every
call, `Work` for every worker. The Go scheduler runs every goroutine that can run and file operations
return. `Logger!Spec` has it for every batch and worker: a mutex
is free again after one write, and Go's `sync.Mutex` does not starve; no call of `SetLogger` is assumed.
Nothing is assumed about crashes or failures. `ApkChannel`, `PutCommand` and `RemoveCommand` need no fairness: callers
may stop and processes may be killed.

Each property of a passing run has a mutant: a definition changed as a plausible bug would change
it, with which TLC finds the property violated. They stand beside the definitions they replace.

## What the runs found

- `remove_breaks_signature`: automatic removal cuts a suffix that a V2 signature covers (`transform.go:206`).
- `pack_unread`: on a block without a signature automatic mode writes a suffix that the existing pair hides
  (`detect.go:36`).
- `pack_sentinel`: an offset of 0xffffffff is written and then rejected (`signingblock.go:261`).
- `pack_files_race`: two batches without `Overwrite` replace each other's artifact between `os.Stat` and
  `os.Rename` (`files.go:346`).
- `put_base_alias`: through a linked directory an overwriting batch replaces its base (`files.go:67`).

### Where the properties stop

The instances of the passing runs and the wording of some properties leave out cases in which the code
does something a reader may not expect. The models have these cases, most of them in the passing instances; the runs claim nothing of them.

- *Bases.* `SignedBases` leaves out a block without any signature, a V2 signature computed over a V1
  suffix, and a block that ends on the sentinel once it grows. On a block without a signature automatic removal
  reports success and keeps the pair (`transform.go:200`), though `docs/apktag-implementation-plan.md:102` promises that it
  clears pair and suffix. `RemovedIsGone` is therefore claimed of signed blocks only: as the invariant of
  `PackUnread.cfg`, whose base has no signature, TLC refutes it. `RemovedIsNotRead` covers both kinds of block and
  claims no more than what a removal clears.
- *Second channel.* `Pack` looks for the requested ID and for a suffix (`signingblock.go:115`), so a
  Walle or custom pair is added beside a VasDolly one; `ChannelStore` has a slot per ID for this reason.
- *Automatic V1.* Without `VerifyInput` a base without a V1 signature is packed (`detect.go:36`), and
  `Detect` reports the mode of a pair that does not verify (`detect.go:63`).
- *Which error.* With several failing channels the first result to arrive decides (`files.go:245`);
  `Batch` accepts any of them.
- *Nested paths.* A plan in which one artifact's path is a directory on the way to another's is accepted
  and fails half-way (`files.go:70`): the exception in `FailsOnlyObstructed`.
- *The directory itself.* `withinDir` accepts the output directory as a path, whose temporary file
  lies in the parent (`files.go:274`): the exception in `Confined`.
- *Names.* An artifact called like its channel, in the working directory, is read as the channel list by the
  next command (`main.go:314`): the exception in `RepeatSucceeds`. A channel given twice
  makes a directory of the exact output path (`main.go:103`), and lines of a channel file are split at commas (`main.go:326`).
- *Overlapping removals.* Two in-place removals that clear different slots and overlap lose an update: the
  later rename brings back what the other removed (`main.go:283`), and a removal with a destination overwrites
  whatever is there (`main.go:279`). No comment or test promises otherwise. `RemovedIsNotRead` says that this is the *only* way
  a removed channel comes back: the file printed is not made from the removal's result, and is made by a removal
  that had not seen it (`Overlooks`). Without this clause TLC finds the property violated.
- *Disabling the logger.* A batch that is running keeps its logger after `SetLogger(nil)` (`files.go:93`), which is
  what `OneReport` says.

## Proofs

`ApkChannelProofs`:

- `TypeCorrect`: `TypeOK` is inductive given `InputsAssumption`; the lemmas show that insertion,
  removal and reassembly stay within `Seq(Pair)`.
- `PackPreservesSignatures`: V1 mode is refused on a signed block, so a suffix is only written where
  no V2/V3 pair exists (`Verifies` is then false before as well), and `InsertChannel` keeps every
  signature pair (`InsertKeeps`), whose comment did not change.
- `PackedChannelIsRead`: assumes that bases with a block carry a V2 or V3 signature. Its inductive invariant,
  `BlocksAreSigned`, is needed because only there does automatic mode write the pair rather than a suffix
  that a pair may hide: `pack_unread` shows the theorem fails without it. The sentinel is excluded for
  the reason `pack_sentinel` shows.

`ApkChannelStoreProofs`, from the same lemmas and those of `SeqFoldsProofs`:

- `DetectionIsFollowed`: an inserted channel pair is no signature and hides none, so `Detection` is the
  same before and after, for any APK.
- `ForeignStaysForeign`: `InsertKeeps`, `DropKept` and `CommentKept` say what an insertion, a removal and a
  cut do to `Kept`, the subsequence of foreign elements, for blocks and comments of any length. No hypothesis.
- `WhatIsWrittenReloads`: a rewritten block has no repeated reserved pair, one padding and a length that is
  a multiple of the page (`FillAligns`). Excluded is only the sentinel, the finding of `pack_sentinel`.
- `RemovalLeavesNothing` and `CallsAreStoreCalls` assume `OrderlyBases`: a block is signed, and a comment has no
  suffix but at its end. Both are needed: automatic removal leaves the pair on a
  block without one, which refutes the first theorem on the base of `PackUnread.cfg`, and of two suffixes a removal cuts one (`v1.go:113`). Their invariant `Ordered` says
  the same of every later file. `CallsAreStoreCalls` is the
  step simulation behind `ImplementsStore`: every call, refused ones included, is a step of `ChannelStore`.
- `RemovalUndoesPacking` needs `JustPacked`: after a `Pack` the current file is `Packed` of the one before. It
  assumes signed bases, for the reason above, and a history that does not reach the sentinel, from which nothing
  can be removed.

`SeqFoldsProofs`: the library's induction principles take an operator as a parameter, which the provers
cannot instantiate. `Induct` states induction over a *set* of numbers instead, which they can: it follows from
`LeastNumber`, the well-foundedness of the numbers. From it come `Folds` (a fold has a sequence of partial results,
one per prefix) and, for the two folds of `SeqFolds`, what they return for every sequence: `TotalIs`,
`KeptRuns`, `KeptWithout`, `KeptAppend`. `FillAligns` and `RoundUpOrder` are the arithmetic of the page.

`ZipLayoutProofs`, for files of any lengths and any number of entries:

- `RewritesReload`: each of the comparisons of `loadArchive` is kept by each rewrite, up to the sentinel.
- `AcceptedFilesAreTiled`: that the directory's headers add up to its size (`DirectoryFilled`, a `Total`) places
  each header right behind the one before it, by induction over the entries.

`PackFilesProofs`, for any number of batches, jobs, workers, paths, failures and crashes:

- `TypeCorrect`, one step per action.
- `NothingIsTorn` from the invariant `WholeFiles`: a worker about to look or rename has a synced temporary
  file, and every visible or stable file is whole and synced.
- `SendersNeverWait` and `EveryArtifactInPlace` from the invariant `Book`: results in the channel plus
  workers at work never exceed the indexes handed out (`Room`), every index handed out is with a worker, in
  the channel, or with the collector (`Accounted`), and a closed channel means everyone has left
  (`Drained`). Neither property is inductive alone: a full channel or a lost index is
  reached from states that satisfy both.

What a batch leaves on disk, on the same instances:

- The invariant is `Sound`: beside `Book` it has `Once` (a job that was handed out is in exactly one place: with one worker,
  in the channel once, or with the collector) and `Upright` (a worker's job has failed before its rename or not
  at all).
- `KeepsBatchPromise`: `StepKinds` classifies every step as silent, the rename of one worker, the end of one call, or the
  crash, and each kind is a stutter or a step of `Batch`.
- `SuccessIsOnDisk` and `FailuresWriteNothing` need `Written` as well: without a crash every path an artifact was put in place at
  holds a whole APK of some job with that path, and nobody but a job's own worker writes that job's file.
- `NoTempOutlivesItsJob` from `Upright`: who has a temporary file will rename or remove it.
- `NothingReplaced` assumes `SeparatePaths`, that no two calls share a path. Its invariant `StillAbsent` says that
  what `StatOutput` did not find is still absent at the rename. The run `pack_files_race` refutes it
  without the hypothesis.

`PutCommandProofs`, for any tree, commands, channels, patterns and names, any number of commands and workers:

- The lemmas take the loops of `normalizeChannels` and of the pattern step by step (`Folds`), say what prefixes of
  paths are, and that below a directory without a link further down `Real` keeps prefixes and tells paths apart.
- `TypeCorrect` from `Inv`: a call's plan is the plan of its request, and every job handed out is in flight or
  counted once.
- `BaseSurvives` assumes `BaseByOneName`, that no link leads to a directory of the base. `put_base_alias`
  refutes it without.

The other four assume `LinksOutside`: no link below an output directory. Such a link defeats both the comparison
of planned paths and `withinDir`, as neither resolves links; the run has links to, not below, output directories.

- `ChannelsHaveFiles` and `StepsConfined` from `Placed`: what leads to an artifact written or in flight is
  a directory all the way, and an artifact that was published holds its channel.
- `FailuresExplained` from `Accounted`, a failure's reason at the moment it happens, and `KindsKept`: no step makes
  a directory of a file or a file of a directory, so a reason lasts until the command has ended.
- `RetriesSucceed` from `Replayed`: what a successful command laid out stays laid out, so the next one reads the same
  list, makes the same plan, passes the same checks, and none of its jobs meets an obstacle.

`RemoveCommandProofs`, for any number of processes, paths and slots, any failing steps, kills and crashes:

- `TypeCorrect`, and from it `NothingIsTorn` with `WholeFiles`: who is about to rename has a synced file, and
  everything visible or stable is whole and synced.
- `FailedRemovalIsHarmless` from `OnlyDoneWrote`: what is visible or stable went through removals that are done only,
  and what a process holds through those and, once transformed, its own.
- `NoLitter`: `Tidy` says that nothing was left behind, `TypeCorrect` that a process which ended has nothing; what
  may fail in a history never changes.
- `RemovedStaysRemoved`, for signed and unsigned blocks in every mode, from `OnlyDoneWrote`, `OwnSteps` (which steps
  belong to `get` and which to `remove`, and a removal that is done is in what it wrote) and `Traced`: a content holds no slot that
  a removal it went through clears, and what lies at the destination of a finished removal, or was opened there since, went
  through that removal or through one that overlooked it. Every step passes contents on, opens a file,
  transforms or reports (`ActionKinds`), and each of the four keeps the invariant.

`LoggerProofs`, for any number of loggers, batches and workers:

- `TypeCorrect`: nobody calls a nil logger; `Typed` adds that a worker with a line is not past its last one.
- `BatchReportsOnce` needs `Settled`: a worker with a line has a batch whose logger is set, and it is set once.
- `LinesStayWhole` from `Held` (who writes holds the mutex), if loggers have writers of their own.

Assumptions are the `ASSUME`s of the modules: names have a length, IDs of the caller are not reserved,
`Workers` is finite, paths within a batch are distinct, the base is in the tree, at most one link lies on
a path, names of temporary files are distinct and their own. TLC evaluates them in every run.

Only model-checked: liveness (`Termination`, `ReportsEnd`) and with it the fairness part of `ImplementsBatch`, which are
beyond the prover.

## Plan

1. Done: the APK state machine with its abstract store; batches with theirs; path planning and `put`; `remove`
   and `get`; the logger; the layout of a ZIP; the theorems above, one or more for every safety property of a
   passing run.
2. Next: a theorem that what `PathPlan` accepts satisfies `PackFiles!BatchAssumption`; weaker hypotheses on
   links than `LinksOutside`.

## Not modelled

- `Detect`'s `HasV1` goes by the names of META-INF entries, and its warnings are texts; neither decides what
  another operation does.
- The command line's parsing of flags, positional arguments and `parseBlockID`, and what `get -s` prints.
- What log lines say, the wording of errors, JSON text.
- The facade (`apktag.go`) forwards; `readChannelFile` has no caller.
- Links inside the output directory (`os.Rename` would replace one at the path of an artifact itself), case-insensitive file systems, and removal through a link to a file.
- The cryptography of `apksig-go` is the predicate `Verifies`, its ZIP and block parsers are what a layout
  or a record says.
