# A verification development for ragopt

ragopt runs paired evaluations of a retrieval-augmented system: an incumbent
and one candidate answer the same cases, everything they do is kept as evidence
in a run directory, the evidence is compared, a policy decides on promotion and
a report is published for a person to act on. What the program is *for* is that
the evidence can be trusted after anything short of a broken disk: interrupted
runs are resumed, never redone or patched up; a complete run is whole; an input
or a cell that was acknowledged stays. This directory holds TLA+ models of the
code that makes those promises, TLC configurations that check them on small
instances, and proofs that TLAPS checks for every instance.

## 1. Inventory

### Components

| component | state it keeps | operations | modelled by |
|---|---|---|---|
| run store `pkg/runstore` | a run directory: `manifest.json`, `config.json`, `status.json`, `inputs/` with its manifest, `results/`; a `Run` in memory (mutex, input list, status, terminal flag) | `Create`, `Resume` (with recovery of `inputs/`), `Open`, `CopyInput`, `WriteJSON/WriteBytes`, `AppendJSONL`, `Complete`, `Fail` | `RunStore`, abstractly `Custody`; `AppendJSONL` in `EvalRunner` |
| evaluation runner `pkg/eval` | the schedule (case x repeat x arm), completed cells, chain digest; `results/cells.jsonl`, `results/native/...`, `results/summary.json` | `Run`, `Resume`, `execute`, `executeCell`, custody of native artifacts, the guard against rewritten evidence, `finalizeRun`, `failRun` | `EvalRunner`, abstractly `EvidenceLog`; `prepareRequest` in `Binding` |
| artifact audit `eval/artifacts.go` | none: reads a run back | `LoadArtifactRun` | its verdict on cells and artifacts is `JournalValid` in `EvalRunner` |
| input binding `eval/bind.go` | none of its own | copy suite, policy and candidates into `inputs/`, repeatable after an interruption | `Binding` over `Custody` |
| suites, cells, outcomes | immutable values | parse, validate, digest | a cell is its position in the schedule, an outcome its artifact |
| candidates `pkg/candidate` | immutable snapshots | load, validate exactly one mutation, digest | `Candidate`, file by file in `Binding` |
| policy `pkg/policy` | immutable document | load, validate | its range checks are `PolicyOK` in `Gate`; a loaded policy is a value in `Promotion` |
| comparison `pkg/compare` | none | pair cells, deltas, aggregates per group | `Comparison`, with the ints of `FixedWidth` |
| gate `pkg/gate` | none | ordered phases over comparison and policy | `Gate` |
| report building `report/render.go` | none | reload the run, hold comparison and decision against it, plan and Markdown | `Promotion`; wording and layout are not modelled |
| report publication `report/write.go` | temporaries and backups beside two destinations | `Write`: stage, back up, publish, sync, discard; roll back on error | `ReportWrite` |
| human review `pkg/review` | a queue, its unblinding key and a file of annotations, kept by the product | `BuildArtifacts`, `LoadAnnotations`, `Aggregate` | `Review`, `Aggregate` |
| path confinement | none | lexical and symlink checks | not modelled: names are model values |
| command line `cmd/ragopt` | none | flags, calls of the above in sequence | the report command in `Promotion` |

### How they interact

`eval.Run` creates a run through the run store, binds its inputs with
`CopyInput`, then for each cell of the schedule calls a caller-supplied arm,
takes its artifact into custody and appends one chained line with
`AppendJSONL`; at the end it audits the directory with `LoadArtifactRun`, writes
the summary and completes the run. `eval.Resume` is the same loop after
recovery and validation of what is there. `compare`, `gate` and `report.Build`
read a run, complete or not, and may do so while it grows; `report.Write` writes outside it. Components share state
only through the directory: there are no goroutines in the packages, and no lock
between processes (`run.go:31-34` makes a single writer the caller's duty).
Concurrency is therefore between the process that evaluates and those that
read, between the process and the people who edit a candidate bundle or append
annotations while it reads them, and between the process and what interrupts
it: the caller's context, the death of the process, failing system calls, power,
and arms that touch files.

### What is hard

* a publication is several system calls; each may fail, and the process may die
  or the power go between any two of them;
* whether an error happened before or after the commit point (a rename) decides
  what memory must say (`writeFailureWasCommitted`);
* input copies are a transaction over three names with recovery on resume;
* cell order, completed set and chain digest live in memory and are rebuilt from
  the journal, whose last line may be torn or unsynced;
* cancellation is checked at many points, some before and some after durable
  effects, and must leave the run resumable, never failed;
* arms are foreign code running with access to the directory;
* the report command loads a run four times, in several files each time, while
  the run may still change;
* a report replaces two files with no primitive that replaces two files;
* a bundle is read file by file and copied file by file, over several sessions,
  while its author may edit it: only digests tell that the parts belong together;
* annotations are read while they are written, of a queue that may have been
  rebuilt since.

`PROJECT.json` lists each of these as a hazard at its line.

### What makes each component correct

* run store: committed inputs survive and are settled by recovery; acknowledged
  inputs are durable; a terminal status is final; complete implies readable;
  memory agrees with the directory.
* runner: the journal is a prefix of the schedule; each cell in it has its
  artifact; complete means all cells; interruptions never fail a run and only
  delay it; the run directory is an append-only log.
* report publication: all or nothing on return; an acknowledged report is not
  lost before a newer one is in place.
* comparison, gate: every cell paired once; missing data never helps a
  candidate; the decision is that of the first failing phase.
* binding: what the arms run against is what the files were at one moment, in
  every session the same; interruptions never fail it.
* candidates: the two sides differ in the bytes of one declared asset; system,
  dimensions, names, media types and locks of the assets are the same.
* review: the queue tells nothing of variants; a score counts once and for the
  identity its reviewer was shown, which leaves the payload out; no aggregate favours a variant or wraps.

## 2. Common conventions

*Two images of the disk.* What processes read back is one thing, what storage
would hold after a loss of power another. `RunStore` keeps `disk` and `safe`,
`EvalRunner` keeps pairs (`journal`/`synced`, `native`/`safeNative`,
`status`/`safeStatus`), `ReportWrite` keeps for each output the images since the
last sync of its directory. Only `Sync` calls of the code move the second
towards the first. A power loss gives back, entry by entry and independently,
something old or new; the one thing assumed is that a rename does not lose the
file it moves. The bytes of a file are not modelled where the code syncs them
before it renames the file into place: an entry that survives has its bytes.

*Interruptions.* `Cancel` ends the caller's context; the code sees it only where
it looks. `Crash` ends the process and keeps the page cache. A `Fault` is a
system call that returns an error; each step that makes calls has a failing
twin. All three are bounded by constants and counted in `budget`.

*Mutants.* A definition under a comment that starts with "Mutant" is a plausible
mistake in the code next to it. It is not part of any specification; substituted
for the definition it varies, it violates the property `PROJECT.json` names.

## 3. Modules

### `RunStore` (pkg/runstore)

One process at a time calls `Create`, `CopyInput(role)`, `Complete`, `Fail`,
`Resume`. `call` holds the operation, the write it is at and how far
`atomicWrite` (write.go) has got with it: `start` before the temporary exists,
`temp` before the rename, `renamed` before the directory sync. `WriteTemporary`,
`RenameTemporary`, `SyncParent` and `FailWrite` are these steps for every
file; `NextStep` says which write follows, `RunAfter` and `RunAfterFailedWrite`
what the `Run` in memory becomes.

`CopyInput` is pending bytes, then the input manifest, then the rename to the
final name and a sync (input.go:15-87). A failing rename takes the manifest back,
which is a write that may itself fail anywhere. `Resume` runs
`recoverPendingInputs` first (read.go:238-302), one `RecoverInput` per
pending file, then `Open` (`Openable`), then the checks of state and
configuration. `slot[r]` holds the names under which the bytes of a role exist.

`cautious`, chosen at the start from `Callers`, is the kind of caller: `TRUE` is
the runner, which after an error only fails or drops the run; `FALSE` is any
caller the package admits.

### `Custody`

What the run store promises to the code above it: a directory seen through its
state and the names of its inputs, in five atomic actions. `RefinesCustody` of
`RunStore` maps `state` to `status.json`, `inputs` to the roles the manifest
names and `kept` to the roles acknowledged. The commit of an input is the
rename of the manifest, not the return of `CopyInput`; `Withdraw` is the
rollback of a failed publication. It holds of cautious callers: a careless one
may complete a run whose last input it has seen fail.

### `EvalRunner` (pkg/eval) and `EvidenceLog`

The run exists and its inputs are bound. A cell is its position in
`buildSchedule`'s order, `1 .. N`; the digest of a cell is abstracted to the
position it seals, so the chain `previous_digest` becomes `prev` and a broken
chain a wrong `prev`. `pc` follows `execute` and `executeCell`: `pick` (loop and
its checks), `arm`, `verify` (what the arm returned), `own`
(`ownNativeArtifact`), `append`, `sync`, `syncdir` (`AppendJSONL`), and at the
end `summary`, `status`, `statussync` or `fail`, `failsync`. Each place that
looks at the context before it acts has its own action (`StopBetweenCells`,
`LeaveAfterArm`, `StopBeforeAppend`, `StopBeforeComplete`), because what
the code does there differs. `LeaveOrFail` is the rule of `execute` for an error:
leave the run active if the context is done, fail it otherwise.

Arms behave as `Arms` allows: return an artifact in the native directory or in
one they made below it, return an error or their own deadline error, return
something `validateOutcome` refuses, drop the last journal line, or damage the
artifact of another cell.

`Resume` is `eval.Resume`: it drops a torn tail (and only then syncs), validates
every line and artifact (`JournalValid`) and rebuilds cursor, completed set and
digest. Truncation, sync of the file and sync of the directory
(resume.go:105-130) are one step: a process that dies or fails between them
would leave whole lines that storage may not have yet, as one does that dies
between an append and its sync. `Step` is everything but power loss; `Next` adds it.

`EvidenceLog` is what a run promises its readers: cells `1, 2, ..., N` are
recorded in order, once, and a status becomes final once, `complete` only over
the whole list. `RefinesLog` maps `recorded` to the items of the journal and
`state` to the status.

### `ReportWrite` (report/write.go)

`Write` and what it calls are loops over the outputs: `stage`, `backup`,
`publish`, `sync`, `discard`, `syncagain`; on error `unpublish`, `restore`,
`syncback`; always `cleanup`. `pc` is the loop, `cursor` the output, `Wanted`
the condition under which the loop does something for an output, `NextLoop` the
order. `mem` is the flags of `stagedOutput`. A document is the number of the
`Write` that made it, so that "the old report" and "a newer one" can be told
apart over repeated calls. `placed` chooses which outputs share a directory, in
every way; `dirs` remembers the directories `MkdirAll` made, whose own entries
nothing syncs. The path checks that come before (aliases, symlinks, outputs
inside the run) change nothing and are left out.

### `Candidate` and `Binding` (pkg/candidate, the first half of pkg/eval)

`Candidate` says which documents make a candidate: `WellFormed` snapshots whose
id is the identity of their content, `ValidMutation` between them, and the
identity of the whole. A digest is the value it identifies.

`Binding` follows a session from `Run` or `Resume` to the first arm.
`prepareRequest` is `ReadSuite`, `ReadManifest`, then for either side
`ReadSnapshot`, one `ReadAsset` per file, and `CheckParent` or
`CheckCandidate`, then `ReadPolicy`: each reads one file as it is now. `CreateRun` or `ResumeRun`
opens the directory with the configuration made of what was read (`ConfigOf`).
`bindInputs` is, role by role in its order, `ReuseInput` for what an earlier
session bound, else `CommitInput` (the bytes of the source enter the manifest)
and `FinishCopy` (the caller compares them); then `VerifyInputs`. `Execute`
stands for all of `EvalRunner` and notes in `ran` what was run. The directory
moves by the actions of `Custody`, which `RunStore` implements, so that
crashes inside `CopyInput` need not be modelled twice: a crash is before or
after the commit. The code reads the source a few steps before the commit;
nothing looks at the source in between, so an edit there is as good as one after
it.

The author (`Edit`) replaces one file at a time between any two steps:
rewrites or deletes an asset, repins a snapshot to other bytes, reorders,
reformats or deletes a document. Assumed of the author: files are replaced, not
written in place, and an old content is never brought back, because the code
compares digests and does not notice a file that changed and changed back.
Documents keep their paths. Also left out are the digits of digests in role
names: with one configuration a role has one digest.

### `FixedWidth`, `Comparison`, `Gate` and `Promotion` (pkg/compare, pkg/gate, the report command)

`FixedWidth` is Go's int with its limits as a constant, and the checked
addition and subtraction of `compare/build.go`, written with the comparisons
and the wrapping arithmetic of the code. Outcomes carry the tokens read and
written; `SumOfTokens` adds pair by pair and a sum that overflows on the way
ends the command (`Overflows`).

`Comparison` and `Gate` have no variables. `Build` makes of a state and of the
cells that are there what `compare.Build` returns: pairs, missing pairs, deltas
of the metrics both sides measured, aggregates per group and metric.
`Evaluate` makes of a policy and a comparison the set of checks made and the
decision: a phase is reached only if no check before it failed. A mean is its
sum and its count, compared with a limit by multiplication.

`Promotion` composes both with the directory they read. The evaluation is the
abstract one, `EvidenceLog`, which `EvalRunner` is proved to implement (as long as
no arm rewrites the journal and no power is lost); here cells carry outcomes.
The report command runs beside it: `load` counts its four loads (its
own, that of `compare.Build`, that of `report.Build`, that of the comparison
rebuilt there), each of them `ReadStatus` (`runstore.Open`) and then `ReadCells`. The
second yields comparison and decision, the fourth must yield the same ones
again or nothing is published. `Publish` stands for all of `ReportWrite`.
`moments` is history: the combinations of state and number of cells there
have been.

### `Aggregate` and `Review` (pkg/review)

`Aggregate` is the report over keys and annotations, as operators over
exact rationals: means per item, per variant, per subject, paired
comparisons with wins and median, overlaps of reviewers. `Ratio` gives a
quotient in lowest terms, the form `big.Rat` keeps, and `Sorted` is
`sort.Float64s`: the values in an order in which none is below an earlier one.
`Difference` is taken in a `FixedWidth` int and `AbsInt` of it, as in the code.

`Review` puts it where it is used. The product builds queue and key (`Build`)
from lists of candidates that change between builds; reviewers append lines for
entries they see (`Annotate`), which may reach the file in two parts
(`FinishLine`); the load (`BeginLoad`, `ReadLine`, `EndOfFile`) reads it line by
line beside them, and is made again after an error. A review ID is the number
`Digest` gives to an identity; texts that are empty or padded are `Blank`.
Each line remembers, for the properties only, the candidate it was written on,
the payload the queue showed included.

### Modules for TLC and proofs

`MCPromotion`, `MCBinding` and `MCReview` give the values of their small
instances; bundles include 24 that no candidate may have. `MCRunStore`,
`MCEvalRunner` and `MCReportWrite` extend a module for TLC and add symmetry of
roles and directories (no property and no constant distinguishes them).

Proofs are in modules of their own, each extending the module it is about:
`RunStoreProofs`, `EvalRunnerProofs`, `ReportWriteProofs`, `BindingProofs`,
`GateProofs` (of `Gate` and `Comparison`, which have no variables) and, over
it, `PromotionProofs`, and `ReviewProofs`. `FiniteSumProofs` has the lemmas that the
last three share: induction on finite sets and up to a number, first and last
elements of a finite total order, and what sums and counts over finite sets are.

## 4. Runs

Expected to pass:

| run | instance | what it shows |
|---|---|---|
| `runstore_power` | 2 roles, 2 faults, 1 crash, 2 power losses, cautious and careless callers | Committed input bytes are never lost, recovery leaves no half of a transaction; acknowledged inputs and a terminal status on storage are final; complete implies readable; the `Run` in memory agrees with the directory between calls; the store implements `Custody`. |
| `evalrunner_interrupted` | 4 cells, 2 faults, 2 interrupts | The runner implements `EvidenceLog`. |
| `evalrunner_power` | 4 cells, 2 faults, 2 interrupts, 2 power losses, fairness | Artifacts survive everything; interruptions alone never fail a run; without any, acknowledged cells and complete runs are on storage; the run ends. |
| `evalrunner_misbehaving` | 4 cells, all damaging arms, 1 fault, 2 interrupts | Whatever arms damage, the journal stays in order and the run is completed only if it is whole. |
| `promotion_decision` | 2 cases, 2 repeats, 11 policies, an int of 3 bits | A decision is of one moment of the run and is pass exactly when the cells themselves earn it; missing or worse evidence never helps; no reported cost has wrapped. |
| `binding_sessions` | 3 assets a side, 25 bundles, 2 plans, 2 edits, 1 interrupt, 1 fault | Arms run against one moment of the files, in one experiment, on sides that differ in the bytes of one asset and not in system, dimensions, media types or locks; binding fails only if an input that was read is not there any more. |
| `review_loading` | 2 subjects, 2 variants, 5 lists, 4 protocols, 4 lines, an int of 3 bits | Blinding; every score counted once, for the identity it was given to and, where that has one payload, for the payload seen; aggregates without favour or wrapping. |
| `reportwrite_publication` | 2 outputs, 2 directories, 2 calls, 2 faults, 1 interrupt, 1 power loss | A returned call is all or nothing; acknowledged reports survive. |

Expected to be violated, each a place where the code does not do what the
repository says of it (`findings` in `PROJECT.json`):

| run | claim | what happens |
|---|---|---|
| `runstore_stray_temporary` | recovery "completes or discards the small transaction used by CopyInput" (read.go:238) | A process dies in `atomicWrite` inside `inputs/`; the `.artifact-*` temporary survives recovery, `Open` refuses it and the active run can never be resumed. |
| `evalrunner_unnamed_journal` | each successful append "is a durability boundary" (run.go:256-257) | The directory is synced only by the append that creates the journal. If the process dies in between, later appends succeed without a durable name. |
| `evalrunner_unsynced_cell` | "records one durable cell per case, repeat, and arm" (types.go:2) | A last line written and not synced when the process died counts as completed on resume; a run can be completed without it ever being synced. |
| `reportwrite_gap` | "individually atomic, durable files" (write.go:13-14) | While a report is being replaced its path is empty, and stays so if the process dies there. |

### Bounds

Two roles are enough for one input settled and one in flight, or two pending
at once. Four cells give a committed prefix, a current cell and a tail still to
come, with room for two interruptions inside the prefix. Two faults cover a failing step and a failing
rollback of it (no code path recovers from a third); two interruptions cover an
interrupted resume. Two power losses in the run store and the runner cover a loss during the recovery from
a loss; one in `ReportWrite` does, because nothing there recovers. Two outputs
is what `Write` publishes; two calls are an interrupted one and its
repetition. `Contents` has one value: an artifact is right, replaced by
`ErrorReport`, or missing.

Two cases, one in a group and one not, and two repeats are the least in which a
group, a repeat and the whole can disagree; each kind of outcome has a place of its own in the
schedule, so that all kinds meet. Eleven policies exercise each gate alone or
next to one other; one of them asks for little, so that every other gate's refusals
are its own. `PassIsEarned`, `MissingNeverHelps` and `WorseNeverHelps` are evaluated
in every state of the directory, before the command starts.

An int of three bits makes the tokens of one failing outcome, the delta of one
pair and the sum of one group overflow, each in some state, and the sum in
both directions. In `binding_sessions` one locked and two mutable assets allow
a change in the declared asset, in another one and in a locked one; two edits
make three moments, enough to join the first with the last; one interruption
splits a binding in two sessions and one fault withdraws or keeps an input. (A
second interruption adds a third session, whose start is any start: what a
session knows it reads anew.) The author may
start from a bundle that does not load, and then nothing happens: deadlock is
not checked there. In `review_loading` four lines are two reviewers on an item
and one on each of two more, or a bad line after three good ones; five lists
exchange a candidate, change a payload only, give a subject two items of a
variant, repeat an identity, and leave a variant blank. A range of -2 to 3
is wider than the int. Loading is over once there is a report, so deadlock is
not checked there either.

`evalrunner_power` uses arms that write their artifact directly in the directory
the runner made, see the limits below.

### Scopes in the properties

A few promises hold only under a condition, and say so:

* `CompleteIsReadable`: for a cautious caller, while the power has not failed.
  `RefinesCustody`: for a cautious caller, in every step but a power loss.
* `CommittedBytesSurvive`: any number of crashes and faults, or of power losses,
  but not one after the other: recovery and rollback order their renames and
  manifest writes through one sync at the end. `RecoverySettlesInputs`: while
  the power has not failed and no temporary was left (`runstore_stray_temporary`).
* `DurableCompleteOpens`: while no process has died and no call has failed.
* `AckedCellsDurable`, `DurableCompleteIsWhole`: in an `Orderly` run, without
  interruptions and with at most one failing call. The two violation runs of
  the runner show what an interruption does. Two failing calls do the same: the
  append that creates the journal fails after creating the file, `failRun`'s own
  write fails and leaves the run active, and once it is resumed no append
  syncs the directory.
* `CellsBackedByArtifacts`, `InterruptionNeverFails`: for arms that keep to their
  directory; what others can do is the subject of `evalrunner_misbehaving`.
* `InterruptionNeverFails`: while every system call succeeds.
* `AllOrNothing`: unless a step of the rollback fails as well. It is about the
  documents; the empty file that reserves a backup's name (write.go:281-293) is
  not modelled, and stays behind, under a name nothing looks at, when removing
  it fails.
* `AcknowledgedSurvives`, `PublishedStays`: for directories that existed.
* `EventuallyEnds`: unless arms return deadline errors of their own for ever.
* `FailsOnlyForEdits`: while every system call succeeds. That an input was edited
  after it had been read is stated as: some file had held what the
  configuration expects of it and does not hold it now. As no content comes
  back, the edit came later.
* `DecisionOfOneMoment`: stated where a comparison is made and where its decision
  is published, in between it cannot change.
* `Blinded`: of the queue as it is built. Payloads are the product's: one that
  names its variant is not blinded by the package.
* `CountedAsSeen`: a score counts for the subject, variant and declared identity
  of the candidate it was given to. It counts for the payload the reviewer
  judged as well if the product has one payload for that identity
  (`OnePayload`), which the package leaves to the product and does not check: a
  review ID does not digest the payload (review.go:127-131). What happens
  otherwise is described in section 6. Both cases occur in the run: list
  `Second` has one candidate whose payload alone is another.

### Fairness

`FairSpec` adds `WF(Execute)` and `WF(Resume)`: a running process takes its next
step and an arm returns (the runner is sequential code, and an arm that never
returns is ended by its context, an interruption); and whoever owns an active
run resumes it, which the command and its documentation make the remedy for
every interruption. No fairness is assumed of failures. `EventuallyEnds` is
checked under it with power losses and a failing call. An arm that returns a
deadline error of its own leaves its cell unrecorded each time, by design
(runner.go:349), so the property promises an end unless that happens for ever.

## 5. Proofs

Each table lists the theorems of a module that a reader should know of; they
hold for every value of the constants that meets the module's named assumption,
which TLC evaluates in every run. The last part of this section says what the
assumptions exclude and what is not proved.

### `EvalRunnerProofs`

| theorem | statement |
|---|---|
| `Invariance` | `Spec => []IInv`, power losses included |
| `TypeCorrect` | `Spec => []TypeOK` |
| `JournalAlwaysInOrder` | `Spec => []JournalInOrder` |
| `CompleteIsAlwaysWhole` | `ProcessSpec => []CompleteIsWhole` |
| `Refinement` | `ProcessSpec => RefinesLog`, provided no arm rewrites the journal |

`JournalInOrder` is not inductive: whether the next line
continues the journal depends on memory. `IInv` adds three facts. Memory follows
the journal (`MemoryFollowsJournal`): while the process is between cells the
completed set is exactly the cells of the journal and the digest the last of
them; between an append and its return it is one behind. A rewrite is seen
(`RewriteIsSeen`): after an arm dropped a line, memory no longer matches, but
the only step left is to reject the arm. And there is an artifact in hand
(`ArtifactInHand`) whenever a cell is about to be appended, which types need.
Each action preserves `IInv` in a lemma of its own; steps that end the process
or go to `fail` share one (`StoppingKeepsIInv`). Power losses give back a prefix
of the journal, and a prefix is in order (`PrefixInOrder`).

For `CompleteIsAlwaysWhole`, `EndInv` says that from the audit to the last sync,
and once the status says complete, the journal is whole and valid: steps outside
these do not run when the status is terminal. Power losses are excluded because
an unsynced cell may vanish under a complete status, which is the violation
`evalrunner_unsynced_cell` shows.

For `Refinement`, `AppendCell` maps to `RecordCell`, `PublishComplete` to
`CompleteRun`, `PublishFailed` to `FailRun`, and every other step to a stutter;
only `RewriteJournal`, excluded by assumption, shortens the list.

Its second half is about what survives:

| theorem | statement |
|---|---|
| `DurabilityInvariance` | `Spec => []IInv /\ []DInv` |
| `CellsStayBacked` | `Spec => []CellsBackedByArtifacts` |
| `OnlyFaultsFail` | `Spec => []InterruptionNeverFails` |
| `AckedCellsStay` | `Spec => []AckedCellsDurable` |
| `StoredCompleteIsWhole` | `Spec => []DurableCompleteIsWhole` |

All of these assume `Honest` arms (`Arms \subseteq {"flat", "error",
"deadline"}`), as the run that checks them does. A line of the journal is backed because its artifact was
synced before the line was written (`OwnedIsSafe`), and no later step of an
honest arm touches it. An append is durable because everything before it is
(`StorageFollows`): in an orderly run each step that is not itself between a
write and its sync finds storage up to date. The condition `Orderly` is as weak
as it can be, see the scopes above: it was found here, as the step that could
not be proved, that a second failing call is enough to lose an acknowledged
cell.

### `RunStoreProofs`

| theorem | statement |
|---|---|
| `Invariance`, `RecoveryInvariance` | `Spec => []IInv`, `Spec => []RInv` |
| `TypeCorrect` | `Spec => []TypeOK` |
| `AckedInputsStay` | `Spec => []AckedInputsDurable` |
| `SummaryBeforeComplete` | `Spec => []DurableCompleteHasSummary` |
| `MemoryAgrees` | `Spec => []MemoryMatchesDisk` |
| `TerminalStaysFinal` | `Spec => TerminalIsFinal`, an action property |
| `StoreRefinesCustody` | `Spec => RefinesCustody` |
| `CommittedBytesStay` | `Spec => []CommittedBytesSurvive` |
| `RecoverySettles` | `Spec => []RecoverySettlesInputs` |
| `CompleteOpens` | `Spec => []CompleteIsReadable` |
| `StoredCompleteOpens` | `Spec => []DurableCompleteOpens` |

What a rename makes visible comes from memory, so the invariant is about the
`Run` in memory at each step of each call: what it knows of the status
(`StatusKnown`), of the inputs it lists (`InputsKnown`, `TrustedInputs`), of
what storage already has when the next write begins (`SummaryFirst`,
`BaseFirst`). `IInv` needs no condition on the environment. `RInv`
adds what recovery relies on, each part under the interruptions it survives:
`BytesKept` and `FinalIsNamed` while the power has not failed, `QuietStorage`
while nothing else has, and `InputsSettled` for callers that stop at the first
error. The refinement has one lemma per action: publication of `status.json`
is `Create` or `Finish` of `Custody`, publication of the manifest `Enter` or
`Withdraw`, the return of `CopyInput` is `Keep`, and all else a stutter.

### `ReportWriteProofs`

| theorem | statement |
|---|---|
| `Invariance` | `Spec => []IInv` |
| `TypeCorrect` | `Spec => []TypeOK` |
| `WriteIsAllOrNothing` | `Spec => []AllOrNothing` |
| `AcknowledgedIsNeverLost` | `Spec => []AcknowledgedSurvives` |
| `PublishedIsKept` | `Spec => []PublishedStays` |

For any number of outputs, not the two the code has. Publishing overwrites a
path, which is safe only because an earlier loop moved away what was there;
discarding a backup is safe only because the loop before it synced every
directory. So the invariant says for each loop what the flags of `stagedOutput`
mean (`FlagsFollowLoop`), what they say of the names in view
(`NamesFollowFlags`, `OneNameEach`) and of what storage may give back
(`StorageHoldsAcked`, `StorageFollowsSync`). A lemma (`Turns`) is about the
loops alone: every action moves the cursor or begins the next loop.

### `BindingProofs`

| theorem | statement |
|---|---|
| `Invariance` | `Spec => []IInv` |
| `BoundAtOneMoment` | `Spec => []BoundIsOneMoment` |
| `ArmsAlwaysDifferInOneAsset` | `Spec => []ArmsDifferInOneAsset` |
| `OnlyOneExperiment` | `Spec => []OneExperiment` |
| `FailureShowsAnEdit` | `Spec => []FailsOnlyForEdits` |

For bundles of any number of files and any author. Whether the bytes bound were
there at one moment depends on what the session that binds them had read, and
on what earlier sessions left. The invariant names that moment: it is when the
run was created (`HasMoment`). An input which its file no longer held then
has been edited since it was read; as no content comes back, it can never be
bound, and the session that tries fails. That the code needs the assumption "no content
comes back" is visible in the proof of `EditKeepsIInv`, and nowhere else: an input
that is not there any more stays away. The same argument names the edit that
made a run fail (`SomeEdit`): an input that is bound otherwise than expected, or
whose source is gone, was held when it was read and is not held now.

### `GateProofs` and `PromotionProofs`

| theorem | statement |
|---|---|
| `PassMeansDemands` | a pass of the gate is, for any cells, the policy's demands on those cells |
| `GateIsMonotone` | a pass of worse or fewer cells is a pass of better or more |
| `Invariance` | `Spec => []IInv` |
| `OneMoment` | `Spec => []DecisionOfOneMoment` |
| `EarnedPass` | `Spec => []PassIsEarned` |
| `EarnedPublishedPass` | `Spec => []PublishedPassIsEarned` |
| `NothingMissingHelps` | `Spec => []MissingNeverHelps` |
| `NothingWorseHelps` | `Spec => []WorseNeverHelps` |
| `TrueCosts` | `Spec => []CostsAreTrue`, for an int of any width |

For any suite, number of repeats, set of policies and set of outcomes.
`GateProofs` is about operators. The sums of `Build` and `Evaluate` are taken by
`MapThenSumSet`; that such a sum may be taken from any of its elements is
proved by induction on finite sets, and monotonicity and independence of order
follow. Then each phase is expressed as a demand on the cells
(`HardOfCells`, `TargetOfCells`, `RegressionOfCells`); over a run in which
everything is paired, `Missing` plays no part any more and demands on worse
cells imply the same demands on better ones.

`Promotion`'s invariant says which prefixes of the log the directory has been
in (`MomentsInvariant`: active with every number of cells up to the present
one, final only with the present one) and that what the command has computed is
of one of them (`CommandInvariant`). A status read before the cells is harmless
because it is either still the status or "active". A published pass is of
a complete run, and a complete run has one moment only, the present. From
cells to `Earned`, which counts over the places of the schedule, leads the
bijection between places and cells (`CandidateCells`). `TrueCosts` compares
the running sums of the code, which stop at the first overflow, with the sums in
the integers, by induction on their number of terms.

### `ReviewProofs`

| theorem | statement |
|---|---|
| `Invariance` | `Spec => []IInv` |
| `QueueIsBlind` | `Spec => []Blinded` |
| `EveryLineCountsAsSeen` | `Spec => []CountedAsSeen` |
| `NoLineIsSkipped` | `Spec => []NothingSkipped` |
| `CountsAlwaysAddUp` | `Spec => []CountsAddUp` |
| `DisagreementsAlwaysTrue` | `Spec => []DisagreementsAreTrue`, for an int of any width |
| `VariantsAlwaysAlike` | `Spec => []VariantsAreAlike` |
| `BetterNeverEverHurts` | `Spec => []BetterNeverHurts` |

For any protocols, lists of candidates and opinions of them, and files of any
length. Builds, lines and loads go on beside each other, so the invariant
relates each of them to something that does not move: a line has the review ID
of the candidate it was written on (`LinesKnown`), queue and key are those of the
list built last (`KeysKnown`), what a load has taken are the lines before the
next, whole, valid and of distinct review and reviewer (`LoadKnown`), and a
report is that of what was loaded (`ReportKnown`). As digests are injective, a
line whose ID is in the key was written on a candidate of the identity the key
names, however often the list has changed; its payload is the one now listed
where every list gives that identity the same (`OnePayload`). `Blinded` is a matter of counting: a relabelling
that keeps identities apart is a permutation, so the entries of the queue are
the same set under digests permuted with it.

What has been loaded is `Readable`: a key tells its items apart, no reviewer
annotates an item twice, and scores are in validated ranges. From this alone
follow the last four theorems. `CountsAddUp` counts the same finite sets in
different parts: items by variant, annotations by item and then by variant, and
the pairs of annotations once by reviewers and once by item, where n reviewers
make n(n-1)/2. That every delta compared is a win, a tie or a loss needs that it
is a rational at all, hence that each mean it is made from has something to
divide by (`SubjectMeanIsRational`). For `DisagreementsAreTrue` the width of a
range, which `ValidateDimensions` limits to the largest int, is what keeps the
subtraction exact (`DifferenceIsExact`); review and reviewers determine a pair,
so that a listed disagreement stands for one item.

The last two theorems are about means and medians of any number of items, and
rest on facts about the rationals of `Aggregate` that hold for all of them:

* A quotient has the value of its operands and no smaller denominator would do
  (`RatioFound`), so equal values have one form (`RatioIsCanonical`,
  `ReducedIsUnique`). Addition commutes and associates exactly, is monotone, and
  is turned by negation, as equations between the pairs themselves.
* A mean folds `Plus` over a set whose elements come in no particular order.
  Such a total may be taken from any element (`TotalWithout`, by induction on
  subsets), so it does not depend on the order, is carried along by a renaming
  of the elements (`TotalOfPicture`), and is monotone, strictly so if one value
  is larger (`TotalIsMonotone`).
* A sorted list exists (`OrderExists`). Two ways to sort give the same list, and
  larger values give a list that is larger at every place
  (`PlacesAreMonotone`): were the k-th value of the one below that of the other,
  k subjects would have to find room in k - 1 places. Negated values give the
  list backwards (`SortedIsOdd`). The median inherits both, for odd and for even
  numbers of subjects.

For `VariantsAreAlike` the exchange in the key is such a renaming, each subject's
two means change places and every delta is negated. For `BetterNeverHurts` the
annotations with one score raised are again a renaming of the old ones; one
item's mean is higher, hence its variant's, hence no subject's lower, and deltas
grow or fall together according to the side the variant is on. Each annotation
counts once in one item because what was loaded is `Readable`.

### What the proofs assume

* `RunStore`, `EvalRunner`, `ReportWrite`: bounds are natural numbers; model
  values that stand for "no file" or "no artifact" are no contents.
* `Binding`: the same, and every bundle names a suite, a policy, a manifest and
  two snapshots. Nothing is assumed of what these contain.
* `Comparison`, `Gate`: the suite is a sequence of cases, metrics and limits of
  a policy are integers (fractions scaled by a common denominator), the failure
  rate is a fraction between 0 and 1, which `Validate` (policy.go) checks, and
  mean limits are keyed by a group and a metric, as in the document.
  `FixedWidth`: limits are those of two's complement and "overflow" is no
  integer.
* `Review`: the digest is injective; bounds of a dimension are integers; lists
  are sequences of candidates with four fields each, and a candidate whose texts
  are well-formed has a digest. Variants and reviewers stand for numbers in the
  order of their names (a reviewer may also be a text that is not well-formed).

### What stays with TLC

* Liveness: `EventuallyEnds`.
* The four claims that are violated, where the counterexample is the evidence.
* That the mapped state machines are the code: the proofs are about the models.

Induction over data cannot be cited from the library, whose induction theorems
take an operator; where it was needed, the set of values for which a statement
holds is shown to be everything by well-foundedness (`WFMin`), in
`FiniteInduction` and `NumberInduction` of `FiniteSumProofs`.

## 6. Known limits of the code, found while modelling

Besides the findings above, and not covered by a run of their own:

* `Resume` recovers `inputs/` before it looks at the state (run.go:43), so it
  changes the directory of a terminal run, which types.go:3-4 calls immutable.
* A `CopyInput` that fails after its manifest is published and is followed by
  `Fail` leaves a failed run that `Open` refuses (input.go:61-64).
* A directory that an arm makes below its native directory is never synced from
  its parent (runner.go:426 against 388-390): its artifact may be lost with the
  power. `MkdirAll` in `report.Write` has the same gap (write.go:242).
* Recovery and rollback rename and then sync once, so a power loss on a file
  system that reorders renames can undo half of them.
* A failing append that is followed by a failing `failRun` (runner.go) leaves an
  active run with a journal whose name was never synced; the appends after a
  resume succeed without it. It is the second way to what
  `evalrunner_unnamed_journal` shows, without any process dying, and why
  `Orderly` allows one failing call only.
* A review ID is made of version, subject, variant and declared identity, not of
  the payload (review.go:127-131), although the payload is what the queue shows
  to be judged (review.go:32-37). If the product builds its queue, a reviewer
  annotates, and the queue is built again with another payload under the same
  identity, then the annotation is loaded and its scores count for the payload
  the reviewer never saw. In `Review` that takes seven states: `Build(First)`,
  `Annotate` on payload 13, `Build(Second)`, where the payload is 15, and a
  load. Nothing in the repository says otherwise: payload and identity are the
  product's, and a product whose identity covers the payload is not concerned.
  `CountedAsSeen` states both cases.

## 7. Plan

Every safety and action property of a passing run, and both refinements, are
stated by a theorem; `EventuallyEnds` is the one property of a passing run that
is only model-checked. What could be added:

1. `Promotion` reads the log through `EvidenceLog` with cells that carry
   outcomes. Composing it with `EvalRunner` itself, instead of with what
   `EvalRunner` is proved to implement, would bring the syncs and the torn last
   line of the journal into its loads.
2. A weaker file system under `RunStore` and `ReportWrite`, one that reorders
   renames over a loss of power (section 6).
3. The bootstrap interval of `pkg/review`, as a function of the deltas only.

None of the modules declares a `RECURSIVE` operator.

### Not modelled

* Path confinement and safe names: lexical and symbolic-link checks on strings.
* YAML, JSON and Markdown as text; name patterns; flags and output rows of the
  commands; logging.
* Rounding of floats, the bootstrap interval of `pkg/review` (a fixed
  pseudo-random sequence), digest collisions.
* Tie breakers of a policy, which the gate only records; sums of calls and
  durations, which are added like tokens.
* Two writers of one run, which `run.go:31-34` forbids its callers; damage to
  the bound copies of inputs after they were bound.

## Running

    tlc -workers 2 -config EvalRunner_power.cfg MCEvalRunner.tla
    tlc -workers 2 -config Binding_sessions.cfg MCBinding.tla
    tlapm PromotionProofs.tla

Every run finishes within two minutes. The proof modules take from ten seconds
to a few minutes each; `tlapm` proves what a module states, not again what the
modules it extends state, so all of them have to be given to it in turn.
