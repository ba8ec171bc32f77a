# Verification of GraphTruth

TLA+ modules, TLC configurations and TLAPS proofs for the program logic of
GraphTruth. The repository is a set of Node.js programs that keep owner-written
knowledge in plain files. This directory models the parts whose correctness
depends on more than one step: what a crash, a second process, a file edited at
the wrong moment or a long sequence of legal commands does to those files.

`src/` below is the root of the repository; `core.mjs` without a directory is
`src/runtime/experimental/owner-facing-workbench-v1/core.mjs`.

## 1. The system

| Component | State it keeps | Operations | What is hard | Status |
| --- | --- | --- | --- | --- |
| Owner-facing workbench (`core.mjs`, `cli.mjs`) | a root with `.writer.lock`, `.active`, `.states/<generation>`; in a generation the journal, head, snapshots, draft with captured files, requested as-of names, derived dossiers | init, horizon open/close/abort, source add, assertion add/revise, question add, draft undo, dossier, rebuild, verify | crashes between renames, two writers, two inits, a lock-free verify, host files edited during a close, derived files edited by hand, limits | all operations; partly, see section 5 |
| Replay worker (`runtime/src/worker.mjs`) | `vault/commits/*`, `vault/head.json`, staging, projection | ingest, rebuild, verify, export | kill before and after publication, head one behind, redelivery, reveals out of order | all but export |
| Replay controller (`controller.mjs`, `sandbox.mjs`) | anchors, reveal bundles, attempts, the report | rehearse two packs twice, inject crashes, verify anchors, clean up | a worker that rewrites history, timers, signals, a runtime edited meanwhile | partly |
| Private pack lock (`tooling/private-pack-lock.mjs`) | one lock file | create, verify | a directory that changes while it is read, a kill while the lock is written | partly |
| Incremental capture (`incremental-capture-v1/core.mjs`) | `CONTROL.json`, `records.jsonl`, snapshots, projections | init, horizon append, evidence, assertion, question, close, build, verify | append without a lock, crash between rename and append | partly |
| Record bundle (`record-bundle-v1/core.mjs`) | one bundle directory per output root, published by one rename | build, verify, rebuild of the views | acceptances and revocations interleaved with horizons, contracts that grow | partly |
| Public dogfood (`public-dogfood-v1/core.mjs`) | a bundle and its projection | build, verify, views | visibility decided twice, by tag and by sequence | partly |
| Author call qualification (`tooling/codex-author-call-qualification-v1.mjs`) | a diagnostic root with a call slot, an ephemeral state, a child process with timers | run, terminate, finalize, report | timers against close events, a call that must not be made twice, a credential that changes | partly |
| Evaluation freeze (`tooling/codex-evaluation-freeze.mjs`) | markers, staged and frozen documents, a release or a terminal record | one run: two calls, freeze, release | failures and kills at any step, a second start, changes of what is frozen | partly |
| G1 review (`tooling/codex-g1-review.mjs`) | an anchor, a run record, a result | one review | reviewers on one anchor, a pack, lock or tools changed meanwhile | partly |
| Result schema learning (`tooling/author-call-result-schema-learning-v2.mjs`) | a slot per work root, retained evidence | read a protected trace once | two readers, kills, a trace that changes | partly |
| Sandbox preflight (`tooling/codex-sandbox-preflight.mjs`) | a fixture, a loopback server, a report | identify the binary, run an adversarial probe, report | a model, a process it left behind and an owner that interfere with what is compared | partly |
| Workbench qualification, release candidate, sandbox qualification | none | run commands in a fixed order, compare retained fields | nothing concurrent | not modelled |
| Repository checks (`tooling/check.mjs`, `preflight.mjs`) | none | validate files | none: straight-line parsing | not modelled |
| Documents, experiments, specifications, schemas | text and data | none | none | not modelled |

The workbench is the core of the program: the only component an owner runs by
hand against data that has to survive, and the only one with a concurrency and
recovery protocol of its own. The components are separate programs. They share
conventions (canonical JSON, hash chains, stage-then-rename) and no state, with
two exceptions: the controller starts the worker as a child process and reads
the files it leaves (`Replay` composes `ReplayVault` with its driver), and the
author call and the preflight wait for a provider process (`AuthorCall` composes
`ModelProcess` with its controller).

### How the workbench works

A *command* takes `.writer.lock` with `O_EXCL`, loads and verifies the whole
selected generation, checks its preconditions, copies the generation to a
stage, changes the copy, finalizes its digests, runs the same verifier over it,
renames the stage to its final name, links a new selector and renames that over
`.active`, removes the old generation (best effort) and gives the lock back.
`close` also re-reads every captured host file before it stages anything.
`verify` takes no lock. The owner edits the host files and may touch `derived/`
at any time; no signal handler and no recovery command exists.

## 2. Modules

| Module | Models | Code |
| --- | --- | --- |
| `Journal` | the canonical journal, its verifier, views | `verifyCanonical`, `recordsThroughHorizon`, `buildView` |
| `Workbench` | every command on the content of a generation, with the owner's edits of host and derived files | the exported commands, `publishMutation`'s gate, `projectionStatus`, `validateDraftShape` |
| `Publication` | how a generation is staged, selected and removed by concurrent commands that fail or are killed, and a verify that reads meanwhile | `acquireWriter`, `withWriter`, `publishMutation`, `loadWorkspace`, `verifyWorkspace` |
| `Initialization` | inits of one root that race, with commands tried on it | `initializeWorkspace`, `acquireWriter`, `validateStaticRoot` |
| `CommandStore` | the abstract promise: commands applied one at a time | what `Publication` implements |
| `ReplayVault` | the vault and a worker process killed between any two writes | `worker.mjs` |
| `Replay` | a whole rehearsal: controller, captures with timers, signals, faults, the report | `controller.mjs`, `sandbox.mjs` |
| `AnchoredLog` | the abstract promise: a log confirmed by extension, never accepted when rewritten | what `Replay` implements |
| `ModelProcess` | a provider process, its timers and what is answered | `runQualifiedProcess`, `spawnWithInput` |
| `AuthorCall` | one qualified call from its slot to its report | `runAuthorCallQualification` |
| `PackLock` | scan, read, rescan of a changing pack; a lock that is created and then filled | `private-pack-lock.mjs` |
| `IncrementalCapture` | commands of two clients without a lock, the verifier, projections | `incremental-capture-v1/core.mjs` |
| `G1Review` | reviewers, anchors, an owner who edits | `codex-g1-review.mjs` |
| `EvaluationFreeze` | the two-call protocol with failures, kills and restarts | `runEvaluationFreeze` |
| `EvaluationContract` | what of an author's contract is admitted | `validateEvaluationContract` |
| `OneUseReader` | one-use reading of a protected trace | `readOneUseTrace` |
| `RecordBundle` | import of a contract, verifier, policy views, publication | `record-bundle-v1/core.mjs` |
| `PublicDogfood` | materialization, verifier, horizon views | `public-dogfood-v1/core.mjs` |
| `SandboxPreflight` | the adversarial probe and its report | `runPreflight`, `writePreflightReport` |
| `Custody` | the nine stores from `PackLock` to `SandboxPreflight`, and `Initialization`, under one specification | |
| `PublicationProofs`, `WorkbenchProofs`, `GateProofs`, `ReplayProofs`, `AuthorCallProofs`, `EvaluationProofs`, `CaptureProofs`, `StoreProofs` | theorems for all constants (section 4) | |
| `MCWorkbench`, `MCPublication`, `MCReplay`, `MCAuthorCall`, `MCCustody`, `MCDogfood` | small instances | |

`Custody` takes ten stores that share hazards and no state; a behaviour is about one
of them, chosen in the initial state, while the others stay as they are. So the
questions are asked by one run whose states add up and do not multiply.

The workbench is cut in two at the lock. `Publication` proves that commands
exclude each other and that each takes effect wholly or not at all; under that
result `Workbench` treats a command as one step. Only `close` stays split in
`Workbench` (begin, one step per revalidated source, publish), because host and
derived files change without the lock.

### State and actions of `Workbench`

- `active` is the selected generation: `records` (JOURNAL.jsonl), `horizons`
  (HEAD.json), `snapshots`, `draft` (draft/STATE.json or `NoDraft`), `captured`
  (draft/sources), `requestedAsOf` (.META.json), `derived` (the dossier pairs).
- `host` is the source root, `closing` the close in progress, `outcome` how the
  last command that got as far as staging or revalidating ended.
- One action per command. Its guard is the list of `reject` calls before any
  work is done; `Publish` is the end of `publishMutation`: the limit, the
  verifier, then the new selector, or an error code and nothing changed.
- `VerifyCanonical`, `ValidDraft`, `ValidMetadata` and `UsableProjections` are
  translated from the verifier and not from the commands, so that
  `GateNeverFires` compares two independent pieces of code.

Abstractions: a SHA-256 of bytes is the bytes (a model value), the hash of a
record is its position (it commits to all before it), a path is a number so
that byte order is `<`. Text, scope, reason, coverage, times and line spans are
left out. The byte limit (2 MiB) is left out: bytes have no size here, so
`LIMIT_EXCEEDED` means 96 files or 64 records. A generated identifier is the
first free one instead of a random one; this is the worst case because it
reuses what an undone action had. Only the error codes that follow work already
done are recorded; a command refused by its preconditions is no step.

### State and actions of `Publication`

`lock`, `active`, `dirs` (what `.states` holds per generation: kind, the areas
present, the commands whose work it contains), `selectors` (pending
`.active-next-*`), `pc`, `base` (the generation each process loaded), `result`.
A generation is named by the command that made it, which the random suffix of
the name justifies. Removal goes area by area in any order. `Fail` may follow
every step of the `try` block. `Crash` ends a command anywhere without a clean-
up. `RemovalFails` is each swallowed `rm(...).catch`. The owner's repairs are
actions because the program has none.

### Initialization

`root` is what the name of the workspace stands for (who made it, how far it is built,
whose lock is in it), `tree` the temporary directory of each init. Only the existence
check, the steps of the tree, the rename and the clean-up are kept of an init; what
it writes is `Workbench`'s initial state. A rename over a directory that is not empty
fails with `EEXIST` or `ENOTEMPTY`: POSIX allows both, Linux gives the second.

### Replay

`ReplayVault` has the worker: commits (a hash chain is the sequence of bundles it
was computed from), the head that may lag, the staging directory, the projection;
one action per write, so that `WorkerDies` may fall between any two. `Replay` has the
controller's place in the rehearsal (preflight, source by source, two deliberate
crashes, redelivery, anchors, the comparisons of the two attempts, the report), the
capture of a child (exit, timer, output limit, signal), an operator who signals, an
editor of the runtime, and a worker that rewrites the history behind it. A second
driver starts workers directly with any bundle and fault, as the repository's tests do.

### ModelProcess and AuthorCall

`ModelProcess` keeps the state of the child, of its descendants and streams, which
timers run, the first failure that was latched, and the answer. Events come in any
order, and the event loop may hear them late. `runner` selects `runQualifiedProcess`
or the older `spawnWithInput` that it replaces in this call and that the preflight
still uses. `AuthorCall` adds the diagnostic root and its slot, the ephemeral state,
the carrier of the credential, the stages of the call and the report. A report that its
own validator refuses is answered `rejected`.

### The stores of Custody

- `IncrementalCapture`: `records` and `snapshots` on disk, what each client verified,
  prepared and has still to do. The hash link of a record says no more than its sequence
  number. A view is the set of the records it is derived from, since their numbers tell
  their order. A verification (listing and reading) is one step; times are left out.
- `PackLock`: the pack's files with content and mark (the metadata compared, a new one
  for each change), the lock file, and the place of the tool in scan, reads, judgment
  and rescan. Marks are compared as soon as they are seen and not in a last pass.
- `G1Review`: the input and its lock, tools, anchors and output; artifacts are read
  in any order; `verifyPackLock` is one step, since `PackLock` is about its inside.
- `EvaluationFreeze`: markers, staged and frozen documents, told apart by whether they
  are intact; one error code per family of errors. `codex-evaluation-freeze-v2.mjs`
  has the same control flow; it adds `validateOwnerAuthorizationRecord` before the
  first marker and a stricter public status.
- `EvaluationContract`: one task stands for the eight, which are judged alike and
  apart; fixed texts, weights and budgets are left out. The author writes at most one
  reference, for or against, under each rule and judgment.
- `OneUseReader`: a fingerprint is the number of the trace's version.
- `RecordBundle`, `PublicDogfood`: a record is named by its position, which is also its
  time; an identifier is fresh, or the event is malformed. One builder at a time, so
  the guard of the rename is always met.
- `SandboxPreflight`: entries of the fixture with content and mark; effects of the
  model and of a process that left its group; the owner may exchange the binary, or
  directories above it, or take the path of the report. A connection waits in the
  backlog until the server hears of it, which may be after `connections()` was read.

## 3. What the runs check

| Run | Instance | Properties |
| --- | --- | --- |
| `workbench_commands` | commands only; two horizon names | `EscapeIsOpen`, `JournalIsAdditive`, `AsOfIsolation`, `ClosePublishesWholeDraft` |
| `workbench_host_edits` | commands and an owner who edits host files | `RetainedIsValidated` |
| `workbench_derived_edits` | commands and an owner who edits derived files | `GateNeverFires`, `CloseRegeneratesDossiers` |
| `close_then_edit` | violation | `PublishedSourcesAreLive` |
| `publication_reliable` | three commands, a verify, no faults, fairness | `CleanWhenIdle`, `VerifyComplainsForACause`, `EveryProcessEnds` |
| `publication_faults` | three commands, kills, failed removals, repairs | `MutualExclusion`, `SelectedIsWhole`, `AppliesCommandsAtomically` |
| `publication_killed` | violation | `CleanWhenIdle` |
| `verify_during_publication` | violation | `VerifyReportsPublished` |
| `replay` | a rehearsal, direct workers, kills, timers, signals, edits, rewrites; fairness | `VaultStaysOpen`, `AnswerIsDurable`, `AcceptedHistoryIsThePack`, `ReportedCrashesWereInjected`, `OneRuntime`, `LogSpec`, `RehearsalEnds` |
| `author_call` | two starts on one root, both runners, fairness | `OneCallPerRoot`, `QualifiedIsClean`, `CarrierChangeDominates`, `ReportEventually` |
| `custody` | ten stores, one per behaviour | `DamageIsConfined`, `ClosedViewsAreFrozen`, `RebuildReproduces`, `LockDescribesOneState`, `OneCallPerAnchor`, `RecordIsOfOneReview`, `ReleaseIsEarned`, `CallsAreAccounted`, `AnswerIsOnDisk`, `FairContract`, `TraceIsReadOncePerRoot`, `PublishedViewsStand`, `BuiltBundleVerifies`, `OrderedViewsAreAsOf`, `ReportIsTrue`, `OneWholeWorkspace` |
| `dogfood_as_of` | violation | `ViewsAreAsOf` |

What they show, and what they found:

- *The verifier never refuses a legal command.* Undo, abort and reopening, and
  aliases and identifiers used again, never produce a generation that the
  workbench's own gate rejects, so `ATOMIC_PUBLICATION` is never the answer to
  a correct sequence of commands. Undo and abort are always possible, so a
  draft beyond a limit is never a dead end.
- *The past does not move.* A close appends; no dossier of a closed horizon
  ever shows anything else. The same holds of the views of a capture store
  (`ClosedViewsAreFrozen`) and of a record bundle (`PublishedViewsStand`).
- *Dossiers are trusted only when exact*, and a close repairs them even when
  the owner changes them while it runs.
- *Publication is atomic* under kills and failed removals.
- *One root, one workspace.* Inits that race leave the workspace of the one that
  announces it, and a command sees it whole or not at all. (The init that loses is
  told an internal failure on Linux: its rename is refused with `ENOTEMPTY`, and only
  `EEXIST` becomes `ALREADY_INITIALIZED`, core.mjs:1992.)
- *A replay vault never closes.* Whatever point a worker dies at, the vault loads and the
  redelivered event is answered as a fresh one would be; an accepted attempt has the
  pack's history and nothing else, also when a worker rewrote what was anchored;
  a crash is reported as injected only when it was. `Replay` implements
  `AnchoredLog`. Every rehearsal ends.
- *One call per slot.* No crash, restart or second process makes an author call, a
  review on one anchor, or a reading of a trace on one root happen twice, and
  whatever is released, recorded or reported of a call rests on evidence of that
  very call. A change of the credential's carrier is never hidden by another failure.
- *A lock describes one state.* Changes of the pack during create and verify are
  refused or do not matter.
- The capture store has no lock and no repair, and claims none: two commands that
  write at once, or a kill between the snapshots' rename and the append, leave a store
  that does not verify. What they can do is confined (`DamageIsConfined`): a record
  never names a snapshot that is not there, whatever happened; kills alone leave
  records that replay; and nothing else, no sequence of whole commands, breaks a store.
- `close_then_edit`: a source that is edited after its own revalidation and
  before the selector is renamed is not noticed, where the README says a close
  fails closed "if identity changes during the read or before close". What is
  published is still exactly what was captured and validated
  (`RetainedIsValidated`).
- `publication_killed`: a killed command leaves the lock and its residue, which
  FORMAT.md's account of failures does not admit, and nothing but the owner's
  hand removes them. The data is never harmed (`SelectedIsWhole`).
- `verify_during_publication`: verify may report missing dossiers of a
  generation that is being removed.
- `dogfood_as_of`: build and verify admit a capture that is not in the order of its
  horizons, and the view of the first horizon then shows what came after it. In
  captures that are in order the views are as of their horizons (`OrderedViewsAreAsOf`).

### Bounds

- Workbench runs: `MaxRecords` and `MaxFiles` replace 64 and 96. They are small
  enough that both limits are met by reachable drafts and large enough for two
  closed horizons, the second of which revises and asks about what the first
  recorded. `MaxActions` caps a draft (the code has no cap but the limits).
  Three sources in two horizons make sorting, duplicates and reuse happen; two
  contents and a few identities make edits by content, by identity and by
  replacement distinct. `Serials` is larger than what any behaviour consumes, so
  the generator never runs dry.
- Publication runs: three commands show a waiter, a holder and a predecessor
  whose residue both meet; with faults one of them dies and two go on. One
  verify suffices, since verify changes nothing. In the fault run commands are
  interchangeable and symmetry is used; the run has no liveness property.

- `replay`: `PackLength` = 4 is the smallest pack with both deliberate crashes, which the
  controller injects at its third and fourth source; `DirectOrders` = 2 direct starts suffice for
  a fault and its redelivery; one edit of the runtime and one rewriting of history
  at any moment, since a second one would not be noticed otherwise than the first.
- `author_call`: two starts on one root, with a crash anywhere; more
  starts are what `AuthorCallProofs` is about.
- `custody`: a capture of 8 records (`MaximumRecords`), enough for two horizons, by one
  client with five commands and one that disturbs it with one, and one kill
  (`MaxAbandoned`). A pack of two files and two contents with three changes, so that a file
  can be changed and changed back between two looks, and one can appear or vanish; one
  call of the tool (`MaxCalls`) on a pack without a lock, with its lock or with a part of one. Two
  reviewers, two anchors, two owner's acts. `MaxTampers` = 3 changes of frozen documents
  and `MaxStarts` = 2 runs on one root. Two horizons of a contract with one and two lines of
  source (`LastHorizon`, `LineCounts`, `MaxLine`). Two readers on two work roots and three
  versions of the trace. Journeys of six events (`MaxEvents`, `MaxCaptured`): a source, its
  span, a revision, its acceptance and revocation and a second decision. A fixture of one
  file and one stray name with three effects (`MaxEffects`): change, change back, and
  one more. Two inits and two commands on one root, so that one meets the other's rename or
  lock, and a directory the owner makes and takes away once (`MaxMade`).
- The limits on the acts of others (`MaxTampers`, `MaxChanges`, `MaxOwnerActs`, `MaxVersions`,
  `MaxEffects`, `MaxEdits`, `MaxRewrites`) do not stand for anything in the code.

### Fairness

Three runs need it. `publication_reliable`: weak fairness of the steps of each
process *once it was started*. The steps are sequential code awaiting file
operations that return or throw, so the operating system runs an enabled step
eventually. Nobody is obliged to start a command, and no fairness is assumed of
faults or of the owner. With kills `EveryProcessEnds` does not hold, since a
killed process stays dead.

`replay`: weak fairness of the controller's own steps, and of the timer that a capture
has set for a worker that still runs. A worker may hang for ever; nothing is asked of
it, of direct starts, or of faults. `RehearsalEnds` is therefore owed to the timer.

`author_call`: weak fairness of the controller's steps and of the runner's own
steps (timers that were set, events that were delivered). Nothing is asked of the child
or of its descendants, so `ReportEventually` is owed to the escalation timers. No
crash is obliged to happen or not to; a crashed controller owes no report.

Deadlock is not checked in the runs whose configuration says so: the processes are
finite programs that end.

## 4. What is proved

40 theorems in eight modules, each for every value of the constants that the named
assumptions allow. For a theorem that an invariant or an action property holds, the
module names an inductive invariant and proves one step per action. Every safety
property of a passing run is proved.

| Module | Theorems about |
| --- | --- |
| `PublicationProofs` | `Publication`, and that it implements `CommandStore` |
| `WorkbenchProofs` | `Workbench` and `Journal`: the action properties and `EscapeIsOpen` |
| `GateProofs` | `Workbench` and `Journal`: the verifier and the commands, the whole draft |
| `ReplayProofs` | `Replay` and `ReplayVault`, and that they implement `AnchoredLog` |
| `AuthorCallProofs` | `AuthorCall` and `ModelProcess` |
| `EvaluationProofs` | `PackLock`, `G1Review`, `EvaluationFreeze`, `EvaluationContract` |
| `CaptureProofs` | `IncrementalCapture` |
| `StoreProofs` | `OneUseReader`, `Initialization`, `SandboxPreflight`, `RecordBundle`, `PublicDogfood` |

The stores of `Custody` are proved each under its own specification (`CaptureSpec`,
`PackSpec`, ...); the run checks the same properties under one.

### Publication

`PublicationProofs` proves, for every set of commands and verifiers and with all
faults of `Next`:

- `TypesHold`: `Spec => []TypeOK`,
- `ExclusionHolds`: `Spec => []MutualExclusion`,
- `SelectedIsAlwaysWhole`: `Spec => []SelectedIsWhole`,
- `CommandsAreAtomic`: `Spec => AppliesCommandsAtomically`, that is
  `Publication` implements `CommandStore` under the refinement mapping that
  takes the history to the commands in the selected generation and a command's
  status from its place and its result,

and without faults

- `NothingIsLeft`: `ReliableSpec => []CleanWhenIdle`,
- `ComplaintsHaveACause`: `ReliableSpec => VerifyComplainsForACause`.

The argument. Exclusion is not inductive without knowing that a command between
lock and release *is* the one the lock names, which fails for no fault: a killed
command is no longer in `Holding`, a failed release ends the command first, and
the owner removes a lock only when its holder is not in `Holding`. Given one
holder, the invariant `IInv` says what each place knows: from `copy` on `base` is the
selected generation and is whole; from `link` on the command's own generation is
whole, and its value is the base's with the command appended; at `retire` the
doomed generation is not the selected one; at `unlink` and `discard` the own
generation is not the selected one. Hence only `Commit` changes the selected
value, by one command, and nothing ever removes a part of what is selected.
Without faults `TidyInv` adds that a lock has a holder that works, and that every
selector and every generation beside the selected one belongs to a command at a
place that will remove it; such a command holds the lock, and so nothing is left when
nobody does. The assumption is `ProcessAssumption`: commands and verifiers are distinct,
and `Origin` and `None` are no commands.

### Workbench

`WorkbenchProofs` and `GateProofs` prove of `Workbench`, for every set of names,
paths, aliases, contents and identities, every limit, drafts of any length and all
edits of the owner:

- `JournalIsAlwaysAdditive`: `Spec => JournalIsAdditive`,
- `ViewsOfThePastStand`: `Spec => AsOfIsolation`,
- `RetainedWasSeen`: `Spec => RetainedIsValidated`,
- `DossiersAreRegenerated`: `Spec => CloseRegeneratesDossiers`,
- `EscapeIsAlwaysOpen`: `Spec => []EscapeIsOpen`,
- `GateIsNeverFired`: `Spec /\ []IdsRemain => []GateNeverFires`, and without the
  hypothesis when `Serials` is infinite (`GateIsNeverFiredWithManyIds`),
- `WholeDraftIsPublished`: `Spec => ClosePublishesWholeDraft`.

The argument. `WorkbenchInv` says that the journal and the horizons are sequences
and no two horizons share a name (`Sound`), that what is selected has passed the
verifier, the dossiers excepted (`Verified`), and that each file a running close
has seen had the identity of its source and the captured bytes
(`ClosingSeesDraft`). Only `PublishClose` changes the journal. It appends records
(a sequence, since a draft has finitely many sources and semantic slots and
`Ascending` lists a finite set, which is a counting argument: every rank is
taken), so earlier positions stand. A view reads up to its horizon's end and the
horizons that end there; the new horizon ends later, and its name is not an older
one because the draft was verified when it was selected. Without `NamesOnce` the
step would not be inductive: a dossier finds its horizon by name.

For `EscapeIsOpen` it is not enough that undo and abort publish less: with
dossiers deleted by the owner a draft may grow into the room they took. `Roomy`
says that without dossiers the generation fits, and that whenever one undamaged
dossier is there it fits with all of them. Only a publication writes an undamaged
dossier and it counts them all; the owner can delete, damage, add or copy. Undo
and abort run on absent or exact dossiers, so in either case the smaller
generation fits, and its draft is valid because an action's validity depends on
the ones before it only.

`GateIsNeverFired` relates two pieces of code that were written apart: the checks each
command makes before it acts, and the rules `validateStagedState` applies to what was
staged. The verifier reads a journal record by record and looks for the last record of
some kind, so for `close` the proof first says what stands where in the staged journal
(`StagedLayout`, `StagedPositions`): the old records, the opening, the sources by path,
then for each other action a slot for its statement and before it one for its evidence,
and the end. Every new record then passes because of what the draft validator said of
its action, and the validator ran when the draft was published (`SoundDraft`). One case
is circular: a revision may revise an assertion of its own draft, which is good only if
earlier ones are; the proof takes the least position that does not pass. Every other
command extends or shortens a draft that was valid, and for it the proof has one lemma
(`SourcePasses` to `RebuildPasses`).

That no two records share an identifier does not follow from the validator alone. It
compares an action's identifiers neither with the draft's own nor with the closing
record's, nor those of one action with each other. The invariant `Drawn` says that every
identifier was drawn with the prefix of what it names (`src`, `ast`, `rev`, `evd`,
`qst`, `hor`, `cls`), so that only identifiers of one kind can meet, and those the
commands do compare. `IdsRemain` says that of each prefix one identifier is unused. The
code draws a random UUID up to eight times until it finds one that is not taken, and
otherwise rejects with `INTERNAL` (core.mjs:231-242); in the model a draw among none
would be any identifier, so the hypothesis leaves out what the code rejects. It holds
throughout the workbench runs (eight random parts), and always when there are infinitely
many (`InfiniteIdsRemain`: what a journal and a draft take is finite).

For `ClosePublishesWholeDraft` the map from the actions to the positions of their
records is shown to be increasing and onto the statements among the new records; such a
map takes the k-th of one to the k-th of the other (`AscendingOfImage`). That needs no
identifiers at all, only the layout.

The assumptions are those of the module: `NamesAssumption` (the reserved entries are no
horizon names), `NoneAssumption` (JSON's null is no identifier, alias or assertion's
revision), `InitialHostsAssumption` (hosts hold files), `PathsAssumption` (paths are
numbers, in the order of their bytes) and `MaxFilesAssumption` (a limit that an
initialized workspace meets). Only the theorems on the gate need the identifier
generator to return fresh identifiers: for the others it is enough that the gate refuses
a generation that repeats one.

### Replay

`ReplayProofs` proves, for packs of any length and any number of direct starts, edits
of the runtime and rewritings of history:

- `VaultsStayOpen`: `Spec => []VaultStaysOpen`,
- `AnswersAreDurable`: `Spec => []AnswerIsDurable`,
- `AcceptedHistories`: `Spec => []AcceptedHistoryIsThePack`,
- `InjectedCrashes`: `Spec => []ReportedCrashesWereInjected`,
- `OneRuntimePassed`: `Spec => []OneRuntime`,
- `ReplayIsAnAnchoredLog`: `Spec => LogSpec`.

The argument. A commit names its bundle, the head it follows and its own head, and a head
is the sequence of bundles it was computed from; so a chain that loads is the only one
with its last head (`ChainedIsTheOnlyChain`). As long as history was not rewritten,
`VaultInv` says at each place of the worker how far the commits, the head, the staging
directory and the projection are: the commits are a chain, and the head is its last or
the one before it. A worker that dies anywhere leaves a chain, therefore, and the head
lags by at most one, which a start repairs.
Of the controller, `Place` says what is anchored and what is in the vault at each of
its places, `Honest` that what is anchored are the pack's bundles in order, and that a
vault that was rewritten contains a forged source under an anchor: then the chain
cannot have the anchored head, and the next comparison fails. `Crashes` counts the
crashes that were asked for; a kill by a timer or the operator is told from them because
`timedOut` or `cancelled` is set before the worker can have died of it, and the operator's
always ends the rehearsal. `Identities` follows which results were compared with which.
For the refinement the log is the sequence of the vault's bundles, what is anchored is the
last anchor, and accepted is an attempt that ended: publication appends an event that is
not there yet, an anchor follows only after a comparison with the one before it, and the
next attempt begins by throwing both away. The assumptions are `DriversAssumption`, `BoundsAssumption`, and
`SourcesAssumption`: a pack and a forger take their items from `Sources`.

### Author call

- `OneCallForOneRoot`: `Spec => []OneCallPerRoot`,
- `GoodAnswersAreOfGoodCalls`: `Spec => []QualifiedIsClean`,
- `CarrierChangesAreReported`: `Spec => []CarrierChangeDominates`.

`SlotInv` says that a controller between the commit of the slot and the call is the only
one that ever will be: the slot is on disk and no call was made yet. `ProcessInv` relates
what the runner has heard to what the child did: until it answers, no failure latched
means that the output kept within its limits, that a signal was sent only to what lingered
after the exit, and that the input was read. `ReportInv` follows which stages passed,
`CarrierInv` that once the carrier changed during the call no later failure but that of
the state's removal replaces it. Both runners are covered, and any order of events.

### Evaluation

- `AcceptedLocksDescribeOneState`: `PackSpec => []LockDescribesOneState`. `LockInv` says that
  a file whose mark is still the one of the scan has the content that was read, since each
  change takes a later mark, and that a pack which no longer is what was read has a mark or
  a directory that the rest of the rescan finds changed (`Doomed`).
- `ReleasesAreEarned`, `AnswersAreOnDisk`, `EveryCallIsAccounted`.
  A release says nothing of how it came about; `FreezeInv` carries what each place of the
  run knows (which markers and calls there are, which documents were made and were
  intact when they were compared) from the first marker to the release, and what a
  terminal record counts. The bounds on starts and tampering play no part.
- `AdmittedContractsAreFair`. `ContractInv` says what has been admitted so
  far at each part. That an admitted contract has *exactly* one cell for each horizon and
  arm is a counting argument (`OneCellEach`): as many cells as keys, all keys met, so no
  key twice, by the library's theorem on surjections between sets of one cardinality.
- `AnchorsStandForOneCall`, `RecordsAreOfOneReview`. `ReviewInv` says
  whose report, trace and record an anchor holds, that nobody but the one who created the
  report gets as far as the call there, and which digests each reviewer compared.

### Capture store

For any number of clients that take no lock, partial appends and kills:

- `ClosedStaysClosed`: `CaptureSpec => []ClosedViewsAreFrozen`,
- `RebuildsReproduce`: `CaptureSpec => []RebuildReproduces`,
- `DamageStaysConfined`: `CaptureSpec => []DamageIsConfined`.

A log is well formed exactly when each record is, seen from its own position, so that a
beginning of a well-formed log is well formed and a longer log shows of a closed horizon
what the shorter did. `CaptureTypes` says that a log is a sequence of records and that a
command holds records of the right kinds; this is enough for the first theorem, however
broken the log is. `ViewsInv` says that every view on disk, held by a command or in the last
comparison is that of *some* well-formed beginning of the log; two such views of a closed
horizon agree. `CauseInv` says that with no cause so far at most one command writes, that
the log with its records is well formed, and that it names the snapshots which are there
once the stage was renamed. For what holds after a cause there are two weaker invariants:
`NamedInv`, that the snapshots of a command's records are placed before it appends them,
and `ReplayInv`, that unless two wrote at once the log replays with all the one writer is
about to append. A kill leaves a part of that, a beginning of a log that replays
(`BeginningReplays`, `PartOfAnAppend`). `EveryStep` sorts the twenty actions into the six
things that a step may do to the log and the snapshots.

The property of the rebuild had been that what is compared is the view that was there. The
runs with two clients agreed; the proof did not go through, and with three clients TLC
finds why: while one client is between the rename of its rebuilt view and the reading
(`incremental-capture-v1/core.mjs`:1324-1366), a second may remove it and a third, which
derived its view while the horizon was open, may put that one in its place. The code then
answers `PROJECTION_REBUILD_MISMATCH`. `RebuildReproduces` therefore says that what is
*built* is the view that was there, and that what is read back is that one unless it shows
a horizon not yet closed. (TLC finds no violation with three clients either.) The
assumption is `CaptureAssumption`; it now says that the manifest is finite.

### Other stores

- `TracesAreReadOnce`. `ReaderInv` says that of the readers of one root
  at most one is past the exclusive create, that its slot is on disk, and that what it
  judges and shows is the version that was there when it committed. The assumption is
  `ReaderAssumption`: there are work roots.
- `OneWorkspaceIsMade`: `InitializationSpec => []OneWholeWorkspace`. `RootInv` says that a root
  made by an init is whole and stays, since neither a rename nor a removal touches a
  directory that is not empty, that an init which has renamed or announces success is the
  one whose root it is, and that a command between taking and giving back the lock is the
  one in `root.lock`.
- `ReportsAreTrue`: `PreflightSpec => []ReportIsTrue`. `ModelIsFollowed` says what can have
  happened to the fixture when its marks are those captured; a change and a change back
  leave a later mark. `BinaryIsFollowed` does the same for the binary, as long as no
  directory above it was exchanged (`rerouted`): that leaves the file's own metadata as it
  was, and the code does not compare the directories. Nor does a report speak of a
  connection that was made but not heard of by the end of the call.
- `PublishedViewsAreFinal`: `BundleSpec => []PublishedViewsStand`. The author only appends to
  the contract; a policy view of a beginning reads records up to its horizon's date, which
  are the same ones in a longer beginning that verifies (`BundleInv`: everything built,
  published or projected is such a beginning).
- `BuiltBundlesVerify`, `OrderedViewsHold`. `DogfoodInv` says that the checks made before the build
  still hold of the capture; what they imply of the records built from it is the
  lemma that the verifier accepts them.

Their assumptions are those of the modules: that owners and processes are told apart
(`InitializationAssumption`), that a profile's horizons are ordered by their dates
(`BundleAssumption`, which the profile's validation enforces), and that bounds are numbers.

### Only model-checked

- Liveness (`EveryProcessEnds`, `RehearsalEnds`, `ReportEventually`), which is outside the
  prover's reach.
- The properties of the violation runs, which do not hold.

Types are proved too (`TypesHold`, `RecordsAreTyped`, and a part of each invariant)
and are no longer part of the runs: the other theorems rest on them.

## 5. Not modelled

- `readSelectedFile`'s walk over links and directories and its stat, read, stat:
  a revalidation is one atomic look at one host file.
- `lineSpan` and `compareUtf8`, pure functions on bytes; the byte limit.
- Edits of derived files between the precondition and the copy of commands
  other than `close`: only the error code would differ.
- A workspace whose root the owner removes while a command runs.
- The worker's `export`, the text of passages, and the generation of packs.
- The event stream's grammar of a provider, prompts, profiles, and the text of
  reports; identity of the tooling is one value that may change.
- The role map's grammar of a private pack, links and size limits in it.
- `codex-evaluation-freeze-v2.mjs` apart from what it shares with the first version.
- Two builders of one record bundle at once, and `evidence.mjs`'s matching of text.
- A fixture that stays when the preflight cannot open its server, and a binary that is
  exchanged after the last comparison and before the probe starts it by its path:
  `ReportIsTrue` speaks of the binary that answered with its version.
- Qualification and release scripts, `check.mjs`, `preflight.mjs`: straight-line code
  over files of the repository, without a state of its own that a step could break.

## 6. What would come next

1. The pure functions `lineSpan` and `compareUtf8` against reference definitions.
2. The steps of the other workbench commands between their look at the dossiers and the
   copy, as `close` has them.
3. `codex-evaluation-freeze-v2.mjs`'s additions as a module that instantiates
   `EvaluationFreeze`.
