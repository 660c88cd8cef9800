# oh-my-reasonix: a verification project

oh-my-reasonix (OMR) is a Go program, `omr`, that sits beside the Reasonix
coding agent: it installs a composed system prompt, keeps a canonical store of
memory facts ("Mnemosyne") with published generations, learns from runs
("evolution"), and guards the comments an agent writes. It has no server.
Everything it knows is files, written by short-lived processes that may run at
the same time and may die at any write. What can go wrong is therefore the
order of file writes, the interleaving of processes around one lock, and what a
second process finds after the first one died. That is what the modules here
are about.

Paths below are relative to `src/`; `memory/` stands for `internal/memory/`.

Contents: 1 inventory, 2 modules, 3 runs and bounds, 4 fairness, 5 proofs,
6 findings, 7 what is not modelled, 8 plan.

## 1. Inventory

### Memory: state on disk and who writes it

| Component | State it keeps | Operations that change it |
|---|---|---|
| Store write lock (`memory/lock.go`) | a channel of capacity one in every open `FactStore`, and the flock on `locks/store.lock` | `acquireWriteLock`, its release, `LockInfo` (takes the flock for a moment) |
| Fact store (`memory/store.go`) | `facts/<kind>/<id>.json`, created without overwrite | `Put`, `PutBatch`, `putLocked`, `putBatchLocked` with its undo |
| Generation transactions (`memory/generation_store.go`) | `idempotency/<key>.json`, `transactions/<tx>/{prepared,prepared-manifest,commit,abort}.json`, `generations/<gen>.staging`, `generations/<gen>`, `CURRENT` | `Begin`, `PrepareFact`, `PrepareManifest`, `WriteCompiledOutput`, `ValidateStaging`, `Commit`, `Abort`, `Release` |
| Recovery (`memory/generation_recovery.go`) | the same | `Recover`: completes claims and the commit audit of CURRENT |
| Rollback (`memory/rollback_apply.go`, `rollback_plan.go`) | `rollback-idempotency/<key>.json`, `rollbacks/<id>.json`, `CURRENT` | `BuildRollbackPlan` (reads), `ApplyRollbackPlan` |
| Migration (`memory/migration*.go`) | facts of the target store, `migration-snapshots/`, one generation | `BuildMigrationPlanFromStores` (reads), `ApplyMigration`, `ApplyMigrationCopy` |
| Captures (`memory/usage_capture.go`, `attribution_capture.go`, `override_capture.go`) | usage, outcome and judgment facts | `CommitMemoryUsages`, `CommitOutcomes` (batches under the lock), `CommitAttributionOverride` (one `Put`) |
| Governance (`memory/governance_capture.go`) | governance facts | `CommitGovernanceEvent`: checks without the lock, then one `Put` |
| Derived state (`memory/derived_state.go`) | none: a function of the facts | `DeriveState` with the lifecycle thresholds |
| Curation (`memory/revision_apply.go`, `merge_apply.go`, `split_apply.go`, `generalize_apply.go`, `promotion*.go`) | revisions and promotion candidates of the project stores and the global store | plans (pure), then one `Put` or `PutBatch`; `PublishPromotionGeneration` in a generation transaction |
| Compilers (`memory/okf_compiler.go`, `index_tree.go`) | the files of a generation | `CompileOKF`, `compileIndexNode`, `ValidateIndexTree` |
| Retrieval and evaluation (`memory/librarian.go`, `evaluation_context.go`, `critic_requirement.go`, `conflict_requirement.go`, `revalidation.go`, `evidence_validated_gate.go`, `retrieval_evaluation.go`) | a pin in memory; reviews are facts | pinning, lookup, receipts, the rebuild of a removed generation, the gates |
| Doctors, benchmarks, web views | none | readers |

How they interact. All writers of one scope share the store lock: `Put` and
`PutBatch` (store.go:250, 267), the captures (usage_capture.go:189,
attribution_capture.go:202), `Begin` (generation_store.go:334, held by the
returned transaction until Commit, Abort or Release), `Recover`
(generation_recovery.go:223) and `ApplyRollbackPlan` (rollback_apply.go:84).
Readers never lock. Three operations decide *before* they lock and write
*after* it: `Begin` (the claim), `Recover` (CURRENT and the claims) and a
rollback (its plan). `CURRENT` is the single commit point; claims, records and
audits around it are repaired or replayed. The callers of `Begin` are
`PublishIndexGeneration` (index_publish.go:52), `PublishPromotionGeneration`
(promotion_generation.go:38) and `ApplyMigration` (migration_apply.go:73);
`Recover` is called by tests and by whoever embeds the package, no command runs
it.

What makes them correct:

- *lock*: no path out of an acquisition leaves a guard or a flock behind; a
  wait ends.
- *transactions*: CURRENT names only complete generations; of several
  transactions begun on one CURRENT one wins; a replayed key has one effect; a
  commit record is earned; published things never change.
- *recovery*: what was decided without the lock is still true when it is
  written.
- *rollback*: the audit tells the truth at every crash point, and what an
  operator is told is what happened.
- *fact store and migration*: a failure undoes what the batch created, and only
  that; nothing that an effective generation reads, or that a client was told
  is stored, disappears.
- *captures and governance*: whatever races or dies, the store stays one that
  `DeriveState` accepts; a batch meets its conflicts before its first write.
- *derived state*: a memory is active only on what it earned, a harm is never
  forgotten, and no event lifts a freeze that the evidence calls for.
- *curation*: revisions of a memory form one line, a split is whole, what is
  global stands on stored sources.
- *index, retrieval, evaluation*: every entry of an index can be reached by its
  routes; a reader's receipt and a verdict about a pinned world do not move with
  what is stored or published later.

### Evolution (`internal/evolution`, `cmd/omr/evolve.go`, `run.go`)

State: `episodes/`, `patterns/`, `proposals/`, `observations/`,
`experiments/`, `snapshots/`, `overlay.md`, `maintenance/` below
`.reasonix/omr/evolution`, and the installed prompt. Operations: `recordRun`
and `ObserveApproved` after every `omr run`; `approve`, `reject`, `rollback`,
`import`, `prune` and `repair` commands. There is no lock: each file is
replaced atomically, and nothing more. Correct means: nothing is in force that
the promotion gate did not pass; an approval can be undone; an automatic
rollback has its two failures; evidence of live proposals survives pruning, and
what is pruned can be put back; every class of failures that repeats gets its
pattern and proposal; a review is not overwritten.

### Installation, comment hook and guard (`internal/install`, `manifest`, `commenthook`, `commentchecker`)

State: the generated prompt, the profiles, one key of `reasonix.toml`, the
Comment Checker entry of the host's `settings.json`, `manifest.lock.yaml`, which
says which of these are OMR's, and the guard's audit log. Operations: init,
upgrade, uninstall, hook enable and disable; each reads, plans, writes file by
file and puts its files back when a write fails. The guard decides a call and
appends its decision to the log by reading, cutting and replacing it. No lock is
taken anywhere. Correct means: the user's key comes back, what OMR wrote is
claimed by a manifest, the record of the hook agrees with its entry, and a
decision that could not be logged never looks like a success.

### Configuration, imports, prompts (`config`, `promptcompose`, `claude`, `grillme`, `grillwithdocs`)

Parsing, merging and composing of text.

### Runner, task monitor, profiles, benchmarks (`internal/reasonix`, `cacheguard`, `doctor`, `profilebench`, `qualitybench`)

Processes and HTTP traffic of other programs, and reports about them. No state
of OMR's own.

### What is hard here

| Behaviour | Where |
|---|---|
| several processes between two writes of one of them | everywhere but under the store lock |
| a process dies between two writes | claim / record / manifest / directory / CURRENT / commit record / claim; claim / record / CURRENT / record / claim of a rollback; snapshot / facts / generation of a migration |
| decided without the lock, written under it | Begin, Recover, ApplyRollbackPlan, every capture, governance event and curation plan |
| written without the lock after it was given back | the undo of a migration |
| a retry meets the traces of its first attempt | Begin with a used key, Commit after committed-recovery-pending, a repeated rollback command, a repeated migration |
| facts that arrive out of the order of their dates | overrides, governance events, reviews, evaluations |
| a world pinned by name while what it was made of goes on changing | retrievals and their evaluations |
| several files that must agree, written one by one, edited by a user meanwhile | installation, hook |
| deadlines | the flock is polled up to a deadline (5 s by default), the guard is not |

`PROJECT.json` lists each hazard at its line with the properties that watch it.

## 2. Modules

| Module | Models | Abstract or detailed |
|---|---|---|
| `CommitPoint` | what the generation store promises a client | abstract |
| `GenerationStore` | generation transactions and recovery, one action per durable write | detailed, implements `CommitPoint` |
| `RollbackStore` | audited rollbacks, beside transactions, aborts and recoveries reduced to the writes a rollback can meet | detailed for rollback |
| `StoreLock` | the guard channel and the flock | detailed; the other modules take the lock in one step |
| `Migration` | `Put`, the batch with its undo, `ApplyMigration` | detailed for facts; a generation is published in three steps |
| `Evolution` | episodes, patterns, proposals, overlay and prompt, and the commands on them, which share no lock | detailed, one action per write |
| `DerivedState` | `DeriveState`: what the facts of a store say about a revision | operators, used by the next two |
| `Governance` | captures, overrides, judgments, governance events and revisions, by processes over one store | detailed; extends `DerivedState` |
| `Curation` | revise, merge, split, generalize, promote, publish, over project stores and the global one | detailed for facts; a publication is three steps |
| `IndexTree` | the sharded routing index of a generation | operators |
| `Retrieval` | compilation, publication, pinning, receipts, removal of generations | detailed for readers; extends `DerivedState` and `IndexTree` |
| `Evaluation` | reviews, gates, revalidation, verified evaluations in a pinned world | operators on the state of `Retrieval`, which it extends |
| `Installation` | the files of a user's project and their manifest, one action per write | detailed |
| `CommentGuard` | the guard and its audit log | detailed |
| `GenerationProofs`, `MigrationProofs`, `EvolutionProofs`, `GovernanceProofs`, `CurationProofs` | theorems about the modules they extend | |
| `RollbackProofs` | theorems about `RollbackStore` and about `StoreLock`, both of which it extends | |
| `InstallationProofs` | theorems about `Installation` and about `CommentGuard`, both of which it extends | |
| `EvaluationProofs` | theorems about `IndexTree`, `Retrieval` and `Evaluation` | |
| `MC...` | instances for TLC | |

Each module's actions carry the names of the functions they model;
`PROJECT.json` ("map") gives the lines of every definition. A definition under
the comment "Mutant" is a plausible bug: put in the place of the definition
that follows it, it makes TLC find the property named in `PROJECT.json`
violated.

### GenerationStore

An idempotency claim is created without overwrite and draws one random
transaction id and one random generation id, so a key, its transaction and its
generation are one value, a member of `Tx`. One variable stands for each kind of
file: `claim` and `request` (idempotency), `record` (prepared.json),
`prepManifest`, `views` and `doc` (staging), `manifestFact`, `published`,
`current`, `commitRec`, `abortRec`. `lock`, `pc`, `tx`, `wants` and `todo` are
the processes' memory, and `effective` is history.

- *Begin* is `Claim`, `CreateTxRecord` (outside the lock), `BeginLock`,
  `FinalizeBegin`. A second caller may arrive at any point in between, ask for
  another base, wait for a record that never appears, or time out.
- *Commit* is `StartCommit` (terminal records, manifest verification and the
  staging document), `PutManifest`, `Publish`, `CheckBase` (CURRENT is read
  again under the lock), `SwitchCurrent`, `WriteCommitRecord`,
  `UpdateClaimStatus`. Each write may fail. Before the switch a failure returns
  and releases; after it the handle keeps the lock and is pending recovery, and
  the caller may retry, abort or release.
- *Recover* reads CURRENT (`StartRecover`), then the claims and the commit
  record (`ScanRecover`) without the lock, and writes them under it, one by one.
- `Crash` is possible at every point.

Data that no property tells apart is gone: hashes are equality of model values,
the compiled output is "none, bare or full" (`Docs`: what generation.json pins
with no document, with no views and with views), and a manifest is a value that
`Verified` accepts or not. Manifests of one transaction differ because
`created_at` does.

### RollbackStore

A command is a key and a target generation; every invocation plans anew, as
`cmd/omr/memory.go` does. The five writes of `ApplyRollbackPlan` (claim, record,
CURRENT, record, claim) are five actions, and `Crash` stands for a death or a
failing write at any of them. Transactions keep their publication, the
comparison with the base, the switch and the commit record; Abort is one step
because it is one write under the lock. Recover's read of CURRENT and its write
are separate.

### StoreLock

A thread enters the guard of its store (`EnterGuard`) or is cancelled there,
polls for the flock (`TakeFlock`, `TimeOut`, `Fail`), holds, and releases in two
halves (`Unlock`, `LeaveGuard`). `Keep` is a caller that returns with the lock
left in a transaction that is pending recovery. `Probe` is `LockInfo`. `Die`
ends a process, whose descriptors the kernel closes.

### Migration

`Resolve` is the first pass of the batch (every fact is looked up before the
first write), `CopyFact` and `UndoFact` are its writes and removals one by one.
A batch is a set: it is written and undone in any order, of which the code's
(the order of the plan, and its reverse) is one.
The point of the model is *where the lock is*: an error before Commit is undone
under the lock and then aborted (`UndoDone`); an error of Commit has already
released it (`Unlock` in `CheckBase` and `Fail`), and the facts are removed
beside other clients. `owner`, `sealed`, `acked` and `effective` are history.
`Rollback` and `Recover` are there as environment: they can make an undone
migration effective.

### Evolution

The processes are commands: a run (`RecordEpisode`, `SaveObservation`,
`DetectPattern`, `SavePattern`, `Propose`, then `ObserveApproved` and `NextDue`),
`omr evolve approve` (`StartApprove`, `SnapshotOverlay`, `WriteOverlay`,
`ComposePrompt`, `InstallPrompt`, `Approve`), `reject`, `rollback`
(`StartRollback`) and the automatic rollback (`RollbackDue`), which go on with
`ComposePrompt`, `InstallPrompt` and `Withdraw`, `prune` and `repair` (`SaveSnapshot`, `Remove`, `Rewrite`). What a
command decides is kept in `plan`, `target`, `loaded`, `old` and `draft` until it
writes, so that everything it has read may be out of date by then. A failing
write ends a command (`Stop`), except where the code answers it: a run goes on to
observe (`FailRecording`), an approval puts the overlay and the prompt back
(`FailInstall`, `UnwindOverlay`, `RevertPrompt`), maintenance restores
(`FailMaintenance`).

A pattern's id is a hash of its task class, so the class stands for it. A
proposal is a file under its id and holds its status, pattern, text and
`approved_at`. The id is the hash of the pattern's (`Default`) when nobody was
asked for a proposal. After a run whose events omr recorded itself (run.go:91) a
model is asked, and `recordRun` keeps the id and the `approved_at` of the JSON it answers with; only
schema, pattern, status, evidence count and `updated_at` are overwritten. So
`Propose` writes any of `Answers` under the id the model chose, over whatever
that file holds: one class may have several proposals, and a proposal may be
replaced by one of another class (`Proposable`). Reviews save the whole proposal
as they loaded it (`SaveProposal`). `Sound` are the texts that pass the promotion
gate. The clock counts runs; an approval lies between two of them. `recorded` and
`gated` are history, `saved` is what the maintenance snapshots hold.

### DerivedState and Governance

A store is a set of facts, and a fact is a record. `DerivedState` computes what
`DeriveState` does: which outcomes count (`Attributed`, after overrides), the
confirmation chain, governance in the order of instants, lifecycle, health and
freshness. Judgments and events carry distinct instants, which stand for their
ids. The thresholds are the code's own (three harms and sixty per cent, three
helps of two episodes). Cost figures and texts are left out.

`Governance` adds who writes those facts. Every command reads the store and
builds its facts without the lock (`CaptureUsages`, `CaptureOutcomes`,
`OverrideOutcome`, `Govern`, `Judge`, `Revise`, `CaptureEpisode`) into `draft`,
then locks: a capture runs its preflight (`LockBatch`) and writes fact by fact
(`WriteOne`), the others put one fact (`PutOne`). Nothing is undone when a
process dies (`Crash`), and the same capture may come again. The instants that
callers pass as `--now` are inputs and arrive in any order.

### Curation

A plan binds nothing to a store: a request is a plan together with its targets,
`Build...` is what building it checks, `Apply...` what is read back, without the
lock, when it is applied. The targets are then written under the lock, with the
undo of `PutBatch` (`LockPut`, `WriteOne`, `WriteFails`), or inside a generation
transaction that keeps the lock of the global store (`BeginPublication`,
`PutTarget`, `CommitPublication`, `AbortPublication`). Ids that are hashes are
tuples of what is hashed.

### IndexTree, Retrieval and Evaluation

`IndexTree` is `compileIndexNode` over sets: a page, or a split along the first
dimension that tells its entries apart, with the growing prefix of the stable
id. `CompileIndexNode(node, a)` is the body of one call `a`, which finds what the
calls below it return in the function `node`; `CompileIndexTree` ties the knot
with a recursive function over all calls. In `Retrieval` a publisher begins, compiles from facts and commits if CURRENT
is still what it began from; how that is done durably is `GenerationStore`'s
matter. Readers pin the two stores one after the other and accept receipts;
`CleanUp` removes a generation from the disk, pinned or not, and `Rebuild` says
what compiling it again from its manifest comes to. `Evaluation` has no steps:
the gates are functions of a pinned world and the reviews stored so far, and its
properties compare their answers before and after every step of `Retrieval`.

### Installation

Contents are what the commands compare: a prompt is a release and the text of
the user's file that it was composed of (`TextOf`), so that two values of the key
that name files of one text make one prompt, as they make one hash in
`Compose`; blank text is no user prompt, and its source is not kept
(`UserSource`). A profile is the release that shipped it, an entry is
the release whose executable it calls. A command has a plan, a function from
files to contents, made from what it reads when it starts: `todo` is what is left
of it and `before` what its rollback puts back. `WriteNext` writes one file, in
the order of the code (`Rank`: an installation puts prompt and profiles in place
before the key that names them, an uninstall gives the key back first, both
write the manifest last; profiles among themselves come in any order).
`Fail` is a failing write, `Die` a death; the user may edit any file at any time,
also under a running command. `scars` remembers what a death may have left, so
that a property can say exactly which state it does not promise.

### CommentGuard

`RunGuard` decides, `ReadLog` reads, `ReplaceLog` cuts and replaces, `FailLog` is
a log that cannot be read or written. A line of a file is what its comment holds,
and the first rule that matches is its finding, as in the scanner.

## 3. Runs and bounds

| Run | Asks | Result |
|---|---|---|
| `generation_store` | Do the four safety invariants, two action properties and the refinement of `CommitPoint` hold? | pass, 1.3 million states |
| `rollback_store` | Do the rollback audit, the commit records and the answers to operators stay consistent? | pass, 1.7 million states |
| `store_lock` | Is nothing leaked, and which waits end? | pass, 296 states |
| `migration` | Does the undo remove what it must and nothing else? | pass, 413 thousand states |
| `evolution` | With failures and deaths anywhere, and a proposer that reuses ids: is only what was gated in force, can every approval be undone, does a live proposal keep its evidence? | pass, 1.5 million states |
| `evolution_races` | With two processes at a time and a failure or death anywhere: do observations rest on what exists, and is no evidence lost for good? | pass, 1.8 million states |
| `governance` | With racing and dying commands: does the store stay derivable, does a batch meet its conflicts first, is activity earned, harm remembered and a freeze by evidence kept? | pass, 58 thousand states |
| `curation` | With racing plans, failing batches and deaths: are lineages single, splits whole, global memories grounded, publications complete? | pass, 268 thousand states |
| `installation` | In every order of commands, edits, a failing write and a death: does the user's key come back, is everything claimed, does the hook agree, can an uninstall be resumed? | pass, 5.1 million states |
| `comment_guard` | With two guards and a failing log: does the log hold the latest decisions, and is a decision without its entry never a success? | pass, 207 thousand states |
| `retrieval` | While facts arrive, CURRENT moves and a generation is removed: are receipts earned, indexes routable, and verdicts stable when later facts arrive? | pass, 43 thousand states |
| `unfreeze_allowed` | Is an unfreeze accepted when the evidence does not freeze (04C, 3.2)? | violated |

Some configurations are kept beside these runs, each for one statement of the
repository that TLC refutes or for what a retry does; run them by hand with
`tlc -config <file> <module>`. Section 6 says what each shows:
`MCGenerationStore_EffectiveNotAborted`, `MCGenerationStore_RetryCompletes`,
`MCRollbackStore_RollbackSettles`, `MCStoreLock_WaitsEnd`,
`MCMigration_AckedStay`, `MCEvolution_RolledBackIsOut`,
`MCEvolution_RollbackEarned`, `MCEvolution_EvidenceKept`,
`MCInstallation_ValueGivenBack` and `MCCuration_SourcesStay`.

The type invariants (`TypeOK`), and `CurrentPublished` and `MovesWhatItRead` of
`RollbackStore`, are not listed by the runs, which keep to the properties that
say more. All of them are proved except the `TypeOK` of `Retrieval`, which holds
on the instance of its run and which no theorem needs. `Derivable` contains the
type invariant of `Governance`. Every conjunct of an inductive invariant of section 5 was checked
by TLC on the instance of its module's run before it was proved.

Bounds, and why they are enough for what the properties say:

- *generation_store*: two keys, the second built on the first and also asked for
  on the empty store; two processes; two manifests that verify and differ
  (one that does not verify takes the exit of a staging that cannot be built).
  Races, replays, a reused key with another request, a lost race for
  CURRENT and a takeover after a crash all need two of each and no more. Only
  `t2`'s compiler writes views, so a retry is seen with and without them.
  Nothing else is bounded: crashes and failures are unlimited, as every counter
  is absent. Processes are symmetric, and so are the manifests. The
  theorems remove these bounds.
- *rollback_store*: three generations, two commands with different targets (so
  that CURRENT may move away and back), two processes, `MaxCrashes = 2`: one
  death for each of the two processes, or two for a command and its repetition.
  The theorems remove these bounds too.
- *store_lock*: two threads on one store and one on another: contention for a
  guard, for the flock between stores, and of both. `MaxDeaths = 1` because
  deaths need a bound for the liveness properties to say anything.
- *migration*: two migrations that share an input and differ in their source
  manifest, writers of the shared fact and of one that conflicts with it, two
  processes, `MaxCrashes = 1`, `MaxFailures = 1`. One batch of two facts is
  enough for "in the middle".
- *evolution*: two classes, two ids, one process, `MaxFailures = 1`: one death or
  failing write, wherever it falls, and whatever commands follow. A proposal is
  the standard one or one of two answers of a model: a sound text under the id
  that the other class has by default, and an unsound one, with an `approved_at`
  of its own, under an id that may be approved already. `Threshold = 2` (the code's
  3, scaled so that four episodes hold the patterns of both classes; every other
  use of the number is relative to it). Every task fails and `Keep = {0}`, the
  cases in which patterns arise and prune removes most.
- *evolution_races*: one class, two processes at a time, `MaxFailures = 1`,
  `Threshold = 1` and two episodes: a pattern, a review and its end, with any
  command, a failing write and a death in between. The two runs divide what one
  run could not reach together: classes and answers in the first, interleavings
  in the second. The configurations kept by hand have a third episode, so that
  two failures undo an approval, and no failing writes.
- *governance*: three worlds, each one step before something happens. In the
  first a revision has two helps, and its third may come from the same task
  again, from another one, or as a harm under the same identity; in the second
  it has two harms, a third and the governance events that would lift its
  freeze; in the third two memories are revised, judged, pinned and frozen at
  once. Two processes, two instants, one death. The thresholds are the code's.
- *curation*: a project with two revisions for one number, a third built on one
  of them, a merge, two different splits of one memory and a revision of one of
  their branches; and three projects with plans that forget a source, cover one
  family twice or compile what is not there. Two processes, two failing writes,
  two deaths.
- *installation*: two releases, of which the second ships one profile more and
  one less, three values the user may give the key, two edits, one failing write,
  one death. Two values name files of one text, the third a blank file, so that a
  prompt may fit a value it was not made of; the two are interchangeable
  (`SameText`) and the run uses that symmetry. One
  command runs at a time, backups of the settings are not kept, and the restore
  after a failing write succeeds in one step.
- *comment_guard*: two guards, a log of two entries, four decisions (the log is
  filled twice over), one failing write, three projects: clean, with a warning,
  and with a line whose marker hides a credential. The entries fit their byte
  limit, as all entries the guard writes do.
- *retrieval*: two stores, two publishers, one reader, two generations per store,
  one of them removed. Three worlds: four memories whose index must split twice
  while one is frozen and one superseded; reviews that arrive out of the order of
  their dates; evaluations of one memory under two policies, with a judgment whose basis
  is only stored later, by evidence of a later date. Instants are 1..5.

`CHECK_DEADLOCK` is off where the system may really stop: in the runs of
`Evolution` (once the episodes are used up and there is nothing to review, prune
or repair, no command has anything to do), of `Governance` and `Retrieval` (their
worlds hold finitely many instants and requests) and of `Installation` (a user's
own file at a managed path makes every command refuse). In every other run some
process can always start something, and that is checked.

## 4. Fairness

Safety runs assume none. Liveness is stated in two modules; the commands of the
others end by themselves or are never obliged to start:

- `StoreLock!Fairness`: code that runs goes on running, so a poll ends in the
  lock or at its deadline (weak fairness of `TakeFlock \/ TimeOut`), a holder
  releases or keeps, a release and a probe finish. `EnterGuard` has strong
  fairness because a Go channel serves its waiting senders first in, first out:
  a guard that becomes free again and again reaches everyone. Nobody is assumed
  to ask for the lock, to cancel, or to release a lock that was kept, and the
  last is exactly why `WaitsEnd` fails and `WaitsEndIfReleased` holds.
- `RollbackStore!FairSpec`: a process finishes what it started (weak fairness of
  its steps), and a command is repeated for as long as it is eligible (strong
  fairness of `PlanRollback`, since other commands may make it ineligible for a
  while). This is generous: `RollbackSettles` fails in spite of it, in the
  configuration kept by hand.

## 5. Proofs

TLC shows a property of a small instance; the theorems hold for every value of
the constants: for any number of processes, stores, facts, requests, releases,
failing writes and deaths. What they assume is the `...Assumption` of the module
they are about, which TLC evaluates in the module's run, and nothing else. Each
proof has the same shape: an invariant `IInv` that every step keeps, because it
adds to the property what the code knows at each of its points, and the property
as a consequence.

### GenerationStore

Under `StoreAssumption`: `None` is none of the other values, and requests,
compilers and verified manifests are about the keys and manifests there are.

| Theorem (`GenerationProofs`) | Property |
|---|---|
| `Invariance` | the inductive invariant `IInv` |
| `TypeCorrect` | `TypeOK` |
| `CurrentAlwaysBacked` | `CurrentIsBacked` |
| `SingleSuccessor` | `OneSuccessor` |
| `CommitRecordsEarned` | `CommitRecordEarned` |
| `ClaimsFollowRecords` | `ClaimFollowsRecord` |
| `EffectiveAtMostOnce` | `EffectiveOnce` |
| `PermanentlyPublished` | `PublishedForGood` |
| `StoreImplementsCommitPoint` | `ImplementsCommitPoint` |

The argument. None of the safety invariants is inductive: `OneSuccessor` says
nothing about a process that has compared CURRENT with its base and is about to
switch it, `CurrentIsBacked` nothing about what such a process has written, and
`ClaimFollowsRecord` nothing about a Recover that has already decided what to
write. `IInv` adds what the code knows at each of its points:

- `LockInv`: the lock is held by exactly the processes that believe they hold
  it. This is what makes everything read under it stable.
- `HandleInv`, `BindingInv`: a handle names a claimed, and from `FinalizeBegin`
  on a recorded, transaction, and a base was claimed before what is built on it.
- `StagingInv`: staging holds views only for a compiler that writes them, and a
  published directory is intact.
- `CommitInv`: what is on disk, and that CURRENT is still the base, at each step
  of Commit.
- `LineageInv`: an effective generation is complete, its base was effective
  before it, and that base is not CURRENT any more. From it `OneSuccessor`
  follows: who switches CURRENT away from a base finds no other effective
  generation on that base.
- `TerminalInv`: what processes remember of terminal records is on disk, and
  terminal records never go away, so that Recover's stale decisions stay true.

There is one lemma per part with one step per action, and the refinement and
the action properties follow from `IInv` step by step.

### StoreLock and RollbackStore

`RollbackProofs!NoLockLeaks` proves `NothingLeaked` for any threads and stores:
together with the types it is inductive as it stands. It assumes
`StoreLockAssumption`. The two modules share no name, so that one module can
extend both (hence `LockInit`, `LockSpec`, `at`); neither is a step of the other.

| Theorem (`RollbackProofs`) | Property |
|---|---|
| `AlwaysPublished` | `CurrentPublished` |
| `AlwaysAudited` | `RollbackAudited` |
| `AlwaysEffective` | `CommittedWereEffective` |
| `AlwaysTrue` | `ToldTruth` |
| `NoLostUpdate` | `MovesWhatItRead` |

For any keys, generations and processes and any number of deaths. A rollback
plans without the lock, so what it read may be gone when it writes. The
invariant (`Steady`) says what is known at each of its points once it holds the
lock: one process does (`OneHolder`), a rollback between its claim and its last
write still sees the CURRENT it compared with (`RollbackSteady`), and so does a
transaction between its comparison and its switch (`CommitSteady`).

### Migration

| Theorem (`MigrationProofs`) | Property |
|---|---|
| `AlwaysTyped` | `TypeOK` |
| `LeavesNothing` | `NothingLeftBehind` |
| `AlwaysReadable` | `InputsReadable` |
| `UndoIsOwn` | `UndoesItsOwn` |
| `SealedForGood` | `SealedStay` |

After a failed Commit the undo runs without the lock, so the lock says nothing
about it, and none of the four properties is inductive. What keeps the undo
harmless is that a created fact has one owner: `Owned` says that a fact a process
may remove is stored, belongs to the process's migration and is in nobody else's
hands. That a batch does create it, and does not take over what another has
written meanwhile, follows from `StillMissing` (what it has yet to write was
found missing under the lock, and only the holder of the lock adds facts,
`OneHolder`). `Marked` says that facts are marked as staying exactly when their
migration passes the switch of CURRENT. `StagedFirst` orders staging, publication
and CURRENT; with it a generation that becomes effective, by its own Commit, a
rollback or a recovery, has all its inputs in its transaction record. The
assumption is that migrations and facts are different things, inputs and source
manifests are facts.

### Evolution

| Theorem (`EvolutionProofs`) | Property |
|---|---|
| `AlwaysTyped` | `TypeOK` |
| `AlwaysGated` | `GatedInForce` |
| `AlwaysCanReturn` | `ApprovedCanReturn` |
| `AlwaysGrounded` | `EvidenceGrounded` |
| `AlwaysRecoverable` | `Recoverable` |
| `AlwaysKept` | `EvidenceKept`, of one command at a time |

The runs check the first two and `EvidenceKept` with one process, the other two
with two processes and one class; all theorems but the last hold for any number
of both at once. There is no lock, so whatever a process has read may be out of
date when it writes. The invariant therefore holds only on to what never shrinks
- passed gates, patterns, files of proposals, snapshots (`Grows`, with one step
per action in `StepGrows`) - and says of each process that what it carries is
good by that: the proposal it will save is one that was written, of a pattern
that exists (`Founded`, in `Targeted`); the overlays in its memory are gated
(`Gated`); the observations it will save and those it may put back have their
proposal (`SoundPlan`); what it is about to remove is in a maintenance snapshot
(`AllSaved`). That an answer of a model may overwrite any proposal costs nothing
here: a file that is written stays written, whatever it holds next. A step of one
process leaves the memory of the others alone (`Local`), so each lemma looks at
the process that moves.

`EvidenceKept` says of every proposal that is pending or approved that the
episodes of its pattern are there. It is the promise of prune ("proposals that
must keep evidence", maintenance.go:343) and true of one command at a time
(`OneAtATime`), which is its precondition in `AlwaysKept`; between two it fails
(finding 9). The interesting part is then not what other commands do but what
one leaves behind: a death half-way, a removal that is put back, a pattern that
repair cut down, proposals that share a pattern, of which one is over and one is
not, an id that a model's answer took over. `KInv` adds `Keeps` to the invariant:
what the command will remove, rewrite or put back is of no active proposal, and
the episodes of a pattern it is about to save are still there.

### DerivedState and Governance

| Theorem (`GovernanceProofs`) | Property |
|---|---|
| `AlwaysDerivable` | `Derivable` |
| `AlwaysBefore` | `NoLateConflict` |
| `AlwaysEarned` | `ActiveEarned` |
| `HarmNeverForgotten` | `HarmRemembered` |
| `FrozenByEvidence` | `EvidenceFreezeHolds` |

Under `GovernanceAssumption`: the store to start from is itself finite, valid
and sound; the candidates of a receipt are stored (they come out of a published
generation); overrides are made by their own command; and outcomes have the ids
that `BuildOutcomes` gives them, since nothing else makes any
(attribution_capture.go:175). `NoLateConflict` alone is not inductive: a fact
written by someone else could bring the conflict. The invariant adds that one
process at most is in a batch and holds the lock (`OneWriter`), that the facts of
the world are still there (`Grown`), and that a draft has no conflict within
itself and is built of what is stored (`Drafted`), which stays true because facts
are only added.

The other theorems are about what `DeriveState` says of such a store. Three
outcomes that count make a revision active; that these are three task contexts
and not one outcome three times rests on `Built`: an outcome is named by its task
and context, so two that count differ in one of them. `HarmRemembered` rests
on the override chains: a recorded harm that counts no more has a stored override
that says so. `EvidenceFreezeHolds` turns out to hold of every set of facts
(`FreezeHolds`): the derivation asks the evidence after the events, so that an
unfreeze judged on stale evidence can do no harm, and no interleaving matters.

### Curation

| Theorem (`CurationProofs`) | Property |
|---|---|
| `AlwaysTyped` | `TypeOK` |
| `NeverForks` | `LineageUnforked` |
| `AlwaysWhole` | `SplitWhole` |
| `AlwaysGrounded` | `GlobalGrounded` |
| `AlwaysStored` | `PublishedIsStored` |

Under `CurationAssumption`: a store to start from has one fact per identity, and
a request is `WellFormed`, that is, what Go's types and the scope checks of the
stores leave possible. Sources are read without a lock and a failing batch
removes facts that others may have read, so "the source is stored" is not
something a process can hold on to. The proof rests on two things that are never
lost: that a source was *seen* (`Seen`: stored, or created and removed again with
its batch), which is what `Checked` says of a request from its checks to its
writes; and the *settled* facts, which no batch will remove any more
(`SettledStays`). `Batching` says that what a batch has to write is missing and
conflicts with nothing and that what it may remove is its own; `AllWhole` is
`SplitWhole` for every kind of application, and `PublishedSettled` says that what
is published is settled. Stating these first showed that `SplitWhole` was too
strong in general: two different splits may share a branch, and when the batch
of the second fails or conflicts, its other branches are not there while the
shared one stays, with the first. The property now asks for *some* application
that is stored as a whole.

### Installation

| Theorem (`InstallationProofs`) | Property |
|---|---|
| `AlwaysTyped` | `TypeOK` |
| `AlwaysGivesBack` | `UninstallGivesBack` |
| `NeverOrphans` | `NothingOrphaned` |
| `AlwaysClaimed` | `HookClaimed` |
| `AlwaysResumes` | `UninstallResumes` |

Under `InstallationAssumption`: there is a release, a profile is not one of the
other files, and the marks for "no file", "OMR's value", "the old command" and
""somebody else's" are distinct from each other and from the contents they stand
beside (a user who writes OMR's own path into the key is not a user value). Of
`TextOf` nothing is assumed: any of the user's files may be blank or equal.

The argument follows a plan through its writes. A running command relates three
disks: the one that is there, the one its plan leads to (`Goal`), and the one a
failing write leaves (`RestoreFiles`). A write moves the first towards the second
and changes neither of the others, a failing write makes the third the one that
is there, and the last write the second. So each fact is kept of all three, or of
the two that are not half done (`Whole`): everything OMR wrote is claimed
(`Safe`), the entry agrees with its record (`Agreed`), the key can be given back
(`Returned`). That last one has two strengths. Unless an installation died, the
key is the user's or the manifest holds exactly it (`Exact`). In any case the key
names the user's text, or the manifest's base value does, or the prompt on the
disk was composed of it (`Kept`: `Alike`, `Resembles`, `Recalls`). After a death
between key and manifest only the prompt may still recall that text; uninstall
compares it with the manifest's prompt, whose text is that of the base value
(`Based`), so that it refuses or gives back a value of the same text. Starting a command is then a statement about its plan
alone: from a disk with these facts the plan leads to another. `Resumable` says
of a half-done uninstall that what is left of it would not be refused.
`Restorable`, `Removing` and `Hooking` say which files a plan holds.

### CommentGuard

| Theorem (`InstallationProofs`) | Property |
|---|---|
| `LogStaysLatest` | `LogKeepsLatest` |
| `SilenceNeverPasses` | `NeverSilent` |

For any guards, projects and limits, under `CommentGuardAssumption`:
`MaxEntries` entries of the largest size fit in `MaxBytes`. The code leaves 262
bytes for each of 1000 entries. What a guard writes about itself takes some 230
(its time, event, decision, counts of at most four rules, exit code and version),
and digits of counts and a duration are all that can grow.

`applyRetention` is a fold over the lines it keeps. The library's `FoldLeft` is
a recursive function over the sets of positions that are left, and what it
computes is worked out by induction on how many have been folded; the induction
is on a set of numbers, from the well-foundedness of `<` (`NatInduct`, with
`WFMin` of the library), since the induction theorems that take an operator
cannot be used. The sum never exceeds the limit, so `Fitting` never passes a line
over and `ApplyRetention` is the last `MaxEntries` lines. After that
`LogKeepsLatest` needs only that logs which were read are within the limit
(`LogInv`), since "is the end of" (`IsEnd`) survives appending to both and
cutting one. `NeverSilent` holds of racing guards too: the entry that a guard
appends is the last of what it writes, whatever it has read.

### IndexTree, Retrieval and Evaluation

| Theorem (`EvaluationProofs`) | Property |
|---|---|
| `IndexIsRoutable` | what `compileIndexNode` builds, for any finite set of entries |
| `Invariant` | the inductive invariant `IInv` |
| `AlwaysRoutable` | `EntriesRoutable` |
| `AlwaysEarned` | `ReceiptEarned` |
| `VerificationsStay` | `VerifiedStays` |
| `GateMoves` | `GateMovesByReview` |
| `PastVerdicts` | `PastVerdictKept` |

For any memories, policies, publishers, readers, instants and numbers of
generations and removals. Assumed are `IndexAssumption` (ids and dimensions are
sequences, the limits are numbers) and `RetrievalAssumption`. The latter is about
the facts that a scenario brings (`WorldOK`): they are finite; a name stands for
one fact, since files are named by content hashes or checked against what is
there (`handleExistingTarget`); and no fact refers to a generation that is not
published yet. It does not say which facts there are, in which order they come
or what they claim.

*The index.* `IndexIsRoutable` is an induction over data that does go through.
`CompileIndexTree` is a recursive function on calls; that it is defined follows
from the depth of a call, which grows up to `MaxShardDepth` and never beyond
(`IsNode` and the lemmas before it). The induction is on the levels that are
left, over the *set* of numbers of levels for which the claim holds, and the
claim (`Shape`) is about the pages as a call names them, from itself: they are
pages of its entries; its root is there once; every other page is reached by a
route of matching count; paths differ, are no longer than the levels that are
left, and each entry is on one page. The step is that the parts of a split are
disjoint, and so are the names below different routes (`Below`). That the split
is used at most once on a path, or with a longer prefix, is not needed: it only
decides whether the compiler succeeds.

*The store.* `IInv` says that all facts are of one scenario, stored or still to
come (`Grown`); that a published generation has stored inputs, an index built by
the compiler and one answer of its rebuild for good (`Published`, with
`Publishing` for what is staged); that facts refer to published generations and
stored judgments (`Grounded`); that pins name generations that were published
(`Pins`); and that accepted receipts are earned (`AllEarned`). `ReceiptEarned` is
a part of it, because the index an `Accept` consults was compiled from the states
of the pinned generation.

*Verdicts.* The three action properties compare an answer before and after any
step. Their proofs reduce an answer to what it depends on: the inputs of the
pinned generations, which no step changes; whether these are available, which
changes only with a removal (`WorldStays`); and the reviews of the memory's store.
A step that adds no critic or conflict review there leaves `Critic`, `Conflict`
and so `Gate` as they are (`GateStays`); where the memory is not in the world they
may still change from "unavailable" to "refused", since its revision may arrive,
but the gate is satisfied neither before nor after. For `PastVerdictKept` the new
fact is dated after the instant: a review of this memory and world then makes the
check refuse, one of others is no candidate, and if it supersedes a candidate the
edge crosses and the check refuses too (`PastConflict`). Nothing old supersedes
the new fact (`NoEdgeToNew`, from `Grounded`). A judgment of freshness dated after
the instant is not eligible, a revision dated so makes revalidation refuse or is
not the latest of its memory (`PastRevalidation`), and evidence dated so does not
count in the window. What it can do is supply the basis that an eligible judgment
lacked, since that is looked for among all evidence (`BasisStored`): the formula
therefore asks only that an answer, once given, stays or is refused.

### Only model-checked

- Liveness (`WaitsEndIfReleased`, and `RollbackSettles` of the configuration kept
  by hand) and all that needs `ENABLED`, which the prover does not reach.
- `UnfreezeAllowed` is refuted, so there is nothing to prove.
- The `TypeOK` of `Retrieval`, which no theorem needs.

Every other property of a run is a theorem, `EvidenceKept` for one command at a
time.

## 6. Findings

A counterexample that TLC finds, against a line of the repository. The first is
a run, quoted in `PROJECT.json`; the others belong to the configurations kept
beside the runs.

1. *An unfreeze that the plan allows is refused* (`unfreeze_allowed`). 04C, 3.2,
   appends an unfreeze when the evidence no longer meets the freeze.
   `CommitGovernanceEvent` (governance_capture.go:73-79) derives that revision
   number of every memory of the store and wants exactly one state, so a second
   memory makes it refuse. The test for it has one memory.
2. *An effective transaction can be aborted*
   (`MCGenerationStore_EffectiveNotAborted`; comment at
   generation_store.go:1275). `t1` switches CURRENT and dies before its commit
   record; `t2` is committed on top of it; `t1`'s key is replayed and aborted,
   because Abort only asks whether CURRENT names it. Recover completes only what
   CURRENT names, so the commit record of `t1` is never written.
3. *A Commit that is pending recovery cannot be retried when its compiler wrote
   views* (`MCGenerationStore_RetryCompletes`; comment at
   generation_store.go:727). Staging was renamed away, the retry builds a
   document without views and `verifyPublished` refuses it.
4. *A rollback that stopped after its claim is never settled*
   (`MCRollbackStore_RollbackSettles`; MEM-05C plan, line 25). Nothing completes
   it and its repetition is refused.
5. *The wait for the lock can be endless* (`MCStoreLock_WaitsEnd`; comment at
   lock.go:32). The deadline bounds the flock, not the guard.
6. *The undo of a migration can remove a fact that another client was told is
   stored* (`MCMigration_AckedStay`; MEM-01D plan, line 121), since it runs after
   Commit gave the lock back.
7. *A rolled back overlay can stay in the prompt*
   (`MCEvolution_RolledBackIsOut`; V2 plan, line 218). Approve writes the overlay
   before the proposal. When it dies in between, the proposal is still pending;
   approving it again snapshots its own overlay, and from then on each rollback,
   manual or automatic, puts that overlay back and marks the proposal rolled back.
8. *A revision can stay whose source is gone* (`MCCuration_SourcesStay`). Plans
   read their sources without the lock, so a revision may be built on a branch of
   a split whose batch is still being written; when that batch fails, its undo
   removes the branch and the revision stays. `LineageUnforked` and
   `GlobalGrounded` except exactly these sources (`Undone`). By the same path an
   event or a judgment about a fact that a migration takes back would be an
   orphan, after which `DeriveState` refuses the store.

9. *An active proposal can lose its evidence to a prune beside it*
   (`MCEvolution_EvidenceKept`; comment at maintenance.go:343, "proposals that must
   keep evidence"). Prune decides on the proposals it has read. Two runs find one
   pattern; the proposal of the first is rejected and pruned, and the second, which
   has listed the same episodes, then writes it again as pending. An approval that
   loaded the proposal before its rejection does the same. The episodes are in the
   snapshot (`Recoverable`).
10. *An approval can be undone with fewer than two failures*
   (`MCEvolution_RollbackEarned`; comment at service.go:135, "after an approved
   proposal, two subsequent failed episodes trigger a rollback"). A run saves the
   proposal as it had listed it, `approved_at` included: an approval that another
   process saved in between, with no failure after it, is undone too.
11. *After a dead installation uninstall can give back an older value of the key*
   (`MCInstallation_ValueGivenBack`). The user lets the key name another file of
   the same text, an installation writes the key and dies before the manifest;
   the composed prompt is the same, so nothing tells uninstall that the base value
   in the manifest is stale. With a file of another text uninstall refuses.

Divergences met on the way that no configuration states:

- *Memory, writers.* The commit record that Recover files after a refused retry
  names a prepared manifest that is no permanent fact. A target of a promotion
  is never asked for its generalized_from relations (promotion_apply.go:8), as
  05B, line 20, wants. The preflight of a governance event is not read again
  under the lock, nor is the state derived again after the append, as 04C, lines
  71 to 82, say; nor does an archive refuse later events (line 49): they are
  stored and ignored. Two overrides of one outcome that race break its chain, and
  every later one is refused. `PublishPromotionGeneration` puts its target before
  it reads the candidate, in another order than 05B, section 3.
- *Memory, readers.* Successes dilute a freeze by evidence to degraded, though
  the comment says "Success never cancels failure" (health stays degraded). A
  removed generation is compiled again from a manifest that does not tell shown
  inputs from those only derived from, so the rebuild is often refused or
  unavailable, where the comment at evaluation_context.go:417 promises the exact
  generation or "unavailable". A CURRENT that names a removed generation counts as
  none. The critic does not refuse judgments dated later than its instant, the
  conflict check does. `omr memory retrieval audit --scope global` hands its store
  over as the project's, and is always unavailable. Superseded revisions are
  entries of the index and hidden only by the lookup. The prefix of the stable id
  grows with splits by type too.
- *Evolution.* `DetectPattern` returns only the first class that failed often
  enough, so a later one never gets a pattern; repair can leave a pattern with
  fewer episodes than `ListPatterns` accepts, after which recording and prune
  fail; two runs can write one proposal twice, the second time over its review,
  and a generated proposal overwrites whatever proposal has the id it chose.
- *Revalidation.* A freshness judgment whose basis is not stored makes the whole
  revalidation of its store an error, as does evidence of another scope; evidence
  of a later date than the instant asked for lifts the former.
- *Installation and hook.* A profile that a later release ships no more is
  dropped from the manifest by the upgrade and stays on the disk, claimed by
  nothing and removed by nothing; should a still later release ship it again, its
  installation is refused over OMR's own file (`Dropped` in `NothingOrphaned`
  excepts it). When the hook was enabled before `omr init` and the
  executable moves, enable, disable, upgrade and uninstall all refuse; the T14
  plan says that uninstall removes an unchanged entry. A first installation that
  died before its manifest cannot be repeated (README.md:60). A later one that
  died after the key was changed leaves the earlier baseline in the manifest; if the
  two values name files of different text the prompt is then unclaimed and
  uninstall refuses, else finding 11. Two commands at once rewrite the
  manifest from what each has read.
- *Guard.* The byte limit of the log drops the newest entry, where audit.go:25
  says the oldest; with the entries the guard writes it is never reached. A line
  yields its first matching rule only, so that a marker hides a credential. Two
  guards that race may lose the entry of one. The project root is resolved a
  second time by the guard (guard.go:31): should it vanish in between, the
  decision is not logged and its code stays, which the model leaves out.

The hazards in `PROJECT.json` name their lines.

## 7. What is not modelled

- The path, permission and symlink checks of the stores, canonical JSON and
  hashing: they change no state, and a hash is equality here.
- fsync: after a death everything that was written is there. A power failure
  that loses a rename is out of scope, as it is for the code.
- Of the compilers, the text of the pages, the composite output and the episodic
  view; of the readers, the trust gate, context applicability and the episodic
  recall: they read facts and write nothing.
- Diagnosis that writes nothing: doctors, `BuildRepairPlan`, Recover's report,
  benchmarks, web pages. The one action a page sends is `CommitGovernanceEvent`.
- Experience packages and reports; `ApplyMigrationCopy`, which is the batch of
  `Migration` without its transaction.
- The text of comment rules and the merging of settings and TOML, configuration,
  imports: conversions of text with one write each.
- Two `omr` commands at once on the files of one installation: nothing locks them
  and nothing is promised.
- The user's files of which the prompt is composed exist and keep their text, and
  an inline `system_prompt` is not there.
- The freshness policies are those of the scenario from the start: that a policy a
  judgment cites is missing is a refusal in `BasisStored`, but no action adds one.
- Reasonix itself, its sessions and its tasks: another program.

## 8. Plan

Done: the stores with their lock, transactions, recovery, rollback and migration;
evolution; captures, governance and derived state; curation; index, retrieval and
evaluation; installation and hook; the guard. Proved: every safety and action
property that the runs check, and the refinement of `CommitPoint`.

What could come next, in this order:

1. The composition of `Migration` with `Governance`: facts taken back under
   commands that refer to them (finding 8).
2. Two `omr` commands at once on one installation, should the code begin to lock
   the manifest.
3. The experience packages and `ApplyMigrationCopy`, which use the batch of
   `Migration` outside a transaction.
