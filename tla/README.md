# Verification of skill-evidence

`skill-evidence` is a research tool that runs on Node 24. It lets a language
model (the *Evaluation Author*) draft an evaluation blueprint for a skill, and
it measures how well models do that. Nearly every command of it is a short
operating-system process that may spend money: it makes **one** provider
invocation that must never be repeated, and it must leave evidence of it on
disk. There is no server, no database and no lock; all co-ordination between
processes goes through files created with `open(path, 'wx')` (`O_EXCL`). What can
go wrong is therefore a matter of *which file was created by whom, in which order,
and what a failing or killed process left behind*. That is what the modules here
are about.

The paths below are relative to the repository's root.

## 1. Inventory

| Component | Sources | State it keeps | Operations | Status |
|---|---|---|---|---|
| Author command | `src/cli.ts`, `src/author/reservation.ts` | the output file, `<campaign>.json` reservation, a temporary workspace | check, claim output, reserve, invoke, write, undo | modelled |
| Benchmark runner | `src/qualification/author-benchmark-runner.ts` and the gate of `prepare-author-benchmark-review.ts` | campaign reservation, 16 sample reservations, 16 evidence files, `collection.json`, the terminal receipt, a workspace per sample | reserve, walk the schedule, stop, record the rest, close | modelled; argument parsing is not |
| Live experiments | `experiments/cli.ts`, `run.ts`, `budget.ts`, `freeze.ts`, `campaign.ts`, `isolation.ts`, `workspace.ts`, `report.ts`, `capabilities.ts` | `freeze.json`, reservations, `budget-ledger.json`, raw and curated evidence, reports | freeze, e1, e2-baseline, e2-deep, report, verify | modelled; `verify` and redaction are not |
| Evaluation Author | `src/author/evaluation-author.ts` and its protocol, context and invoker | none (a function of packet and answer) | freeze the request, invoke once, parse, compose | one run of it modelled; the text of prompt and instructions is not |
| Provider observation | `src/author/provider-observation.ts`, `provider-diagnostic.ts` | a journal written by a proxy process | record, poll after a timeout, classify | journal and polling modelled; the classification of messages is not |
| Blueprint lifecycle | `src/blueprint/evaluation-blueprint.ts` | none | validate, compose, derive DRAFT, BLOCKED or READY, read again | modelled for the current protocol; of the two historical ones what decides usability |
| Skill snapshot | `src/intake/skill-snapshot.ts` | none (reads a directory that others write) | discover, stat, read, stat, fingerprint | not modelled |
| Operability runner | `src/qualification/author-operability.ts` | reservation, `collection.json`, terminal receipt | reserve, invoke, collect, fall back, close | modelled; argument parsing is not |
| Viability workflow | `src/qualification/author-viability-*.ts` | packets, submissions, resolution, report | prepare, review, prepare resolution, resolve, score | modelled |
| Benchmark adjudication | `src/qualification/author-benchmark-adjudication.ts`, `author-benchmark.ts`, `score-author-benchmark.ts` | packets, submissions, resolution, archive, report | prepare, lock the submissions, lock the resolution, score and archive | files and score modelled; qualification of reviewers and bundle validation are guards |
| Preflight | `src/qualification/*preflight*.ts` | none | read-only checks | only as a guard (`PassChecks`, `Drift`) |
| Supervisor content identity | `.agents/skills/supervise-skill-evidence/scripts/reviewed-content-identity.mjs` | receipts with the coverage of earlier reviews | collect twice, compare with the previous receipt, carry coverage over, persist | modelled |
| Archaeological and tracing experiments | `experiments/archaeological.ts`, `*tracing*`, `qualify-codex-otel.ts` | none | observe a provider in a child process | not modelled: the logic is that of the provider and of OpenTelemetry |
| Qualification scripts, schemas, canonical JSON, evaluations, CI | the rest | none | tests, constants and serialisation | not modelled: no behaviour of their own |

How they interact. The author command and the benchmark runner both call
`authorEvaluationBlueprint`, which calls the injected invoker exactly once. The
benchmark runner takes the verdict of the preflight and checks the frozen
input again before every sample. `prepare-author-benchmark-review` reads the
collection and the terminal receipt of a runner that may have died. The live
experiments gate one another through the curated reports on disk. The viability
workflow reads the collection of the operability runner, the adjudication that of
the benchmark runner. The supervisor's collector reads the repository itself,
while people and other commands write to it. Nothing else is shared.

What is hard here, in every component: two processes between the same two
awaits; a process killed after any await; a file that exists but is torn,
because it was created and not written; a `finally` or `catch` block that itself
fails; two parallel writes of which one fails; a frozen input that changes
after it was compared; a tree that changes while it is read file by file.
`PROJECT.json` lists these hazards with the line where each bites and with the
properties that are about it.

What makes each component correct:

* Author command: one call per campaign; no call for an output that is not
  one's own; COMPLETED means delivered; files are undone by their creator only.
* Benchmark runner: one collector; every sample once, in order; the receipt
  accounts for every call; a stop is final; only a full benchmark is reviewable.
* Live experiments: one call per kind; each after a comparison of the instrument
  with the one freeze; the deep experiment only after a passing baseline; evidence, report and exit
  status agree.
* Evaluation Author: one call per run; the blueprint is about the packet that was
  sent; no blueprint from an unusable candidate.
* Provider observation: a cancellation that was recorded in time is reported.
* Blueprint lifecycle: READY never without exactly one claim, with mandatory
  evidence that a contract asks for, for each requirement a decision needs.
* Skill snapshot: a snapshot is a state the directory had, file by file.
* Operability runner and viability workflow: no decision without a paid and
  persisted collection; no score before both reviews and the resolution of
  exactly their disagreements.
* Adjudication: a condition is qualified only if it was collected in full, every
  critical item of the reference was accepted and no critical assertion of the
  candidate was rejected; what was locked stays; a report that found
  the evidence sound is the one a later score of the same workspace gives.
* Content identity: what is emitted was in the tree at one instant, bound to the
  plan its own index names; a review is reused only for content it was about;
  a persist that fails leaves no receipt, and a reported one stays.

## 2. Plan

Modules, in the order of what matters most. Those marked ✓ are in this directory.

1. ✓ `InvocationBudget`: what every paid command promises, as an abstract
   specification. ✓ `AuthorCommand`, ✓ `AuthorCommand_proofs`.
2. ✓ `BenchmarkRunner`, ✓ `BenchmarkRunner_proofs`.
3. ✓ `LiveExperiment`, ✓ `LiveExperiment_proofs`.
4. ✓ `OperabilityRunner`, and ✓ `ViabilityWorkflow`, which starts from what the
   former leaves; ✓ `AuthorCampaign` holds what both know.
   ✓ `OperabilityRunner_proofs`, ✓ `ViabilityWorkflow_proofs`.
5. ✓ `Adjudication`: the files of a review of the benchmark and its score. Its
   proofs are the last part of ✓ `BenchmarkRunner_proofs`.
6. ✓ `ContentIdentity`, ✓ `ContentIdentity_proofs`, ✓ `ReviewCoverage` and
   ✓ `ReviewCoverage_proofs`: the supervisor's collector and its receipts.
7. ✓ `Blueprint`, ✓ `EvaluationAuthor`, ✓ `EvaluationAuthor_proofs`.
8. Open: a module on the snapshot of a skill, of which only the single
   collection differs from `ContentIdentity`.

Every module takes its processes, keys and values as CONSTANTS with named
assumptions, has one action per await, and no RECURSIVE operator, so that it
can be proved about as well as checked. The abstract specification
`InvocationBudget` is implemented by all the paid commands.

## 3. What the modules model

Conventions common to all of them. A process has a program counter whose
values name the **await at which it stands**; an action is what the code does
from one await to the next, so that interleavings and kills happen exactly at
the awaits. `Goto(p, from, to)` moves it. An operation that may fail has two
actions, one per outcome, and the failing one leaves what the code leaves (an
empty or torn file, a reservation nobody gives back). Contents are reduced to
what the properties tell apart: ABSENT, EMPTY, PARTIAL or TORN, WRITTEN or
COMPLETE. `Kill` is the end of the process by the operating system: no
`finally` block runs. History variables (`holder`, `calls`, `fault`, ...) record
who created a file, how often the provider was called and which failure
happened; no guard reads them. Operators that are named for an error
(`AlwaysCreates`, `RetriesProviderError`, ...) are no part of any specification:
each is a plausible mistake in one definition, and shows that the property
paired with it in `PROJECT.json` can fail.

The invariant that a run checks has two layers. First what the code promises
(`CollectionIsWhole`, `FilesCountTheCall`, `OnePacketIsJudged`, ...), then the
parts that make the promises inductive, which say where a process stands and
what it holds there (their names end in `Held` as a rule). TLC checks both, so
that what the proofs start from was seen to hold on an instance first.

### InvocationBudget

A key (campaign, sample or kind of experiment) is taken by one actor, never
given back, and spent at most once, by that actor. `Take` and `Spend` are its
only steps.

### AuthorCommand (`src/cli.ts`, `src/author/reservation.ts`)

| State | Code |
|---|---|
| `campaign`, `out` | `--campaign`, `--out`, chosen once per process |
| `blueprint[o]` | the file at the output path; FOREIGN if it was there before |
| `record[c]` | the reservation file of campaign `c` |
| `committed[p]`, `workspace[p]` | `outputCommitted`, the invocation workspace |
| `exit[p]` | the resolved value or the rejection of the command |

| Action | Code |
|---|---|
| `PassChecks`, `FailChecks` | everything up to the packet (reads only) |
| `ClaimBlueprintOutput`, `RefuseClaim` | `claimBlueprintOutput` |
| `CreateWorkspace`, `FailWorkspace` | the first await of the `try` block |
| `OpenReservation`, `RefuseReservation`, `WriteReservation`, `FailReservation` | `reserveAuthorInvocation` |
| `Invoke`, `RunCompleted`, `RunError` | `authorEvaluationBlueprint` |
| `BeginWrite`, `FinishWrite`, `FailWrite` | `outputHandle.writeFile`, `outputCommitted = true` |
| `CloseOutput`, `FailClose`, `UnlinkOutput`, `FailUnlink`, `Cleanup`, `FailCleanup` | the `finally` block |

### BenchmarkRunner (`src/qualification/author-benchmark-runner.ts`)

All runners were given the same frozen campaign; the winner of the reservation
walks the schedule. `position` is the loop variable and `samples` the
array of records; they differ when the walk stops, which is why the slice
`schedule.slice(samples.length)` is modelled as written (`NextNotRun`). `Drift`
stands for the five comparisons with the frozen input before each sample,
`GLOBAL_ERROR` for the five categories of `globalStopReason`. `Intrude` lets a
foreign program occupy one sample reservation, which is the only way to the
collision branch when the campaign's reservation is exclusive. `Reviewable` is
the gate of `prepare-author-benchmark-review.ts`. `writeExclusive` has three ways
to fail: `open` fails and the file is as before, the write fails and leaves a
part of it, or `close` fails when the whole file is there. The reservation, the
collection and the receipt may be left in each of these ways; a sample's evidence
is TORN in the last two, because no reader of it tells them apart. A collection
that is whole although its write failed has the verdict of before the failure,
and the receipt another one: `CollectionIsWhole` says that this is the only
contradiction of the two, and that the receipt then denies the collection.

| Action | Code |
|---|---|
| `PassChecks` ... `FailReservation` | approval, preflight, commit; `pathExists(terminal)`; `writeExclusive(reservation)` |
| `MakeOutput`, `FailOutput` | `mkdir(outputDirectory)` and its early return path |
| `Drift`, `CreateWorkspace`, `FailWorkspace` | the head of the loop |
| `ReserveSample`, `CollideSample`, `FailSampleReservation` | the sample's reservation, the EEXIST branch, the rethrow |
| `FailInvoker`, `Invoke`, `Receive` | `createInvoker`, `authorEvaluationBlueprint` |
| `PersistSample`, `FailPersist` | the evidence file, `samples.push`, the global stop |
| `Cleanup`, `FailCleanup`, `Unwind` | the `finally` block of a pass, on the normal and on the throwing path |
| `RecordNotRun`, `FailNotRun` | the loop over the rest |
| `OpenCollection`, `WriteCollection`, `FailCollection` | `collection.json` |
| `OpenReceipt`, `WriteReceipt`, `FailReceipt` | the terminal receipt |

### LiveExperiment (`experiments/`)

`run[t]` is the local state of the command at terminal `t`: its program
counter, the fingerprint it compared, the directory listing it took, the
answer, and the writes it has under way. `persistArtifact` runs twice inside one
`Promise.all`; when one write fails the other one *goes on*, and the `catch`
block starts a second pair over the same files. `WriteRaw` ends any write under
way and may leave a mixture (TORN) when two writes of one file overlap. A write
that fails leaves its file torn, or whole when only the close failed.
`instrument` is the fingerprint of lockfile, manifest, commit and Codex home as
they are now; `Drift` changes it at any time, and `run[t].drift` records, as a
history, a change between the comparison of a command and its call.

| Action | Code |
|---|---|
| `Start`, `Abort` | `runCli`: argument, worktree and environment checks |
| `Fingerprint`, `CreateFreeze`, `WriteFreeze`, `FailFreeze` | `createInstrumentFreeze` |
| `LoadFreeze`, `AssertFreezeCurrent`, `PassGate` | `loadFreeze`, `assertFreezeCurrent`, `assertBaselineCanaryPassed` |
| `Reserve`, `RefuseReservation`, `Record`, `ListReservations`, `OpenLedger`, `WriteLedger`, `FailReservation` | `reserveProviderInvocation`, `writeLedger` |
| `Invoke`, `FailIsolation`, `ProviderThrows`, `ProviderAnswers` | `withPromptfooIsolation`, the evaluation |
| `WriteRaw`, `FailRaw`, `LoseRaw`, `Persisted`, `FailRelease`, `Catch` | `Promise.all(persistArtifact ...)`, the removal of the storage, the `catch` block |
| `OpenCurated`, `WriteCurated`, `FailCuration`, `Dispose`, `FailDispose` | the curated report and the `finally` block |
| `ReadEvidence`, `ReadTraces`, `OpenReports`, `FinishReports`, `FailReports` | `createCuratedReports` |

Three things the model makes visible and the code leaves to its operators. The
gate of `e2-baseline` on a passing `e1` is asked for by the procedure and not by
`runLiveExperiment`, so the model has no such guard either. The instrument is
compared once (`run.ts:103`), before the gate, the reservation and the ledger,
and not again before the call (`run.ts:137`): `CallsAreCompared` says that no call
escapes the comparison with the freeze that stands, and that a call on another
instrument is one whose command saw the change in between; it does not say that
there is none. And the ledger is cut and written in place from a directory
listing: when two kinds reserve at once the slower writer may replace it by an
older listing, or a mixture is left. No command reads the ledger, so no property
asks for more than what `CallsAreInOrder` says of it: that it never counts a kind
that is not reserved.

### OperabilityRunner (`src/qualification/author-operability.ts`)

`policy` is the policy of the campaign's profile: it decides what a timeout
means, and which of `viabilityDecision` and `comparisonConclusion` is filled
(`decision` is the one that is). The variables `invocations`, `outcome`,
`decision` and `persisted` are the local variables of the same purpose
in `runAuthorOperabilityCampaign`. `Answers` are the ways in which the run of
the Author can end, as far as a policy tells them apart.

| Action | Code |
|---|---|
| `PassChecks`, `PassInspection`, `FailChecks` | approval, preflight, commit; `inspectAuthorOperabilityCampaign` |
| `OpenReservation`, `WriteReservation`, `FailReservation` | `createExclusiveJson(reservationPath)` |
| `Invoke`, `FailSnapshot`, `Receive` | the second `createSkillSnapshot`; `authorEvaluationBlueprint` and the classification |
| `OpenCollection` ... `FailCollection` | `createExclusiveJson(collectionPath)` |
| `Catch`, `OpenFallback` ... `FailFallback` | the `catch` block and its `writeFile` with the flag `wx` |
| `OpenReceipt`, `WriteReceipt`, `FailReceipt` | the terminal receipt |

### ViabilityWorkflow (`src/qualification/author-viability-*.ts`)

A clerk runs the three commands one after the other. `run[c].todo` holds what
the command's `Promise.all` has still to write; each file is opened and written
by steps of its own, and a failing one (`FailFile`) leaves the others under way.
People are part of the model: `Judge` and `Arbitrate` write the input files, and
rewrite them. The two inputs are read by two steps, everything else that is
read is write-once, so that reading it at once loses nothing. The two modules
are composed through the collection: `AuthorCampaign!Collections` is what a
canary can leave. `OperabilityRunner` is checked to leave nothing else
(`DecisionIsMeasured`), and `ViabilityWorkflow` starts from any of it. The
collection is write-once, and a command that finds it absent or torn ends
without a trace, so that starting after the canary loses nothing either.

| Action | Code |
|---|---|
| `Start`, `Refuse` | a command begins; one of its checks or reads fails |
| `Prepare` | `prepareAuthorViabilityReview` |
| `ReadLeft`, `ReadRight` | `prepareAuthorViabilityResolution` |
| `ScoreMechanically`, `ScoreReview` | `scoreAuthorViability`, `resolveAuthorViabilityReview` |
| `OpenFile`, `WriteFile`, `FailFile` | `writeExclusive` |

What the model makes visible. A preparation that fails half way and is repeated
after the skill changed leaves the reviewers with different packets, since each
packet is an exclusive write of its own and the skill is read anew; no resolution
and no score can come of it (`OnePacketIsJudged`, in `ReviewInvariant`), but the review is stuck. And
the score reads the collection and not the
receipt. A collection whose bytes arrived although `close` failed, and one whose
runner was killed before the receipt, are reviewed and scored like any other,
while the receipt says INSUFFICIENT or is missing. No document asks for
more, so there is no property either.

### ContentIdentity (`reviewed-content-identity.mjs`: the collection)

The command reads the tree twice, file by file, beside an editor. A path has a
history of contents; `at[p]` says how far it has come, and a content that was
replaced does not return (`NoReturn`), since the script itself claims an
observable stability and not protection against a change that is changed back.
`stale` abstracts the metadata that are compared: it is set when the entry or a
directory above it changes after its first stat. Of a plan the text is four
numbers: the part outside the four partitioned sections, the Existing Context,
the other three sections, and the declared revision.

| State | Code |
|---|---|
| `at`, `staged` | the working tree and the git index, which the editor changes |
| `listed`, `todo` | the paths git listed; those still to be read |
| `look`, `bytes`, `stale` | `lstat`, the bytes read, `sameEntryMetadata` |
| `plan[c]`, `seen[c]` | what collection `c` discovered and read |
| `between`, `slipped` | history: the tree between the collections; paths staged between the two listings |

| Action | Code |
|---|---|
| `Begin`, `Refuse` | arguments, worktree, base commit, identity contract |
| `ListIndex`, `ListUntracked` | `git ls-tree` and `ls-files --stage`; `ls-files --others` |
| `Look`, `Read`, `Confirm` | `candidateEntry` and `discoverActiveExecPlan`, stat, bytes, stat |
| `Finish`, `Compare` | the end of `collectManifests`; the comparison in `main` |
| `Edit`, `Stage`, `Unstage` | an editor, `git add`, `git rm --cached` |

### ReviewCoverage (the same script: the previous receipt and the new one)

A command collects in one step here, which is what `EmittedIsASnapshot` allows. It
reads the previous receipt (`Validated`, `CoverageComplete`), classifies what
has changed since (`Classify`), takes over what may be taken over (`Carry`) and
persists the new receipt: temporary file, binding of the directory, link,
sync, binding again, removal. The supervisor reviews, right or wrong, and
rewrites reported receipts in place, so that a command may read a torn one.
This is the one place of the repository that asks for durability, and the one
module with power failures: `kept` is what the last sync of the directory has
saved.

| Action | Code |
|---|---|
| `Collect`, `ReadPrevious` | `main` up to the comparison, `validatedPreviousReceipt`, `comparisonFor` |
| `CreateTemp`, `Check`, `Link`, `Sync`, `Clean` | `persistReceipt`, `assertReceiptDirectoryBinding`, `linkSync`, `fsyncSync` |
| `Break`, `Withdraw`, `FailClean`, `Report` | a step that fails; the `catch` and `finally` blocks, in which a removal or the close may fail too; the output |
| `BeginRecord`, `EndRecord` | the supervisor rewrites a receipt |
| `Kill`, `PowerFailure` | the operating system, the machine |

What is abstracted: the tree changes between the collections of commands; a
receipt the supervisor has rewritten is durable; the directories exist; a previous
receipt that is missing, torn or invalid is as good as none, since only the reason
in the output differs. The files that a command has left behind, because it was
killed or could not clean up, are in the history variable `left`. The temporary ones
are nowhere else: their name is the process's own and nobody opens them again. A
receipt stays under its name and can be read like any other. `MarkAssumption` says
that what stands for a missing or torn receipt is no receipt.

### Blueprint and EvaluationAuthor (`src/author/`, `src/blueprint/`)

`Blueprint` has the operators: the validity of an authoring context, the
diagnostics of a candidate, composition with the trusted context, and the
validation of a stored blueprint, which derives everything once more. A digest
is the value it was computed from. `EvaluationAuthor` has one run: the author,
Promptfoo, Codex, the proxy that writes a journal of what it sees, and the
caller, who goes on holding the objects it passed. Contrasts, stress families
and the identifiers of observations are left out.

A composed blueprint has a schema of its own (`ComposedShape`), and two things pass
the candidate's checks and not this one: an empty campaign name or a snapshot
fingerprint that is no digest (`labelled` is false), and an identifier of the
system among the claims that an open question of the author concerns, which for
the candidate is only a broken reference. `RefusedWithCause` says that a usable
candidate is refused for no other reason. A Promptfoo that cannot be loaded
(`NOT_LOADED`) is a failure that the author catches, not the invoker: such a run
ends with PROVIDER_ERROR and without an observation, also where it has a session.

What the schemas guarantee is assumed of the constants and evaluated by TLC on
the values of the run. `ContextAssumption`: a fact is missing once, is not the
name of a section, and the identifiers the system makes of facts and
requirements are in its reserved namespace. `CandidateAssumption`: an answer
that passes the schema has the fields of the schema and no others (`Shaped`),
which is what `additionalProperties: false` says, and its claims and evidence refer
to nothing that the system names (`candidateReferenceArray`).

| State | Code |
|---|---|
| `protocol`, `watched`, `labelled` | what the run is given: protocol, observation session, campaign name and fingerprint |
| `context`, `sent` | the caller's context; its frozen copy (`canonicalFrozenCopy`) |
| `ending`, `answer` | how Promptfoo's evaluation ended, and the text |
| `script`, `pending`, `proxy`, `journal` | `proxySource`: the output of Codex, the pipe, the process, the file |
| `created` | the journal file exists: a first append creates it, and then writes |
| `attempt`, `report` | the loop of `readCodexObservation` and what it returns |
| `kept`, `accepted` | the stored blueprint, and what a reader takes from it |

| Action | Code |
|---|---|
| `Start`, `Return`, `Decide` | `prepareAuthorInvocation`, `createPromptfooAuthorInvoker`, `authorEvaluationBlueprint` |
| `ReadJournal` | one pass of the loop, at most ten after a timeout |
| `StartProxy`, `RecordStart`, `Emit`, `Relay`, `ObserveSignal`, `Exit`, `Leave` | `proxySource` |
| `Settle`, `Interrupt` | Promptfoo's timers and results, a signal |
| `Reread`, `ChangeContext`, `Edit` | `validateComposedEvaluationBlueprint` by a later reader; the caller; an edit of the file |

### Adjudication (`author-benchmark-adjudication.ts`, `score-author-benchmark.ts`)

People run the steps at several terminals; they meet in exclusively created
files. `Prepare` and `Lock` write several files at once (`WriteFile`), one of
which may fail while the others go on, torn, or whole when only its close failed. `ReadPackets` and `Score` are two reads
with a step of anybody in between. `Status` and `QualificationReport` are the score: the
gates of one condition and the choice between two. The fingerprint of a packet
is its sample. A file between open and write is seen as one that cannot be
read, like a torn one. The first disk failure inside the archive is a kill. The
means are compared exactly, as fractions; the code computes them in floating
point and compares with 0.9, which is outside TLA+.

The packets of the two submissions, of the score and of the workspace may all be
different sets: a reviewer gets what is there when the preparation has ended,
which may have failed for one packet, and a score reads what is there while a
preparation is still writing. `Integrity` is the gate that has to notice.
`ReportCanBeRepeated` says that it does: unless a published report says INVALIDATED,
it is the score of all the packets, of the submissions and of the resolution that
are there now. The exception is needed: who reads half of the packets, is
overtaken by the rest of the review and then scores, publishes that the evidence
does not hold together, although a second score would find that it does.

`Init`, `Next` and `Spec` of this module bear its name (`AdjudicationSpec`), because it
is extended together with `BenchmarkRunner` where both are proved about; its
samples are `Scheduled` and its collection is `collected`. An item stands for all
that matters of it, so that two samples that use one name for a mandatory and for
another claim have two items.

Three assumptions go without saying in the code: there are finitely many
targets, no packet is stored under the name of another file (packets have a
directory of their own), and a reservation that was written is a file.

| Action | Code |
|---|---|
| `Prepare`, `WriteManifest` | `prepareAuthorBenchmarkReviewCommand`, `reserveBlindReviewWorkspace` |
| `Lock`, `WriteFile` | `lockBlindReviewerEvidence` |
| `LockResolutionPacket`, `Resolve` | `lockBlindResolutionPacket`, `lockBlindReviewResolution` |
| `ReadPackets`, `Score` | `scoreAuthorBenchmarkCommand`, `scoreAuthorBenchmark` |
| `Copy`, `Archive`, `Publish` | the archive and the consolidated report |

## 4. Runs

| Run | Bounds | What it shows |
|---|---|---|
| `author_command` | 2 processes, two path-safe campaigns and an unsafe one, 2 outputs | `CommandIsSafe` (with the inductive invariant of the proofs), `LeftoverHasACause`, `FilesAreOwned`; every command ends unless killed; it implements `InvocationBudget` |
| `benchmark` | 2 runners, 3 samples | one collector, records in order, every call accounted for, only a full benchmark reviewable, tidy ends; every runner ends unless killed; `InvocationBudget` per sample |
| `benchmark_invalidation` | as `benchmark` | a finding below |
| `live_experiment` | 2 terminals, kinds e2-baseline and e2-deep, 2 versions, 1 change of the instrument, 4 commands: 2 from the start, or 3 after a freeze, the first of them the baseline | each call after a comparison with the freeze and recorded, evidence and reports agree, gates hold; commands end; `InvocationBudget` per kind |
| `operability` | 3 runners, 3 policies, 2 versions of the skill | the files of the canary agree with the call and each other and are final; `InvocationBudget` |
| `operability_packet` | 2 runners | a finding below |
| `viability` | 2 terminals, 3 commands from any collection or from a prepared review, 1 change | who is reviewed and on which packet; the report follows from the submissions; files are final |
| `identity` | 4 paths (index, two plans, one other) with up to 3 contents each, one restaged path | entries are whole, what is emitted was there at one instant, bound to the plan its index names; the inductive invariant of the proofs |
| `coverage` | 2 commands, 2 names, 2 values of each part of an identity, 1 change, 1 rewriting, 2 artifacts, 1 kill, power failure or failed removal | no receipt refers to what is not there, reuse is earned, the ledger of rounds survives, what stays behind has a cause and a reported receipt stays, with kills, power failures and removals that fail |
| `evaluation_author` | 4 contexts, about 80 answers, 3 reads of the journal, 1 change, 1 edit | one invocation, an observation where one is due and a true one, the blueprint of the packet that was sent, a refusal after composition has a cause, READY is earned; the run ends |
| `adjudication` | 2 terminals, 6 steps, one case under two conditions and a sample that may not be completed, 2 judgments, 3 resolutions, 1 failure | a published report has a whole archive, is clean and can be repeated; locked evidence is final; the inductive invariant of the proofs |
| `adjudication_open` | as `adjudication` | a finding below |

Why the bounds are enough. Processes meet only at exclusively created files: one
creates the file and every other one is refused, so that two processes show
every race on it, and the canary has a third that comes late. The invariants are proved
for any number of processes and files besides (section 6). A schedule of three samples has a first, a middle
and a last one: a stop may come before, between and after records, which is all
the slice and the receipts depend on; the sixteen of the code add nothing but
length. Four commands at two terminals are enough for a freeze, both
experiments and a report: the run starts either with nothing there, and two
commands, or with the freeze of a first one, and three more. The first of those
three is the baseline: a start commutes with all that the other terminal does,
another freeze is refused, and without a baseline the deep experiment and the report only
end again. The instrument changes once, which is enough to come between
any comparison and the call after it. `e1` is left
out of TLC's `Kind`: it passes the same code as `e2-baseline`, and nothing is
gated on it. `MaxCommands` and `MaxSteps` bound how many commands are started,
`MaxFaults`, `MaxKills`, `MaxChanges`, `MaxEdits`, `MaxRecords` and `MaxArtifacts` what
happens beside them; all of them serve TLC alone.

The worst case of a viability review takes four commands: a preparation, two
preparations of the resolution that read different inputs, and a score. The
run therefore starts from the beginning or from the state that a preparation
leaves (`SpecEither`), with three commands each, and of the two campaigns that
can be pending, which differ in names alone, it takes one (`InitDistinct`). One change of the skill or of an
answer already given is what any of its properties takes to break.

In `coverage` two commands can write two receipts, race for one name, or read
what the other has just linked; one rewriting is what stands between an empty
receipt and a reused review. It may record a foundation review and one
delta check at once; a chain of two checks takes a second rewriting and is beyond
the bound, but not beyond the proof, which takes chains of any length. In `adjudication` six steps are one whole review (prepare, lock,
lock the resolution packet, resolve, score) and one more of any of them. The
second sample of one condition has nothing to judge and may not be completed: then
that condition is INSUFFICIENT, a missing packet of it does not stop the score,
and packets can be fewer than those of the submissions.
`Percent` is 50 there and `Enough` 7, so that with one ordinary item of each
kind it is the item that decides. Promptfoo's journal is read at most three
times instead of ten (`Polls`): first, middle, last. The answers of
`evaluation_author` are a sound one, each single thing that can be wrong with
it, and each together with a fault in the evidence.

Terminals, versions, clerks and runners are interchangeable in the
runs that check no liveness, and those use that symmetry; runs with a
liveness property use none. Samples are ordered and never symmetric.
`MCFairSpec` of the live experiments fixes names instead: the first command
starts at the first terminal and finds the first instrument, which may
change once, to the second (`MCNext`).
`MCFairSpec` of the Evaluation Author asks for one context and no
text where the run is observed, because the journal and the answer do not
depend on one another, and for that context where the run is not labelled.

`CHECK_DEADLOCK FALSE` stands where all processes may have ended, which is how
these programs are supposed to stop.

Fairness. `FairSpec` asks for weak fairness of the steps of each process
(`Run(p)`, `Step(t)`, `Author`): the event loop of a process that is not killed
settles every await, and the provider call, the only one that could hang, is
bounded by `timeoutMs` and `maxEvalTimeMs` (`WF(Settle)` in `EvaluationAuthor`).
Nothing is asked of `Kill`, `Drift`, `Intrude`, `Start` of a command or of the proxy,
and no particular outcome of an operation is fair. The canary, its review, the
adjudication and the supervisor's script have no liveness property: none of
them waits, loops or retries, each of their steps moves a program counter
forward or takes one item off a finite `todo`, so that their ending would show
nothing.

## 5. Findings

* `benchmark_invalidation`: when `collection.json` cannot be written, the status
  becomes INSUFFICIENT even if it was INVALIDATED, while the two other late
  failures (cleanup, NOT_RUN records) keep INVALIDATED as the plan says.
* `operability_packet`: the canary compares the skill directory with the frozen
  fingerprints, reserves, and reads the directory again to build the packet. The
  second reading is compared with nothing, while the report names the frozen
  packet and copies its fingerprints.

* `adjudication_open`: a critical *candidate* assertion whose disagreement is
  resolved as UNRESOLVED does not count as a critical violation
  (`author-benchmark-adjudication.ts:573-575`, `:586` count rejected ones), while an
  unresolved critical *reference* item counts twice; its condition may qualify and
  be selected. Gate 8 of the plan of the benchmark
  (`docs/execplans/2026-08-11-qualify-evaluation-author-blind-e5.md:217`) asks that
  no critical disagreement remain unresolved, of whatever kind. What does hold is
  `QualifiedIsClean`: items of the reference are accepted, assertions are not
  rejected.

Observed while modelling, and stated by no run of its own:

* Benchmark runner: a sample reservation that fails with anything but EEXIST is
  rethrown (`author-benchmark-runner.ts:387`), so that the campaign ends without
  NOT_RUN records, collection and terminal receipt. The plan (lines 355 and 430)
  promises a receipt for every catchable outcome after the reservation.
  `RunsEndTidily` names this cause among those a missing receipt may have, and
  shows that there are no others.
* Evaluation Author: the schema of candidates lets an author name an identifier of
  the system in `affectedClaimIds` (`evaluation-blueprint.ts:361`), the schema of
  blueprints does not (line 234 of `evaluation-blueprint.schema-3.json`). Such an
  answer is usable as a DRAFT and then refused as COMPOSED_BLUEPRINT_INVALID.
* Adjudication: the fingerprints of the submissions in a resolution are not
  compared by the scorer. A completed sample without a packet ends the score with
  a TypeError and not as INVALIDATED (`PacketMissing`).
* Live experiments: the instrument may change between its comparison with the
  freeze (`run.ts:103`) and the call (`run.ts:137`), and neither the command nor the
  report notices. The plans ask for the comparison before every invocation
  (`docs/execplans/2026-08-09-run-fresh-gate-2-campaign.md:186`), which is what the
  code does and `CallsAreInOrder` shows.
* Content identity: a path that is staged between `git ls-files --stage` and
  `git ls-files --others` is in neither listing. If it is unstaged and staged
  again in the same place of the second collection, both collections agree
  without it; `EmittedIsASnapshot` excludes it (`slipped`).

## 6. Proofs

Every theorem holds for all values of the constants that satisfy the named
assumptions of its module: any number of processes, terminals, runners, files,
samples, criteria, contexts or receipts. Each proof module EXTENDS the module it
is about, and its last steps combine three facts: the invariant holds at first,
every step keeps it, and it implies what is promised.

### Author command and budget (`AuthorCommand_proofs`)

From `PathSafeAssumption` and `NoOneAssumption`:

| Theorem | Statement |
|---|---|
| `Invariance` | `CommandInvariant` holds in every reachable state |
| `BudgetSafety` | one invocation per campaign, and only after a whole reservation |
| `ClaimSafety` | no invocation without an own output |
| `DeliverySafety` | COMPLETED means delivered |
| `Safety` | `CommandIsSafe`, the four together |
| `LeftoverSafety` | an unfinished output has a cause (`LeftoverHasACause`) |
| `OwnershipSafety` | a file is changed by its creator only, and never once it is delivered |
| `Implementation` | the command implements `InvocationBudget` |
| `BudgetKept` | what the budget promises: a key is spent once at most, by who took it |
| `PaidOnce` | and so it is for the campaigns of the command |

None of the promises is inductive: `AtMostOneInvocation` by itself allows a state
in which two processes stand before `Invoke` for one campaign. `CommandInvariant`
adds what rules that out: a process between its claim and its last step owns its
output (`ClaimHeld`); a process past its reservation owns its campaign, which is
unspent until it stands at the answer (`CampaignHeld`); a campaign without a file
is fresh (`CampaignFresh`); what was committed stays (`DeliveryKept`); a workspace
lives until the cleanup (`WorkspaceHeld`). The steps are sorted into those that
move a process, that write an output and that reserve (`StepKinds`). For the
refinement, only `OpenReservation` and `Invoke` change the holder or the count,
and the invariant gives the guards of `Take` and `Spend`. The other three paid
commands have the same refinement. `BudgetKept` is proved of the budget alone
and stands here because every module that implements it could use it.

### Benchmark runner (`BenchmarkRunner_proofs`)

From `SampleCountAssumption` and `NoRunnerAssumption`, for a schedule of any
length:

| Theorem | Statement |
|---|---|
| `Invariance` | `RunnerInvariant` |
| `Collection` | `CollectionCanBeReviewed`: a collection is whole and agrees with the receipt, but for the verdict of one the receipt denies; what is reviewed was called sample by sample and is on disk |
| `Spending` | `SpendingIsAccountedFor`: the receipt has every call, and none follows a stop |
| `Tidiness` | `RunsEndTidily`: neither a workspace nor a campaign without receipt, but for named causes |
| `Implementation` | the runner implements `InvocationBudget`, counted by sample |

The code counts in three ways: by its position in the schedule, by the records
it has pushed, and by the provider calls. They agree in a pass and differ after
a stop, and the slice that adds the NOT_RUN records counts by the second. The
invariant says how far apart they may be at each step: `PassHeld` and
`CallsAreCounted` tie the calls to the position (the called samples are an initial
segment of the schedule), `RecordsHeld` the records to the position,
`OutcomesHeld` what a record says to what was called and written. `FilesHeld` says
that the two files at the end are what the holder has in memory, but for the
verdict in a collection whose write it took for failed, which carries
the promises from memory to disk and past a kill. The number of calls in the
receipt is the cardinality of that initial segment.

### Live experiments (`LiveExperiment_proofs`)

From `NoVersionAssumption`, `NoTerminalAssumption`, `KindAssumption` and
`VersionAssumption`, for any terminals, versions and number of commands:

| Theorem | Statement |
|---|---|
| `Order` | `CallsAreInOrder`: one call per kind, recorded and compared with the one freeze before it is made; on another instrument only where that changed after the comparison |
| `Evidence` | `EvidenceAgrees`: raw files, curated report, result and answer agree |
| `Gates` | `GatesHold`: what the deep experiment and the reports rest on is there, and stays |
| `Implementation` | the experiments implement `InvocationBudget`, counted by kind |

Each kind has one owner from its reservation on (`OwnersHeld`), and only its owner
has writes under way; these outlive the `catch` block and even the command. So
`EvidenceHeld` says of each step of the owner what the raw files may hold, what
may still be written over them, and when the mixture that a late write leaves is
excused (`Supported`): a PASS needs two whole files and nothing under way, and
only an ERROR may stand beside a late write. `GatesPassed` then needs no lock: what
a gate has found is never taken away, since reports are written once
(`ReportStays`). The count against the limit of three cannot refuse a call,
because there are three kinds (`Three`).

### Canary and review (`OperabilityRunner_proofs`, `ViabilityWorkflow_proofs`)

From `FrozenAssumption`, `NoRunnerAssumption` and `NoVersionAssumption`:

| Theorem | Statement |
|---|---|
| `Agreement` | `FilesAgree`: collection, fallback and receipt count the call and agree |
| `Measurement` | `DecisionIsMeasured`: no decision without a measurement that supports it; the collection is one that the review knows |
| `Finality` | `FilesAreFinal`, an action property |
| `Implementation` | the canary implements `InvocationBudget` |

`Measurement` closes the composition: `ViabilityWorkflow` starts from any member of
`AuthorCampaign!Collections`, and the canary is proved to leave nothing else. The
invariant follows the one owner (`OwnerHeld`) from step to step and says what it has measured
(`VerdictHeld`), what is on disk, and what it knows of that (`DiskHeld`). The
delicate step is the `catch` block, which withdraws a decision but not an outcome,
and whose fallback may find that the collection was written after all.

From `CriterionAssumption`, `ReviewAssumption`, `ResolutionAssumption` and
`BoundAssumption` of `ViabilityWorkflow`, for any clerks and criteria:

| Theorem | Statement |
|---|---|
| `Invariance` | `ReviewInvariant`: one packet is judged, although files fail and commands are repeated |
| `Standing` | `ReportStands`: a report repeats a mechanical decision or follows from the two submissions on disk |
| `Finality` | `ReviewIsFinal`, an action property |

A command decides everything it will write when it has read, and writes it file
by file beside other commands. The invariant is therefore about the *values* of
a file: what it holds and what any command under way would still put there
(`Values`). Each is sound (`IsSound`) with respect to the other files as they are
now, and stays so, because a whole file does not change (`WholeFilesStay`) and a
file that is open belongs to one command (`OpenFilesHeld`). Two commands that
read different inputs may thus prepare different resolution packets, of which
one file each survives; whatever the mixture, the score compares it with the
submissions on disk.

### Content identity and coverage (`ContentIdentity_proofs`, `ReviewCoverage_proofs`)

From the assumptions of `ContentIdentity`, for any paths, histories, listing
order and editor:

| Theorem | Statement |
|---|---|
| `CollectorIsRight` | `CollectorInvariant` holds in every reachable state |
| `EntriesAreOfOneMoment` | `EntryIsWhole`, which follows from `CollectorInvariant`: no entry mixes the mode of one moment with the bytes of another |
| `EmittedTreeWasThere` | what is emitted is the projection of the whole tree at the instant between the collections |
| `PlanIsTheListedOne` | the identity is bound to the plan that its own index entry names |

While an entry is read and nothing is stale, the version looked at is the current
one (`FreshMeansCurrent`), so that what is accepted is one version of the period
of its collection (`EntriesAreWhole`), and a path that is not listed was absent
at some moment of that period (`UnlistedWasAbsent`). When a collection has ended,
each path thus shows a version it had during the collection
(`EndedCollectionsAreReal`). The first period ends and the second begins at the
instant `between`. Two agreeing versions on both sides of an instant are the
version at that instant, by `NoReturn`: this is the whole of
`EmittedTreeWasThere`, and the reason for that assumption.

From the assumptions of `ReviewCoverage`, for any number of commands, names,
contents, artifacts, rewritten receipts, kills, power failures and removals that fail:

| Theorem | Statement |
|---|---|
| `Invariance` | `CoverageInvariant`: an unreported receipt or a temporary file has a command at work on it, or was left by one that was killed or whose removal or close failed in the end; no receipt refers to an artifact that is not there |
| `Retention` | `ReportedReceiptsStay` |
| `Reuse` | `ReuseIsEarned` |
| `Ledger` | `LedgerSurvives` |

That a reported receipt stays is a matter of who may remove what: only a command
that has linked a receipt withdraws it, it is alone with that name, and the name
is not reported yet (`LinksHeld`). Against power failures `kept` must have the
receipt before it is reported, which the sync between link and second check
gives. `LeftoversHaveACause` needs the same: an unreported receipt has a linker that
is still at work, or is in `left`. The code cannot promise more than that. The
`finally` is behind the `catch`, so that a temporary file which cannot be removed,
or a directory which cannot be closed, fails the command when its receipt is linked
and synced already. Reuse rests on two facts. Every receipt, whether on
disk, kept, half rewritten or in the hands of a command, refers only to
artifacts that are there (`CitationsHeld`). And a coverage the script takes for
complete proves a review: its checks lead from the foundation to the receipt's
evidence, so that no set of evidences which contains the foundation's and is
closed under the checks leaves that evidence out (`CompleteIsReviewed`). The
chain may have any length; since induction over it cannot be instantiated, the
lemma `Chained` takes the least link that breaks it and finds that there is none
(`WFMin`). Artifacts are never removed, so that what was reviewed remains so.

### Evaluation Author (`EvaluationAuthor_proofs`)

From `PollsAssumption`, `ContextAssumption`, `CandidateAssumption` and
`BoundAssumption`, for any contexts, answers, edits and number of polls:

| Theorem | Statement |
|---|---|
| `ReadyPromises` | a valid blueprint that is READY keeps what READY promises (`Earned`) |
| `ReadyIsEarnedAlways` | `ReadyIsEarned` |
| `Invariance` | `RunInvariant`: types, one call of the invoker, and at the end an observation exactly if the run has a session, called the invoker, and Promptfoo could be loaded |
| `Observation` | `ObservationIsTrue`: the report says what the journal tells |
| `Packet` | `BlueprintIsOfThePacket` |
| `UsableComposes` | a usable candidate, composed with a valid context in a labelled run, is a valid blueprint, if its open questions concern nothing that the system names |
| `Composition` | `RefusedWithCause`: for those two reasons only is a candidate refused after composition |

`ReadyPromises`: the rules on evidence are each about one link; `EvidenceJoins`
shows that together they lead from a claim over its evidence to a contract that
asks for it. The rest follows because validation derives state, flags and
diagnostics from the content and believes nothing that is stored.

`Observation` has to do with the order of three writers: the event that ended the
turn is in the journal or not, and the exit and the signal may stand behind it.
The last terminal event decides the stage (`StageIsOfTheTurn`), and the loop ends
only when the signal is there or the polls are used up (`ReadingIsTrue`).

`UsableComposes` is the longest argument. The candidate is judged, composed,
judged again as a blueprint, and must come out the same. One rule after the other
gives on the composed content what it gave on the candidate: the entities grow by
the system's claims and blockers only (`ComposedEntities`), whose identifiers are
reserved, so that no duplicate and no reference changes (`SameDuplicates`,
`SameReferences`); evidence, trusted claims and sections are judged alike
(`SameEvidenceRules`, `SameTrustedRules`, `SameSections`); the lifecycle that
is derived again is the one that was stored (`DerivedAgain`); and the schema of
blueprints asks for no more than that of candidates but for what the theorem names
(`ComposedIsShaped`). This is where
`ContextAssumption` and `CandidateAssumption` are needed, and they are what the
two schemas check before this code runs.

### Adjudication (last part of `BenchmarkRunner_proofs`)

The score is what a benchmark is for, and its proofs stand behind those of the
runner. From `TargetAssumption`, `JudgmentsAssumption`, `DecisionsAssumption`,
`FileAssumption` and `NoneAssumption`, for any terminals, samples, items, judgments,
decisions, thresholds, number of steps and number of faults:

| Theorem | Statement |
|---|---|
| `AdjudicationInvariance` | `AdjudicationInvariant`, which consists of the promise `ReportMeansArchive` and of what makes it inductive, `AdjudicationHeld` |
| `Publication` | `ReportMeansArchive` by itself: a report outside has a complete archive with the same report, of a workspace that was prepared, judged and resolved |
| `Qualification` | `QualifiedIsClean`: what counts as qualified was collected in full; of the critical items, those of the reference were accepted by both reviewers or by the resolution, and no assertion of the candidate was rejected, though one may have been left open (section 5) |
| `Repetition` | `ReportCanBeRepeated` |
| `Finality` | `EvidenceIsFinal`, an action property |

None of the promises is inductive, because a report is made of files that were
read at different moments and is published several steps later. The argument has
three parts. A step creates one file at most, and what is put there fits the
files that are there already (`CreationSteps`, `Fits`): a submission judges what some
packets ask, the resolution and its packet are about exactly the disagreements of
the two submissions on disk (`DiskHeld`), which do not change (`FilesStay`). Second,
one process at most has the archive, from the exclusive `mkdir` to the end of the
command, and each stage of the archive has what the stage before asked for
(`Owns`, `Aside`, `OwnerHeld`, `ArchiveHeld`). Third, the report of that process, of the
archive and outside is at each moment the score of the files as they are *now*,
with packets that were there (`IsScore`, `ScoreStays`): of what is read later than
the packets nothing is replaced, and of packets there are only more. From that
alone `Qualification` follows by `ScoreIsClean`, which goes from a count of violations
that is zero to every single item (`NumberOfNone`, `NoViolations`) and from a final
verdict to who gave it (`FinalIsSaid`). `Repetition` follows from the integrity
gate: packets that are all the completed samples are all there can be.

### What is only model-checked, and a note on the prover

Liveness only (`EveryCommandEnds`, `EveryRunEnds`, `RunEnds`): fairness and ENABLED are
out of the prover's reach. Every safety property of a passing run is a theorem.
That `PROJECT.json` names a mutant for each
property says that TLC sees it fail when the code is wrong; each proof was
tried against such changes of the model too, and fails there.

The modules that have a theorem, and those they use, have no RECURSIVE operator.
Two forms are avoided in the models because tlapm 1.4.5 does not treat them as
TLA+ does: an EXCEPT with two paths below the same entry
(`[f EXCEPT ![t].a = .., ![t].b = ..]`), and an `@` inside an EXCEPT that is itself
the new value of another. Both are written out
(`[f EXCEPT ![t] = [f[t] EXCEPT !.a = .., !.b = ..]]`).

## 7. Abstractions and what is left out

* A provider is an environment that answers, fails, or throws. Which answers make
  a blueprint is the subject of `EvaluationAuthor`; the two paid commands take
  its outcome as one of a few.
* Checks that only read are one step with two outcomes. That loses nothing as
  long as what they read is not written by these commands; where it is
  (the terminal receipt, the freeze, the curated baseline) the read is a step
  of its own.
* Power failures are left out except in `ReviewCoverage`: no other code asks for
  durability beyond what the operating system gives a killed process.
* The temporary workspaces of the live experiments are left out; those of the
  author command and of the benchmark runner are modelled, because there the
  removal may replace the outcome.
* `ERROR` stands for INVALID_CANARY too in `LiveExperiment`: every gate asks for
  PASS and for nothing else.
* A failed write of raw evidence that never opened its file counts as TORN: either
  way there is nothing to parse. A killed live experiment loses the writes under way; what they had put on
  disk by then is the content the file had before, or TORN after a failure.

Not modelled: the snapshot of a skill directory, which reads in the same order as
the collector but only once, so that its result is whole file by file and not a
state of the directory; the preflight, whose verdict is a guard; the
qualification of reviewers on probes; the archaeological and tracing scripts,
which observe a provider and OpenTelemetry in child processes; the
qualification scripts, which are tests; canonical JSON, schemas, redaction and
configuration, which are pure data; and the classification of provider messages
into bounded diagnostics, which is text.
