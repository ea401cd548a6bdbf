# A TLA+ verification of ContextEngine

ContextEngine delivers authorized, evidence-backed context to agents and bots. Sources are scanned
and imported into immutable Revisions, operators and source systems decide who may read them, a
runtime resolves requests against what is published and permitted at that moment, and a bot delivers
answers through an effect plane that must act at most once. Most of the protocol is PL/pgSQL in
`migrations/versions/` (where a function is replaced by later migrations, the last version counts),
driven by Python processes in `engine/`, `applications/` and `adapters/` and by TypeScript processes
in `action_plane/` and `bot_delivery/`.

This directory models the parts whose correctness depends on interleaving, crashes, retries, clocks
and expiry, checks them with TLC on small instances, and proves most of what is checked with TLAPS
for every instance.

## 1. The system, its parts and their modules

| Part | Module | State | What makes it hard |
|---|---|---|---|
| File import publication: job, lease, recovery row, worker (0011–0018, 0033, 0034, 0054, `file_imports.py`) | `FilePublication` | columns of job, recovery row, Resource and Source; program counter and locals of each worker | a crash between any two commits, workers that go on with a replaced lease, two jobs of one path, loss of authority in mid-publication |
| File scan cycle and delete execution (`file_scan.py`, `file_source.py`, 0028–0031, 0038, 0045) | `FileScan` | accepted pages, schedules, bound refusal; locals of each scan process | two scan commands interleaved page by page, files that change under a scan, a crash between acceptance and scheduling |
| Source progress and control calls (0017, 0028, 0039, 0045, `control_sources.py`, `control.py`) | `SourceProgress` | acquisition checkpoints, watermarks, pages, trusted calls | contiguity under replays, versions of the change feed, expiry between statements |
| Article access policy, Feishu observations (0005, 0008, 0042, 0049–0051, `access_policy.py`, `feishu_acl.py`) | `AccessPolicy` | versioned policies, observations, grants, epoch | observations late, twice and out of order; optimistic versions; a loss of access that must move the epoch |
| Flattening of Feishu groups (`feishu.py`) | `FeishuGroups` | none (pure) | cycles, unmapped and unreadable members |
| Bulk policy changes (0046, `bulk_article_policy.py`) | `BulkPolicyChange` | previews and commits of each editor | everything that changes between preview and commit; a lost reply |
| ContextRuntime.resolve (`membership_context.py`, `construction.py`, 0005, 0024) | `ContextRuntime` | requests, their locks, observed epochs and findings | policy writers between any two statements of a request |
| Retrieval, fusion, ranking, link expansion, budget (`prekernel_fusion.py`, `authorized_ranking.py`, `budget.py`, 0052, 0055) | `PackageAssembly` | one Package under assembly | refused candidates must leave no trace; every provider call is charged |
| Runs, audits, evidence, citations, grants, operator tickets (0007, 0019, 0020, 0024, `app.py`, `context_runs.py`) | `DeliveryLedger` | the rows a request leaves and its uncommitted ones | failure at each statement, hosts with different clocks, retention against redemption |
| Model hops (`model_inference.py`) | `ModelInference` | hops, grants and one budget | reservation, deadline and settlement of concurrent hops |
| Model boundary and bot gateway (`bot_delivery/.../index.ts`, 0020, 0025) | `ModelBoundary` | events, calls, egress rows, process lives | one model call per grant across restarts; citations of exactly the Package sent |
| ActionPlane (`action_plane/.../internal.ts`, 0022, 0023, 0027) | `ActionPlane` | attempt, ticket, provider attempt, receipt, session lock | lost answers and sessions, ambiguous sends, retries, late completion |
| BotDelivery (`private-delivery.ts`, 0026) | `BotDelivery` | memory of each process, grants and audits; extends `ActionPlane` | process loss at any await, regenerated answers |
| Minimal UI (`ui_api.py`, 0047, 0048) | `UiConfirmations` | tabs, tokens, previews and effects | two tabs, late and repeated confirmations |
| Supply execution bridge and connectors (`execution.py`, `supply_execution.py`, 0041, 0043) | `SupplyBridge`, `SupplyConnectors`, abstractly `SupplyStream` | job, lease generation, checkpoint, runners | a preempted runner that still answers, resumption, limits |
| Release promotion (0009, 0040, 0053, `releases.py`, `promotion.py`) | `Releases` | candidates, evaluations, calls, pointer and audit | runs that overlap, die, or lose the acknowledgement of a commit; publications meanwhile |
| No-op jobs (0006, `jobs.py`, `worker_jobs.py`) | `WorkerLease` | job rows, tokens, key ring, workers | signed tokens kept and late, key rotation, sub-second clocks |
| Golden corpus (`golden.py`, `golden_intake.py`, `backup.py`) | `GoldenCorpus` | private files, lock, snapshots, curators call by call | files instead of transactions: torn writes, deaths, concurrent commands |

Parts interact through the database. A scan accepts pages and schedules jobs; a job publishes a
Revision, which `FileScan` sees as the single step `RunJob`. `BulkPolicyChange` and `ContextRuntime`
extend `AccessPolicy`: bulk commits and requests run between its writers, and the two shared locks
of a request (`pubShared`, `fieldShared`) hold writers back. `BotDelivery` extends `ActionPlane` and
is shown to implement it; `SupplyBridge` extends `SupplyConnectors` and is shown to implement
`SupplyStream`. `PROJECT.json` lists every part, every definition with the source lines it stands
for, and the hazards with the properties that would catch them.

### How code becomes actions

A database function is one transaction and locks the rows it works on, so it is one action with its
checks as guards. A function that finds nothing returns without effect, and that refusal is an
action of its own wherever the caller reacts to it. A request or a command that keeps a transaction
open over several statements is several actions, and the rows it has written stay apart until its
commit (`resolve[d]` in `DeliveryLedger`). Processes are state machines around these actions: they
can die between any two of them, and they go on with what they read earlier. A lost answer is an
alternative outcome of the step that committed. Hosts read clocks within a skew of the database's
where the code compares the two (`DeliveryLedger`, `ModelBoundary`, `WorkerLease`).

Data are abstracted to what the code tells apart. A content is one value for bytes, compiler and
profile. Hashes are the values they are hashes of: a scan is its changes and its baseline, an epoch
is a scan and the head it follows, a digest of a payload is the payload. Signatures cannot be
forged. Scores, token counts and costs are small numbers.

What is outside the repository is modelled from its use: the model provider and the Sender answer
anything, or nothing, in time or late; the recovery adapter of the ActionPlane is truthful; a source
system answers any page of a feed from a small set.

### Notes on single modules

*FilePublication.* Time is the phase of a lease: live, expired, or due once its backoff has elapsed.
Direct imports exist until the change feed is activated. Jobs are claimed in any order. The DELETE
with which an embedding refusal wants to discard its recovery row removes nothing: the table forces
row security and its definer has no policy for DELETE. So the row stays (section 6).

*FileScan.* The page limit is 1, as in the code. Jobs and deletes are single steps that check what
their functions check at their end. A scan that was overtaken (section 5) is part of the model.

*ActionPlane, BotDelivery.* `Send` separates the answer of the Sender from whether the effect
happened; `LoseSession` takes the session lock away while the Sender is still running. The gateway
answers a repeated question with any text or none.

*DeliveryLedger.* Authorization is the subject of `ContextRuntime`; here a decision is any answer,
one Revision or nothing. A connection lost during COMMIT is answered 503 like a failed statement,
but the rows may be stored: a 503 says nothing about them, and `LedgerIsWhole` says that there are
all of them or none.

*ModelInference.* No application composes the inference port yet: it is modelled as the tests of the
repository drive it.

*GoldenCorpus.* Each file operation is an action. A process that writes keeps the file it has opened,
not its name (`opened`): another process may have renamed or unlinked it since, and the bytes go
where the file is. Instants are what operators pass as `--recorded-at`, in whole seconds, so two
processes may name one.

## 2. What TLC checks

Modules that share no state share a run: an `MC` module extends several of them, and the variable
`part` says which one a behaviour belongs to. The parts are explored side by side, never multiplied.

| Run | Instance | Shows |
|---|---|---|
| `file_publication` | 2 jobs of one path, direct or of 2 scan epochs with the Scheduler; 2 workers, 2 contents, 2 lease generations, one withdrawal | unfinished publications are exclusive, keep their base and agree with their job; the active Revision is whole; only the lease holder acts; a withdrawn Resource stays as it is; a superseded scan has no effect; offboarding ends every job |
| `file_liveness` | 2 jobs and 1 worker; 3 paths, 2 scanners, bound 2, 1 edit, 5 pages | a claimed job ends, exhausts its generations or loses its authority; scanning settles once files and processes are left alone |
| `scan_safety` | 4 paths, scan bound 3, 2 contents, 2 scanners, 2 edits, 3 pages | accepted scans are contiguous and lose nothing of their baseline, no import of a superseded scan is lost, an old delete is not executed |
| `action_plane` | 2 processes, 1 turn and operation, 2 payloads, 2 attempts | at most one effect, truthful receipts, effects only under an open attempt; a begun effect is settled or open to reconciliation, never stuck behind a lock |
| `bot_delivery` | 1 process with 1 crash, 2 texts, 2 grants, 2 events; 2 calls of the model boundary over 2 process lives with every small shape of Package; 2 UI tabs | a final effect belongs to its own placeholder and what is sent was generated and audited; one model call per grant, and answers that cite the Package sent; UI effects are the previewed ones, once; BotDelivery implements ActionPlane |
| `context_runtime` | an Acquire and a citation opening by two readers of two linked Articles; a Package from 5 Fragments of 3 Articles; 2 model hops | what is delivered or released is permitted in that state; refused candidates leave no trace; provider calls are charged; hops are accounted |
| `control_plane` | 2 Articles, 2 readers, 2 groups, 4 epochs; 1 Source with 3 checkpoints; 2 operators with 2 releases | the published policy is the meet of its two sides, losses advance the epoch, bulk changes are the ones shown, watermarks tell what is visible, promotions form a line |
| `ledgers_and_leases` | 2 requests, 1 evidence row, 2 operators; 2 feeds or a vault of 2 files, 2 runners; 1 no-op job, 2 workers, 2 keys; every graph of 3 Feishu groups; 3 curators, two of them with one instant, 2 pilots | rows of a request are all there or none; runs and reads are backed; accepted pages form a stream; receipts belong to the last lease; observations are closures; backups are whole; admissions are locked |
| `file_blocking`, `file_refusal`, `scan_repeat`, `progress_readable` | the jobs of `file_publication`, scheduled and direct; 2 paths and 1 scanner; 1 Source | **violated** (section 6) |

### Bounds

Two contenders suffice for the races: every guard compares one process with the rows, or one row
with one other row. Two generations give a lease, its replacement and exhaustion; the real limit of
4 repeats a step. Two contents, payloads or texts tell the same from the changed. Two epochs give
before and after, three a change in between. Clocks run as far as the shortest lifetime and one
instant more.

The constraints and `MC…Next` restrict orders that add no case. The proofs have none of them.

| Restriction | What it leaves out |
|---|---|
| `OneWithdrawal`, `ScheduledOnly` | a second loss of authority in one behaviour; direct imports beside scheduled ones |
| `DirectOrScheduled` | for scheduled jobs, two jobs of one content (a scan schedules what is new) and a loss of authority other than the Source's |
| `FewFiles` | initial files other than a prefix of the paths; a third file of another content, a second edit beside three files. The fourth file exists only at first, to exceed the bound |
| `JobsEndInOrder`, `OneIsDown`, `JobsEndBetweenScans` | jobs that overtake each other; two dead scanners (both would start over alike); job ends at steps of a scan that neither read nor write what a job does |
| `SinglePolicyEpochs` | the fourth epoch where there is no bulk change |
| `MCProgressNext` | the clock moves only before the first checkpoint, to expire calls |
| `MCReleaseNext`, `MCSupplyNext` | the second of two interchangeable actors going first |
| `MCContextNext` | policy writes before the first request, which only give another initial state, and after the last |
| `PublishedToReaders`, `PublishedArticles` | other initial policies: the requests and bulk changes start from Articles published by a history `AccessPolicy` allows |
| `PartStep`, `MCLedgerNext` | one question at a time: a repeated redemption of evidence; a citation and a grant; an operator's reading |
| `MCLeaseNext` | File tokens that appear late; key rotation before the first worker is at work |
| `MCBoundaryNext` | a second question after an unusual first Package; citations opened between questions |
| `MCUiNext` | tabs that mix kinds of confirmation; a third acquisition |
| `MCCorpusNext` | one question at a time: backups, restores and a lock; three backups, two of one instant; locks and admissions |

Deadlock is not checked: all jobs may have ended, all requests be answered, all bounds be reached.

### Fairness

`FairSpec` of `FilePublication`: workers take their next step, leases expire and the Scheduler
claims, as its polling loop does. A worker may still crash. `FairScanSpec` of `FileScan`: the scan
command is run again and does not hang, as the source-wide cycle does; its property assumes that
crashes and edits stop. `FairPlaneSpec` of `ActionPlane`: each awaited call ends, which the deadlines
of the clients give. Nothing in the repository calls `reconcile`, so no fairness is assumed of it:
`BegunEffectsComeToRest` says that an effect left in flight stays where such a call would settle it.
No other property needs fairness.

## 3. What TLAPS proves

The theorems hold for every value of the constants: any number of jobs, paths, processes, readers,
requests, keys, clocks and bounds. Their only assumptions are the named `ASSUME`s of the modules: the
value for "nothing" is not a value, limits and lifetimes are positive numbers, and where a set is
turned into a sequence it is finite. TLC evaluates the assumptions in the runs.

Each proof has the same three parts: the initial states satisfy an inductive invariant, every action
preserves it (one lemma per action), and the property follows from it; an action property follows
from the invariant in the state before the step. `PROJECT.json` lists the theorems; the invariants
are these.

| Module | Theorems about | Inductive invariant, and why the property alone is not enough |
|---|---|---|
| `JobsAndLeasesProofs` | `FilePublication` | `TypeInv`; `PublicationInv`: an open recovery is the only one of its Resource and its base is active, which are inductive only together, since a base stays active because nobody else publishes; `JobInv`: job and recovery agree and an unclaimed job is untouched; `ReaderInv`: contents are the expected ones |
| | `WorkerLease` | `LeaseInv`: nonces on the wire are at most the row's, a worker past verification holds one token, a receipt is backed by the row. A receipt of an earlier lease is excluded only because windows of one job follow each other |
| `ScanAndUiProofs` | `FileScan` | `ScanInv`: each accepted page carries a scan that is sound against its baseline; an import is scheduled, pending, or of a scan that a later one overtook; each process holds a cursor and a proposal that agree with the log although it may be behind it |
| | `UiConfirmations` | `UiInv`: a tab's token is of the state its preview showed; past effects carry epochs below the current one, so a token is spent once |
| `ActionPlaneProofs` | `ActionPlane` | `PlaneInv`: types; what each stage of a call owns (`CallInv`: who is sending holds the capability, and the session lock unless the session was lost); how the rows of an effect agree (`RowInv`). At most one call is between begin and complete of an effect, hence no second send |
| | `BotDelivery` | `ImplementsThePlane`: each step is a step of the plane or leaves it alone, so its theorems carry over. `FinalsFollow` and `AnswersAreTraceable` add what a process holds: a grant is held from its redemption to its audit by one call, texts of later stages were generated under it, and a delivered turn has its row |
| `AccessControlProofs` | `AccessPolicy` | `PublishedInv` and `GrantsInv`: a resolved observation names a policy, a published policy is the meet of both sides, a Feishu grant exists only under a resolved private observation |
| | `ContextRuntime` | `RuntimeInv`: a request's epoch is not ahead, its locks are held, what it found stays permitted while its epoch is current, and what it committed is what it found |
| | `BulkPolicyChange` | `BulkInv`: a preview stands for the versions it saw, and a commit leaves one of them behind, which excludes the second |
| `BoundaryProofs` | `SupplyBridge` | `SupplyInv`: a runner of the current generation is on track with the checkpoint, a preempted one is behind it, and no two hold the same page. From it the bridge implements `SupplyStream`, and replaying the accepted pages gives the checkpoint |
| | `ModelBoundary` | `BoundaryInv`: a grant between redemption and outcome has one call, of an admitted Package; every answer is backed by its grant's row |
| `ControlPlaneProofs` | `Releases` | `ReleaseInv`: corpus, candidates and evaluations are sound, the pointer's generation is the length of the audit, and each run agrees with the tables at its stage although others may have promoted since |
| | `SourceProgress` | `ProgressInv`: the three ledgers of a Source have one length; an import with a watermark has a completed job and a published Resource, a tombstone's Resource is hidden, and neither is ever undone. The watermark is the greatest number of a set, so `WatermarksAreVisible` and `ProgressMovesOn` rest on what `MaxOf` picks |
| `DeliveryLedgerProofs` | `DeliveryLedger` | `LedgerInv`: the uncommitted rows of a request match its stage (`RequestsAreSound`), the committed tables agree (`RowsAreSound`), and an operator's call matches its ticket (`ReadersAreSound`). Wholeness at commit needs the first, since the rows of a request are only joined to the tables then, whether or not the answer is in doubt |
| `GoldenCorpusProofs` | `GoldenCorpus` | `CorpusInv`: every file, wherever it is kept, says what an operation wrote, and what it says of locks was locked; `OpenedInv`: what a process has open is its own file, under its name, under the one an admission gave it, or without one. `BackupInv` adds that the staging directory of an instant only one process names holds what that process has copied so far, and that a directory is recorded while another process clears it only if both name its instant (`ClearsAreShared`); without the last a late `rmtree` could empty a snapshot |

Lemmas about operators are stated once in these modules: least and greatest numbers, sequences as
functions and their concatenation, a finite set in some order, and what an update of a record keeps.

### Only model-checked

| Property | Why it has no proof |
|---|---|
| `ClaimedJobsSettle`, `ScanningSettles`, `BegunEffectsComeToRest` | liveness under fairness |
| `InferenceIsAccounted` | sums over the hops: induction over data |
| `ProviderCallsAreCharged`, `DeliveryIsBlindToRefusals` | folds and sorting of the Package's Fragments: induction over data |
| `ObservationsAreClosures` | `FeishuGroups` is recursive |

## 4. Reading the properties

Each property has a comment with the statement and the code it is about. Each property of a passing
run was also broken: `PROJECT.json` names a mutation of a mapped definition, the way that code could
plausibly be wrong, under which TLC finds the property violated.

## 5. What the properties do not say

- `EffectsFollowOpenAttempts` has an exception that the code has. If the database session of a
  running Sender is lost, another process may reconcile its attempt as rejected, and the send may
  still take effect. Within one process `activeProviderAttempts` prevents it.
- After a restart a turn gets a new attempt reference, which the stored ticket refuses: such a turn
  stays undelivered (ADR-0053 names it as a reason to revisit). The model has it.
- `SupersededScansAreScheduled` excepts overtaken scans. If two scanners and at least three changes
  meet, a scan can be replaced before its pages are scheduled (0028:654-659); the later scan then
  observes the same files.
- `ReportedBackupsAreWhole` excepts the snapshots of a second that two processes name (section 6), and
  `AdmittedSetsAreLocked` asks for some lock entry of the admitted pilot: a re-lock between the
  verification and the rename may have added another since.
- A Package is permitted in the state of the final comparison. What happens to the policy while the
  reply is on its way is not a property of this code.
- The proofs are about the models. The correspondence of a model with the code is by reading, along
  the lines `PROJECT.json` gives for each definition.

## 6. Where code and documents disagree

Four runs show it:

1. `file_blocking`. ADR-0060 says "ineligible or exhausted work does not block fresh work". A job
   that used its last automatic generation keeps its unfinished recovery row, nothing removes the
   row, and every later job of the path waits for it, gives up and is failed (0015:1245).
2. `file_refusal`. `file_imports.py:842` says that a refusal by the embedding provider discards the
   acquired recovery state. The DELETE (0054:102) runs under row security without a policy that
   admits it, the job is failed and its row stays, with the same consequence for later jobs.
3. `scan_repeat`. ADR-0056 says that unchanged state after an unfinished scan starts a new scan
   bound to the latest complete baseline. If that baseline observed deletes, the provider proposes
   them again against the baseline itself, and acceptance refuses them (0030:501), so scanning makes
   no progress until the files change.
4. `progress_readable`. After the activation of version 4 the newest page is still one of version 3,
   whose scan bound the progress function does not return; `FileChangeScanHead` requires one
   (`file_change_pages.py:132`), so progress cannot be read and the scan that would cure it reads
   progress first.

Met while modelling and described by a definition or here only:

- `DeleteRevokesGrants` (`AccessPolicy`): ADR-0092 says a delete observation "revokes retained
  principal grants for that Article in the same transaction"; the tombstone path (0050:505) leaves
  them. The Article itself is tombstoned.
- `ReembeddingRefuses` (`Releases`): ADR-0102 clause 5 says an old release that observes Fragments of
  a new profile refuses; the query filters them out and goes on with the rest.
- `AnswersAreOneSnapshot` (`SourceProgress`): ADR-0072 composes progress and status "in one
  PostgreSQL statement snapshot"; the status function is `VOLATILE` (0039:116) and reads a later one.
- `ScanAllReachesEverySource` (`SourceProgress`): README.md:436-439 says a Source's own refusal does
  not prevent later Sources from scanning; a bound refusal or unreadable progress ends the command.
- `RecordedSnapshotsAreWhole` (`GoldenCorpus`): two backups with the same `recorded_at` share a
  staging directory, and what is recorded may be partial ("never write a partial one",
  `backup.py:434`).
- Golden corpus: two concurrent relocks, or a death within `write_text`, lose earlier locks ("while
  retaining all prior locks", `golden.py:651`); two concurrent intakes lose one case.

## 7. What is not modelled

| Part | Why |
|---|---|
| Markdown compilation, embedding providers, vendored parsers | pure or numeric; the models keep that equal content compiles to an equal Revision, and that a provider may refuse or exceed its bound |
| Judges' scores, benchmarks, triage notes | arithmetic and data; the gate they feed is in `Releases` |
| HTTP client, wire formats, MCP facade, TypeScript SDK, CLI parsing and rendering, read-only UI pages | stateless translation; the order of authentication, commit and reply is in `DeliveryLedger` and `ModelBoundary` |
| Database roles and row security | enforced by PostgreSQL (what it refuses to the code is modelled where the code relies on it, as in `RefuseAcquired`); the models hold one Organization, and another one only where the code compares them |
| Daily driver, setup and governance scripts, signal handling | not part of the protocol |
