# Kravhantering: verification project

Kravhantering is a requirements-management application: a Next.js server in
TypeScript, with SQL Server behind TypeORM, an MCP interface beside the HTTP
one, and AI-assisted drafting through external model providers. This directory
holds TLA+ models of its core, the TLC runs that check them, and theorems about
them proved with TLAPS. Paths below are relative to the repository's root unless
they name a module.

    tlc -workers 2 -config LifecycleSerial.cfg MCRequirementLifecycle
    tlapm RequirementLifecycleProofs.tla

Contents

1. [Inventory](#1-inventory)
2. [From code to model](#2-from-code-to-model)
3. [The requirement lifecycle](#3-the-requirement-lifecycle)
4. [The coordination of AI runs](#4-the-coordination-of-ai-runs)
5. [Quotas: exports, HSA verifications, imports](#5-quotas-exports-hsa-verifications-imports)
6. [Governance: agreements, retention, AI connections](#6-governance-agreements-retention-ai-connections)
7. [Operations: clean-up and forensic capture](#7-operations-clean-up-and-forensic-capture)
8. [Runs](#8-runs)
9. [Where the code and its documents disagree](#9-where-the-code-and-its-documents-disagree)
10. [What is proved](#10-what-is-proved)
11. [Only model-checked, and not modelled](#11-only-model-checked-and-not-modelled)
12. [Plan](#12-plan)

## 1. Inventory

Every application instance runs the same code, keeps little state of its own and
shares one database. Concurrency is therefore between requests (of one or many
instances) whose transactions interleave, and between instances that coordinate
through tables. `PROJECT.json` lists each part with its sources; the hazards it
lists carry the line where each one bites.

| Part | State | Operations and interactions | What is hard; what makes it correct | Model |
|---|---|---|---|---|
| **Requirement lifecycle** `lib/dal/requirements.ts`, `lib/requirements/lifecycle.ts` | `requirements.is_archived`; one row per version with status, three dates, revision token; package links | create, edit, transition, two-step archiving, delete draft, restore, reactivate; each calls the selection clean-up when it takes the Published version away | Some transactions decide on unlocked reads. No edit may overwrite unseen work; only Drafts change or are deleted; dates, links and flag agree with status; at most one Published version | `RequirementLifecycle` |
| **Selection questions** `lib/dal/requirement-selection-questions.ts` | questions, answers, links from answers to requirements | linking checks that the requirement is Published, then inserts; clean-up runs inside lifecycle transactions | The check and the insert are separate statements. No answer may link to a requirement that is out of use | links in `RequirementLifecycle` |
| **Requirement packages** `lib/dal/requirement-packages.ts` | packages, owners, links to versions | editing of packages; links move with publication | Two writers of the same links | links in `RequirementLifecycle` |
| **AI run coordination** `lib/ai/run-coordination-store.ts`, `lib/ai/run-coordinator.ts` | one queue/lease entry per run or probe; one circuit-breaker row per model; local variables of each run's generator | enqueue, acquire, renew, requeue, finish, abandon; list, acquire and finish probes | Crashes, lost answers, stale leases, late completions. Capacity is never exceeded, no attempt runs twice, breakers close only through probes, nobody starves | `AiRunStore`, `AiRunCoordination` |
| **AI connection administration** `lib/dal/ai-connection-admin.ts`, `lib/ai/admin-service.ts` | connections, profiles, model revisions, their statuses | suspend, activate, update, health evidence, profile status; marks coordination entries | A suspension must reach every run it concerns; what counts as verified must be of the configuration in force | `AiRunStore`, `ConnectionTrust` |
| **Model verification** `lib/dal/ai-model-verification-attempts.ts` | pending attempts | stored when a verification ends, consumed once, expire | The verification takes a minute and its result waits fifteen, while everything may change | `ConnectionTrust` |
| **Provider secrets** `lib/ai/provider-secret-service.ts` | secret versions, root keys | write, verify, activate, revoke, erase, re-encrypt in batches | A verification uses whatever secret is active when it gets there | runtime secrets in `ConnectionTrust` |
| **Forensic capture** `lib/ai/forensic-capture.ts`, `forensic-evidence.ts` | capture windows, evidence | request, approve by another person, stop, expire, purge, insert evidence | Evidence inserted while its window expires or is purged | `ForensicCapture` |
| **AI adapters, integration layer, safety** | none shared | requests to and streams from providers | Network; the coordinator sees an outcome | – |
| **Generated output** `lib/generated-output/*`, `lib/dal/export-actor-quota.ts` | a quota row per export, counters per process | admit, deliver, abort, time out, watchdog, release | Four exits race to release one slot exactly once; a dead instance's slot must free itself | `ExportQuota` |
| **HSA verification quota** `lib/dal/hsa-verification-quota.ts` | three fixed-window buckets | consume, expire, erase a person's buckets | A request refused by one bucket has used the others; an erasure may take buckets that are in use | `HsaVerificationQuota` |
| **Requirement import** `lib/requirements/import-service.ts`, `lib/dal/requirement-import-validation-sessions.ts` | validation sessions | validate, create session, execute, expire; change the quotas, erase a principal | Quota re-checked under a lock; quotas change while sessions live; rows become requirements once, as they were validated | `RequirementImport` |
| **Transient clean-up** `lib/transient-cleanup/*` | none of its own | runs targets in order with one work budget | A backlog or a failure of one target must not stop the others for good | `TransientCleanup` |
| **Specifications** `lib/dal/requirements-specifications.ts` | lists and items | row edits with revision tokens | Content is bound by agreements; the rest is row-local | content in `SpecificationAgreements`, deletion in `Retention` |
| **Deviations, agreements** `lib/dal/deviations.ts`, `lib/specifications/agreement*.ts` | deviation status; agreements with effective times | request, review, decide; register, draft, confirm, correct, cancel, end; lazy activation at access | Permissions and content change at a midnight at which nothing runs | `SpecificationAgreements` |
| **RFI questions, improvement suggestions** | rows with revision tokens | edit, order, resolve | Row-local | – |
| **Access reviews** `lib/access-review/service.ts` | one open run, its decisions | open, decide, complete | Each operation locks the open run first | – |
| **Archiving and retention** `lib/archiving/retention.ts` | confirmation tokens in memory | preview, archive, execute | A token is minted before the archive is read and spent before the run commits | `Retention` |
| **Areas, norm references, settings** | reference data | row edits | Row-local | – |
| **Authentication, authorization** `lib/auth/*` | sessions | decides which requests run | Per request | – |
| **Audit, observability, privacy** | append-only records | written inside other operations; erasure | Written in the same transaction | erasure in `ExportQuota`, `HsaVerificationQuota`, `RequirementImport`, `ForensicCapture` |
| **HTTP, MCP, readiness** | none, or caches per process | routing, validation | Retries are calls like any other | – |
| **Reports, PDF, user interface** | none, or what a form remembers | rendering | A stale form | forms in `RequirementLifecycle` |
| **Schema, migrations, scripts** | the database's constraints | deployment | Constraints appear as guards of the models | – |

## 2. From code to model

**Atomicity.** The database runs at READ COMMITTED unless a transaction asks for
more (`lib/typeorm/sqlserver-config.ts`). A model step is

- a whole transaction or batch, when it is SERIALIZABLE or its first statement
  locks what it decides on (`UPDLOCK, HOLDLOCK`, an application lock), or when
  every write names the revision token that was read: it behaves as if it ran
  at one instant;
- a pair `Read…` and `Commit…`, or more steps, when a transaction or a call
  decides on what it read without a lock. The first step takes the snapshot
  into a variable (`call`, `verifying`, `check`); the last does all the writes,
  which are one step because the row locks of the first write are held to the
  commit. Anything may happen between, and the request may end instead
  (deadlock victim, broken index or foreign key, lost connection).

Writes that break a unique index do not happen: `Next` of the lifecycle carries
`UniqueIndexes'`, which stands for the filtered indexes of
`lib/typeorm/entities/requirement-version.ts`.

**Time** is the coarsest that tells the properties apart: in the AI modules and in
`ForensicCapture` what a comparison with a clock yields (a lease is valid or
expired, a window's 72 hours are over), which may change at any moment; in
`ExportQuota` and `RequirementImport` a discrete clock; in
`HsaVerificationQuota` the number of the window; in `SpecificationAgreements` and
`Retention` the day.

**Names.** Actions and operators keep the names of the functions they translate
(`acquireRecoveryProbe`, `finish`, `CommitDelete` for `deleteDraftVersion`);
`PROJECT.json` maps each to its lines. Operators whose comment begins with
"Mutant:" are plausible wrong versions of their neighbour; no specification
uses them. Substituting one for its neighbour makes TLC report a violation of
the property it is paired with in `PROJECT.json`, which shows that the property
depends on that line of code.

**Components that share no state share a run.** `MCQuotas`, `MCGovernance` and
`MCOperations` extend three components each. A variable (`quota`, `part`),
chosen in the initial state and constant, says which of them a behaviour
exercises; the others stay in their initial states, so the state spaces add up
and do not multiply. The components of `MCQuotas` share the model values of their
requests and people, so that one symmetry set serves all. `MCOperations` has
liveness properties and no symmetry. There the fair steps of the export quota and
of forensic capture are not enabled in an initial state, so that they oblige
nothing in a behaviour about something else; those of the clean-up are, and its
fairness is asked for where `part` is the clean-up.

## 3. The requirement lifecycle

| Module | What it is |
|---|---|
| `RequirementLifecycle` | one requirement: its versions, flag, package links and selection links; requests and edit forms |
| `PublicationWorkflow` | the abstract specification: the state diagram users are promised |
| `MCRequirementLifecycle` | symmetry and view for TLC |
| `RequirementLifecycleProofs` | theorems |

| Variable | Code |
|---|---|
| `present`, `archived` | the row of `requirements`, its `is_archived` |
| `live`, `ver` | ids and columns of its `requirement_versions` rows |
| `linked` | versions with rows in the package link table |
| `selected` | selection answers with a link to the requirement |
| `form` | what an open edit form remembers: base version id, revision token, and what it shows |
| `call` | what a READ COMMITTED request read and has not yet acted on |
| `reviewed` | history only: the text last submitted for publication review |

| Action | Request |
|---|---|
| `Create` | `createRequirement` |
| `LoadForm`, `CloseForm`, `SaveInPlace`, `SaveAsNewDraft` | opening a form; `editRequirement` on a Draft and on a Published version |
| `InitiateArchiving`, `ApproveArchiving`, `CancelArchiving` | the functions of that name |
| `ReadTransition`, `CommitTransition` | `transitionStatus` |
| `ReadDelete`, `CommitDelete` | `deleteDraftVersion` |
| `ReadRestore`, `CommitRestore`, `Reactivate` | `restoreVersion`, `reactivateRequirement` |
| `ReadLink`, `CommitLink`, `Unlink` | the linking of `requirement-selection-questions.ts` |

**Abstractions.** Content (description, taxonomy, norm references) is one value of
`Texts`. Package membership is a Boolean per version. A date is set or not. A
revision token is compared only with the one a form holds, so `NEWID()` returns
any value no form remembers for that row. A requirement deleted with its last
draft can be followed by another one in the same variables, once no form and no
request refers to the old one. One requirement is enough: apart from package
editing, which is not modelled, no operation reads two.

**Two specifications.** `Spec` lets requests overlap. `SerialSpec` adds
`OneAtATime`: nothing runs between a request's reads and its commit. A lifecycle
property either holds under `Spec`, and is checked and proved there, or holds
only under `SerialSpec`; then the run that violates it under `Spec`, or the
discussion in section 9, shows the overlap the code does not exclude.

| Property | Specification | What it says |
|---|---|---|
| `TokenPinsForm` | `Spec` | while the token a form remembers is still the row's, so are the text and status it showed: an accepted save overwrites nothing unseen |
| `RequirementHasVersions` | `Spec` | a requirement row exists exactly as long as it has a version |
| `ContentFrozen` | `Spec` | only a Draft's content ever changes |
| `LifecycleDates` | `SerialSpec` | dates and archiving mark agree with status (`docs/reference/version-lifecycle-dates.md`) |
| `PublishedWasReviewed` | `SerialSpec` | what is published is the text that was submitted for review |
| `LinksFollowPublication` | `SerialSpec` | no archived predecessor keeps package links beside a Published version, and answers link only to a requirement that is in use |
| `ArchivedFlagKept` | `SerialSpec` | the flag is taken back only by a publication or a reactivation |
| `ImplementsWorkflow` | `SerialSpec` | with each version's status and archiving mark mapped to a state name, the lifecycle implements `PublicationWorkflow`; in particular only a Draft is ever deleted |

**The view.** The runs tell states apart by what can still matter (`View`,
`HistoryView`): a token is compared only with the one a form remembers, a form
whose token is stale can only be closed, and columns of deleted rows are never
read. The properties checked there read nothing else.

## 4. The coordination of AI runs

| Module | What it is |
|---|---|
| `AiRunStore` | the two tables and every statement on them, the administration statements, and time |
| `AiRunCoordination` | the instances: one generator `coordinate()` per run, automatic and manual health probes; composes them with the store |
| `CircuitBreaker` | the abstract specification of one model's breaker |
| `MCAiRunCoordination` | symmetry for TLC |
| `AiRunProofs` | theorems |

| Variable | Code |
|---|---|
| `entry` | `ai_run_coordination_entries`: status, model, lease, deadlines passed, cancellation mark, attempt count |
| `op` | `ai_connection_model_operational_states`: breaker, reason, counters, manual flag, next probe, lease |
| `active`, `enabled`, `verified` | status of the connection, the run profile and the model revision |
| `run` | local variables of `coordinate()`: where it is, attempt number, `coordinationState`, outcome |
| `probe` | local variables of a health probe |

Each operation of the store is an operator with the code's name and, where the
statement answers its caller, the answer as a parameter (`acquire(r, answer)`).
`AiRunCoordination` calls it and lets the generator react. Between two steps of
a generator anything may happen to the tables, as between two awaits. The
`finally` blocks are `Finish` (holds, or believes it holds, a lease) and `Leave`
(waits in the queue).

**What may go wrong** is named by the constant `Disturbances`, so that a run can say
which it allows: `crash` (a run's instance dies), `probe_crash` (a probe's
does), `database` (a statement fails, or commits and its answer is lost),
`stall` (a renewal comes after its lease has expired), `manual_probe`
(`runManualHealthProbe` is called), `administrator` (settings change). The
theorems hold for every choice.

**Abstractions.**

- One connection, one run profile for each model. The queue is per connection and
  capacities are per connection and per model.
- The IDENTITY column `queue_sequence` is the set of entries inserted earlier.
- A renewal of a valid lease changes nothing the model keeps and is a stutter; a
  renewal that finds its lease gone is `LoseLease`.
- The outcome `unavailable` stands for the three failures that count against the
  breaker, `stopped` for those that do not and for cancellation. Byte, token
  and time budgets only choose the outcome.
- `FailureLimit` and `RecoveryLimit` are 5 in the code and constants here: 1 or 2
  in the runs, arbitrary in the theorems.
- A verified model revision that loses its verification does not get it back:
  verifying again makes a new revision (`ConnectionTrust`).
- Left out: `health_status`; the batch limit of the clean-up job; telemetry;
  re-pointing a profile to another model; retiring a connection; lowering a
  concurrency limit while leases are held (the code promises the limit only
  for new leases).

| Property | What it says |
|---|---|
| `CapacityRespected` | runs and probes never hold more valid leases than the connection and each model allow |
| `OpenHasWayOut` | a breaker that failures opened is scheduled for a probe or flagged for an administrator |
| `SuspensionReachesRuns` | a run that a suspension concerns stays marked, through retries, until its entry is gone |
| `AttemptOwnsEntry` | the entry of an executing attempt is running and counts that attempt, or is gone |
| `AttemptsStartServing` | no attempt starts on what is suspended, unverified or tripped, although `acquire` reads neither status |
| `ImplementsBreaker` | each model's operational state implements `CircuitBreaker` |
| `WaitingIsServed` | a run whose instance keeps polling is served or refused, even behind orphans |
| `EntriesLeave` | no entry stays for ever |
| `OpenIsResolved` | a breaker that failures opened is probed until it closes or is handed to an administrator |

Two more are theorems without a run: `ProbeOccupiesSlot` (a probe's lease on the
breaker and its running entry come and go together) and `ClosedOnlyByProbe` (a
tripped breaker closes only in a step in which a probe returns a valid lease).

**Fairness** (`FairSpec`) is weak, and on these steps only:

- live instances poll on an interval, end their attempts (every attempt has an
  output budget and a total deadline), notice a lost lease through the
  heartbeat, retry or finish, and leave the queue (`finally` blocks);
- every instance lists and runs due probes on a timer, and a probe has a budget;
- the database clock advances: leases nobody renews lapse, retry and recovery
  times come;
- the clean-up job runs (`lib/transient-cleanup`).

Nothing obliges an instance to crash, a caller to come or go, an administrator
to act, or the deadline of a live run to pass (`OrphanDeadline` covers only
entries without an instance). `OpenIsResolved` says nothing of a breaker that a
failed authentication opened: with room for a run beside a probe, as in the run,
that breaker can lose its flag and stay open for ever (section 9). Under a crash `WaitingIsServed` counts the crashed
run as no longer waiting: its generator is gone.

## 5. Quotas: exports, HSA verifications, imports

### Exports (`ExportQuota`, abstract: `ExportSlots`)

| Variable | Code |
|---|---|
| `entry` | rows of `export_actor_quota_entries`: state, actor, time since `created_at` |
| `pc`, `actor`, `node`, `age`, `aborted` | one call of `runWithExportActorQuota`: where it is, who asked, its process, time since `startedAt`, its combined signal |
| `armed` | its watchdog thread |
| `slot`, `spool`, `pool`, `reserved` | the handles on generation capacity and storage, and the counters of the process |
| `dir`, `swept` | spool directories on the shared disk; whether a process has done its start-up clean-up |
| `starts` | history: admissions of an actor |

Admission is one SQL batch (`Admit`, `Refuse`); then the export arms its watchdog
(`Arm`), acquires capacity, opens a spool, generates, responds and delivers, and
any of these may fail; `Abort` is the client or the timer, at any point.
`Finish` releases the row. A process dies with everything in it (`Crash`, also by
its watchdog), a starting process sweeps stale directories, the clean-up removes
old rows (`Purge`), and a privacy erasure forgets an actor (`Erase`).

The code's 60, 720, 840 and 900 seconds are constants with
`Window <= Lifetime < FailStop < Recovery`. Timers of a process may be late by any
amount; the watchdog, a thread of its own, by less than `Recovery - FailStop`;
the clocks of the database and of the nodes advance together. Each process has
one pool, and a file reserves one unit of storage. An erasure removes the rows,
and with them the memory of the starts.

| Property | What it says |
|---|---|
| `HoldsSlot` | an export that generates, delivers or cleans up still occupies its actor's slot |
| `RateRespected` | in no window is an actor admitted more often than the limit, whatever became of the rows |
| `CountersExact` | the counters of a process are what its exports hold, on every exit |
| `SpoolKept` | no start-up clean-up removes a directory in use |
| `ImplementsSlots` | the exports at work implement a counting semaphore per actor that dying nodes cannot fill |
| `EveryExportEnds` | every export ends and frees its slot |

Fairness: time passes, SQL answers, arming ends, the `finally` block runs, and the
watchdog fires. Generation, delivery and the process's own timers owe nothing: a
stuck export ends by its watchdog.

### HSA verifications (`HsaVerificationQuota`)

One serializable transaction consumes the buckets of the actor, of the pair and
of the target, each under an application lock kept to the end (`Begin`, `Lock`,
`Consume`, `Deny`, `Rollback`), in the window its first statement read; the
clean-up purges buckets of windows that are over, skipping locked rows
(`PurgeBuckets`); a privacy erasure deletes every bucket about a person, as actor
or as target, the current window's included (`EraseSubject`), and waits for the
rows that a transaction has written. `count` is the table, `check` the
transactions; `admitted` and `denied` are history, kept for each bucket and
forgotten with it.

A transaction that has waited past the end of its window can still be admitted to
that window, even after its buckets were purged. An erasure makes room: afterwards
as many verifications are allowed again as if the window had just begun, so that
over the whole window more than the limit may have been. `HsaQuotaExact` therefore
speaks of the current window and, for each bucket, of the time since it was last
erased: no actor, pair or target is allowed more than its limit, and every unit in
the bucket is explained by one request of that time (allowed, denied by a later
bucket, or under way). An erasure that took away a unit of a request under way, or
a rollback that took a unit back twice, would break it.

### Imports (`RequirementImport`)

| Variable | Code |
|---|---|
| `session`, `issued` | `requirement_import_validation_sessions` by token; tokens ever given out |
| `bucket` | `requirement_import_validation_rate_buckets` |
| `ref`, `budget`, `usable`, `allowed` | the fingerprints of reference data and import budget, destinations that take imports, authorized principals |
| `quotas` | the four quotas in `ai_settings` |
| `call` | each request: where it is and what it has read |
| `active` | `activeRequirementImports` of the process |
| `created`, `made` | history: requirements made of each row, sessions made in each window since the erasure of its bucket |
| `granted` | history: the quotas that the latest session of a principal, of a destination and of all was admitted under |

Validation is `Validate` (the advisory checks), `Preview` (inside the capacity of
the process) and `CreateSession` (one transaction under the application lock);
execution is `Execute`, `StartExecution`, `CommitExecution`. The dialog of the user
interface shares the capacity and keeps no session (`Dialog`, `WriteDialog`); its
writing transaction compares the budget only. `Fail` ends a call anywhere;
`ImportCrash` ends the process. `Administrate` changes the reference data, the budget,
the destinations, the permissions or the quotas; `ErasePrincipal` deletes a principal's
sessions, its rate buckets or both, whichever the administrator chooses for each
group. Bounds: the clock and the decisions of administrators.

Two things the code allows keep the limits from being limits on what is in the
tables. Lowering a quota deletes no session (`docs/governance/admin-center.md:273`),
so more may live than the quota allows until they expire; and an erasure of the
current window's bucket restarts the count of creations. What the code does promise
is that nobody is admitted beyond the quotas of that moment, and this is what
`ImportLimitsHold` says: it compares with `granted`, not with `quotas`.

| Property | What it says |
|---|---|
| `ImportLimitsHold` | live sessions per principal and destination, creations per window since an erasure, and reserved bytes are never more than the quotas allowed that the latest session was admitted under, however validations race past the advisory check and quotas change; calls at work stay within the capacity |
| `ReceiptExact` | no row becomes two requirements, however often its token is executed, and the receipt says which rows were imported |
| `WritesAreCurrent` | rows are written only under the budget and reference data they were validated with, to a destination that takes them, for an authorized owner, before the session expires |

## 6. Governance: agreements, retention, AI connections

### Agreements and deviations (`SpecificationAgreements`, abstract: `AgreedContent`)

| Variable | Code |
|---|---|
| `today` | `stockholmDate(now)` |
| `agreement` | `specification_agreements`; the phase stands for the time columns, `is_pending` and `is_current` |
| `member`, `frozen` | `specification_agreement_items` and their follow-up snapshots |
| `content` | requirement applications: validity, owner, usage status, and their deviations with planned and actual endings |
| `midnight` | history: the follow-up when the day began on which an agreement became due |

Every operation locks the specification first and materialises an agreement that
is due. That materialisation is the step `Activate`; every other operation waits
until nothing is due (`Settled`). The working set: `AddContent`, `RemoveContent`,
`ReplaceContent`, `FollowUp`. Deviations: `CreateDeviation`, `MoveCase` (request,
revert, reject), `ApproveDeviation`, `CancelDeviation`, `CloseDeviation`. Agreements:
`RegisterFirst`, `CreateDraft`, `AddToDraft`, `ChangeInDraft`, `RemoveFromDraft`,
`UndoInDraft`, `DiscardDraft`, `ConfirmDraft`, `CorrectDate`, `CancelUpcoming`,
`EndAgreement`. `NextDay` lets midnight pass. Library pins and local texts are
alike; texts, references and notes are left out; permission checks fail before
any write. `deleteDeviation` deletes nothing and is the cancellation.

| Property | What it says |
|---|---|
| `OneContent` | what is live is the content of one agreement: the current one, or the first while it is upcoming; after an end nothing |
| `NothingLeftOpen` | what a confirmed agreement leaves behind has nothing undecided and every permission there has its ending planned; content that was left gives no permission |
| `RenewalsAreCurrent` | one undecided deviation per row at most, and a renewal under way is of the latest approval, not closed meanwhile |
| `HistoryStands` | what a replaced agreement froze is the follow-up at its midnight, however late that was noticed; nothing frozen and no decided deviation changes |
| `ImplementsAgreedContent` | content in force is what was agreed on every day; nobody can see that the activation came late |

### Retention (`Retention`)

`specs` are the rows of `requirements_specifications` (whether they exist, are old
enough and in use), `held` the active exceptions, `runs` the committed runs of the
policy, `shown` the preview each officer was last shown, `exports` the archives
with the preview they are of, how far they have been read and which server keeps
their confirmation in memory. `Preview`, `StartArchive`, `ReadSpecification`,
`HandOut`, `Execute`; around them failures (`ArchiveFails`, `ServerRestarts`,
`ConfirmationExpires`) and everybody else (`EditContent`, `EditRecord`,
`RemoveSpecification`, `Except`, `ExceptionEnds`, `Midnight`). A preview token is what
it is the digest of: candidates, cutoff and the policy's version.

`ArchivedFirst`: a specification that a run deleted was in an archive that had been
handed out. `RetiresWhatWasShown`: a run deletes exactly what an officer was shown.

### Trust in an AI connection (`ConnectionTrust`)

`conn`, `secrets`, `revisions`, `evidence` and `attempts` are the tables;
`verifying` is what a verification under way has read; `selected` is the revision
of the run profile. An operation whose writes name the tokens it has read is one
step (`UpdateConnection`, `ActivateSecret`, `SaveRevision`, `EndRevision`, …). A
verification has no token: it reads the connection (`StartVerification`), later
the active secret (`UseSecret`), and is stored (`StoreAttempt`); its result waits
until it is saved or dropped. Health probes contradict a model or the connection.
A saved revision adds exactly one entry of evidence, which its deletion removes.
Expiry of evidence and the limit of 512 pending attempts are left out.

`TrustInForce`: a revision counts as verified only under the configuration and the
secret it was verified with; the newest evidence of the connection is then a
passed test; one verification makes one revision.

## 7. Operations: clean-up and forensic capture

**`TransientCleanup`.** A target is the number of its expired rows (`backlog`); `run`
is what a runner is doing: at which target, how much work it has left, what it
estimates and which rows its open DELETE has locked. Targets fail and mend, rows
go on expiring, runners overlap and die. `TargetsDrain`: a target that has stopped
failing is brought down to the backlog target and stays there, once rows have stopped
arriving in it and in the targets before it. Until then those may take the whole
work limit of a run, or of many, and may fail; what the targets after it do never
matters. Without the condition on the earlier ones it does not hold (section 9).
In the run a target may hold as many rows as the work limit, so that a run often
ends with nothing left for the last target. Fairness: the timer starts runs and
every statement ends, with rows or an error; a schema need not be mended.

**`ForensicCapture`.** `captures` are the rows of `ai_forensic_capture_windows` with
the count of their evidence; `purging` is what a person's purge, two statements in
a READ COMMITTED transaction, has done. A handler is one step otherwise. A blocked
call may come between those two statements when the first one found nothing to
delete; `missed` remembers the windows where one did.

| Property | What it says |
|---|---|
| `OneWindow` | at most one window waits for approval or is active, although `is_open` is not what decides whether evidence is taken |
| `OnlyMissedStay` | evidence is left in a purged window only if a blocked call stored some between the two statements of a purge; approvals, batches, erasures and purges that meet leave none |
| `EvidenceLeaves` | the evidence of every window is deleted in the end, unless it is left in that way |
| `PurgedIsEmpty` | a purged window has no evidence: what the documents say, and what `forensic_purge` violates |

Fairness: time passes, a purge ends, and the clean-up's statement runs.

## 8. Runs

Sizes are distinct states; each run ends within five minutes with two workers.

| Run | Instance | Question | States |
|---|---|---|---|
| `lifecycle_serial` | 3 versions, 2 texts, 2 forms, 1 answer, numbers to 3 | Do requests, one at a time, keep dates, review, links and flag, and implement the workflow? | 287,476 |
| `lifecycle_concurrent` | 2 versions, 2 texts, 2 forms, 2 overlapping requests | Does any save overwrite unseen work, or change what is no Draft, and does a requirement keep a version? | 1,032,879 |
| `ai_administration` | 2 runs, 1 probe, 1 model, every disturbance but manual probes | Do suspensions and updates reach every run, and does an attempt ever run twice or start on what is closed to it? | 292,848 |
| `ai_breaker` | 2 runs, 2 probes, 1 model, 2 failures trip, 1 trial; crashes, stalls, manual probes | Is capacity kept, and does the operational state behave as a circuit breaker? | 570,617 |
| `ai_run_live` | 2 runs, 2 probes, 1 model, capacities of 2, 1 failure trips, 2 trials, crashes of runs, fair | Is a waiting run served behind orphans, does every entry leave, does a breaker that failures opened get out of that state while runs admitted before still report? | 35,628 |
| `quotas` | exports: 2 of 2 actors on 2 nodes; imports: 2 tokens, 2 principals, 1 destination, 2 calls, 2 rate windows, 3 settings of the quotas; HSA: 2 actors, 1 target, 2 transactions, 2 windows; all limits at their boundary | Are the three quotas kept, whatever races, fails, waits, dies, is changed or erased? | 524,063 |
| `governance` | 1 slot, 2 agreements, 2 rows, 2 deviations, 3 days; 3 configuration versions, 2 secrets, 2 attempts, 2 revisions; 2 specifications, 1 archive, 1 run | Do agreements, archives and verifications say what is in force? | 792,922 |
| `operations` | 2 exports of one actor; 3 targets, one absent, of 2 rows, work limit 2, 2 runners; 2 persons, 2 windows of 2 pieces of evidence; fair | Does every export end, every target drain, all evidence leave that no purge has missed? | 238,306 |
| `race_review`, `ai_half_open`, `forensic_purge`, `retired_connection` | as small as the violation allows | section 9 | – |

**Why the bounds are enough.** Every lifecycle rule relates a version to its
predecessor: two versions show it, the third shows a restored or edited one
beside an archiving review and its Published successor, which is the largest
constellation the unique indexes leave. `MaxNum` bounds version numbers, not
requests: drafts can be deleted and added without end, and the graph is cyclic.
Two texts tell a stale form from a current one; three tokens are one more than
two forms can remember. Two overlapping requests are enough for a snapshot to go
stale, since a third can only do what the second may already have done.

For AI runs, two runs exceed a capacity of one, queue behind each other, trip a
limit of two together, and leave an orphan in front of a live run; two probes
compete for one lease. With the capacities of 2 in `ai_run_live` a run that was admitted
earlier still works, and reports, while the breaker is open and probed; and a run whose
predecessor in the queue dies before it polls waits behind that orphan. Retries are bounded by the code (two attempts), counters by
the limits.

The quotas have limits of one or two and one request more than the limit; a
window that ends, a bucket that is purged and a lease that expires all happen
before the clocks stop. The three settings of the import quotas (`MCQuotaValues`) each
make other limits decide, and the one change that is allowed lowers one limit and
raises another: two sessions live at one destination, and then under a limit of one
per destination, or of fewer bytes than they reserve. The deadlines of an
export are as tight as their order allows (1, 1, 2, 3), so that every one of them
can pass; those of `operations` (1, 2, 3, 4) and a target limit of 2 in the HSA
quota were checked by hand (838,854 states altogether). Agreements relate one agreement to the one before it, and
the third day is the one after the midnight at which something was due; larger
instances were checked by hand: three rows and three days (1,893,337 states),
three agreements, four deviations. Two administrators of a connection were
checked by hand too (848,664 states); its theorem is for any number. Two clean-up
runners can lock each other's rows; two windows, of which one is open, and two
persons, as the approval asks for, are what the forensic rules speak of.

Symmetry is used in runs without liveness properties only, over identities that
no definition orders or tells apart. Deadlock is checked in every run but `quotas`
and `governance`, where a bounded clock, or a bound on what is registered, written
or asked for, really stops the system.

## 9. Where the code and its documents disagree

Four runs expect a violation; each checks one statement of the documentation.

- **A text can be published unreviewed** (`race_review`).
  `docs/governance/lifecycle-workflow.md:56-57`: "must go through the full Review
  → Published cycle". A publication that read Review commits after the version
  went back to Draft and its text was replaced.
- **A half-open breaker can be stuck** (`ai_half_open`).
  `docs/reference/database-schema.md:2300-2302`: "expired half-open leases are
  reclaimable". The branch that reclaims one exists, but the listing selects
  only open breakers and the manual acquisition only closed and open ones, so
  nothing calls it for a half-open row.
- **A purged window can keep evidence** (`forensic_purge`).
  `docs/reference/database-schema.md:2499`: `purged_at` is the completion of the
  purge. When the window had no evidence, the DELETE leaves no lock behind, and a
  blocked call can insert evidence before `purged_at` is set; the clean-up never
  looks at that window again, although evidence is to be purged 72 hours after the
  stop or expiry (`docs/governance/admin-center.md:360-361`).
- **A retired connection can return** (`retired_connection`).
  `messages/en.json:2013`: "A retired connection cannot return to an active
  lifecycle." Activating a provider secret sets the status of a retired connection
  to `verification_required`, from where it can be activated.

More are of the same kind, or limits of what the code promises, but have no run:

- A version that is no Draft can be deleted: `deleteDraftVersion` checks an unlocked
  read and deletes by id, and a submission for review may commit in between
  (`docs/governance/lifecycle-workflow.md:90`: "only while it is a Draft").
- A Published version can be hidden, without any overlap: one that was restored and
  published during an archiving review is hidden when the archiving is approved
  (`docs/reference/version-lifecycle-dates.md:236`).
- Overlapping transitions can leave a Draft with a publication date, which
  `docs/reference/version-lifecycle-dates.md:112` excludes (the interleaving of
  `race_review`).
- A link from a selection answer can be inserted after the requirement lost its
  Published version (`lib/dal/requirement-selection-questions.ts:1264`).
- The manual-recovery flag of a breaker can be lost: a probe under way when an
  authentication fails recomputes the flag from its attempt count
  (`docs/operations/ai-connections.md:591-593`: it "requires manual recovery"). The
  breaker is then open for ever, neither listed for a probe nor flagged. It takes a
  run and a probe at work together, which capacities of 2 allow; `OpenIsResolved`
  without its condition on the reason is violated in `ai_run_live`.
- Arrivals can starve a clean-up target: when as many rows expire between two runs in
  the targets before it as the work limit allows to delete, the shared limit is used up
  before its turn in every run (`lib/transient-cleanup/runner.ts:124`). The order is
  fixed and no run begins where the last one ended.
- A privacy erasure restarts quotas of the running window: it deletes the HSA buckets and
  the import rate buckets of the person with everything they count
  (`lib/privacy/erasure.ts:1260`, `:1297`), so that more than the documented number can be
  admitted in that window.
- Lowered import quotas do not bind what lives; this the documents say
  (`docs/governance/admin-center.md:273`).
- A manual probe of a closed breaker that fails without a specific reason violates
  the table's CHECK on `circuit_reason`; the batch is rejected
  (`lib/ai/run-coordination-store.ts:783`). The model has this exception. Only
  tests call `runManualHealthProbe` at present.
- An archive may hold older content than what is deleted: content of a
  specification can change between its archive and the run without changing the
  preview token (`docs/reference/database-schema.md:3318`).
- A verification that was finished before a failed authentication was reported can
  be saved after it, and then counts as newer evidence
  (`docs/governance/admin-center.md:215-217`).
- `deleteModelRevision` deletes evidence that `docs/operations/ai-connections.md:242`
  calls append-only.
- `saveRunProfile` (`lib/dal/ai-connection-admin.ts:1520-1572`) does not compare the
  revision's configuration version with the connection's. It need not: that is
  what `TrustInForce` guarantees.

## 10. What is proved

All theorems are checked by TLAPS (Z3, Zenon and LS4) for every value of the
constants that satisfies the named assumptions of the modules: disjoint
identities, positive limits, finite sets of identities, a supply of tokens that
the open forms cannot exhaust, and the order of an export's deadlines.

| Module | Theorem | Says |
|---|---|---|
| `RequirementLifecycleProofs` | `TypeCorrect` | the type invariant |
| | `NoLostEdit`, `NeverWithoutVersions` | `TokenPinsForm` and `RequirementHasVersions`, however requests overlap |
| | `ContentStaysFrozen` | `ContentFrozen`, however requests overlap |
| | `SerialSnapshots` | when requests do not overlap, a snapshot is current when its request commits |
| | `SerialDates`, `SerialReviewed`, `SerialLinks` | then `LifecycleDates`, `PublishedWasReviewed` and `LinksFollowPublication` hold |
| | `SerialArchivedFlag`, `SerialWorkflow` | and so do `ArchivedFlagKept` and `ImplementsWorkflow` |
| `AiRunProofs` | `Invariance`, `AiTypeCorrect` | the inductive invariant and the type invariant; no run makes a third attempt |
| | `CapacityHolds`, `ProbesAreCounted`, `SuspensionHolds`, `AttemptsOwnEntries`, `OpenIsNotForgotten` | the invariants of section 4 |
| | `StartsOnlyServing`, `OnlyProbesClose`, `BreakerImplemented` | its action properties and `ImplementsBreaker` |
| `QuotaProofs`, exports | `TypeCorrect` | the type invariant |
| | `SlotHeld`, `SpoolsKept`, `CountersNeverDrift` | `HoldsSlot`, `SpoolKept`, `CountersExact` |
| | `WithinLimit`, `QuotaImplementsSlots` | no actor has more exports at work than the limit; `ImplementsSlots` |
| | `RateIsRespected` | `RateRespected` |
| imports | `ImportTypeCorrect` | the type invariant |
| | `ImportLimits` | `ImportLimitsHold`, the sum of bytes included, whatever quotas change to and whoever is erased |
| | `ReceiptsAreExact`, `ImportsAreCurrent` | `ReceiptExact`, `WritesAreCurrent` |
| verifications | `HsaTypeCorrect`, `HsaQuotaIsExact` | the type invariant and `HsaQuotaExact`, with erasures |
| `AgreementProofs` | `AgreementTypeCorrect` | the type invariant |
| | `ContentIsOne`, `RenewalsStayCurrent` | `OneContent`, `RenewalsAreCurrent` |
| | `HistoryAlwaysStands` | `HistoryStands` |
| | `NothingIsLeftOpen` | `NothingLeftOpen` |
| | `AgreementsImplemented` | `ImplementsAgreedContent` |
| `ConnectionTrustProofs` | `TrustTypeCorrect`, `VerifiedIsInForce` | the type invariant and `TrustInForce` |
| `RetentionProofs` | `RetentionTypeCorrect`, `NothingLostUnarchived`, `RunIsWhatWasShown` | the type invariant, `ArchivedFirst`, `RetiresWhatWasShown` |
| `ForensicCaptureProofs` | `ForensicTypeCorrect`, `OneWindowAtATime` | the type invariant; `OneWindow` |
| | `PurgeMissesOnlyOverlaps` | `OnlyMissedStay` |

**Lifecycle, with overlap.** `TokenPinsForm` is inductive with `TypeOK`, given that every
write of a row either leaves the row alone or renews its token with one no form
remembers (`Renewed`; `NewTokenFresh` is where the token supply is used).
`RequirementHasVersions` and `ContentFrozen` need `TypeOK` only.

**Lifecycle, serial.** `LifecycleDates` is not inductive: `CommitTransition` writes what the
snapshot decided. The strengthening is `OneCall` (at most one request is between
its read and its commit) and `SnapshotCurrent` (the row the snapshot names still
has the status and mark it read, and the transition is allowed from there).
`OneAtATime` preserves both: the only step from a state with a request under way
is that request's end. With them `LifecycleDates` is inductive, and it in turn
makes the refinement possible: a transition of a row read in status *s* is a
`PublicationWorkflow` move from *s*, and the predecessor that a publication
archives is the one Published version. Review, links and flag follow from what a
step does to the workflow states together with what it does to texts and links
(`Bookkeeping`): `ReviewIInv` extends `PublishedWasReviewed` to what is under review, and
`LinkIInv` adds that at most one version is in each of the states of a workflow,
so that the version whose end removes the links was the one they depended on.

**AI runs.** `IInv` is the type invariant, the three invariants that speak of the tables,
and what ties the generators to them: `RunsAgree` (what a program counter says
about the entry, unless the entry is gone), `ProbesAgree` (a probe's id is fresh
until used and names at most one breaker), `RowsNameModels` and
`BreakerConsistent` (a closed breaker has room for one more failure). Without
`RunsAgree`, a late `requeueForRetry` could put a lease back in the queue while
the attempt executes; without the freshness in `ProbesAgree`, a probe could
return another probe's lease. The proof has two layers: `NextStore` reduces every
step of the system to one of a few kinds of step of the tables (`StoreStep`), with
the facts the generators contribute; each invariant is then shown preserved by
each kind. `OpenHasWayOut`, the action properties and the refinement follow from
`IInv` and one analysis of the operational state's changes (`AfterRunFacts`,
`AfterProbeFacts`, `ProbedFacts`, `GiveUpFacts`). `CapacityRespected` rests on lemmas about the
cardinality of leases that are added one at a time or removed.

**Exports.** The heart of `IInv` is `Leased`: the age of an export, as its process knows
it, is never below the age of its row, so a watchdog that fires before `Recovery` by
the process's clock fires before the row expires by the database's. `Fenced` adds
that nothing works without a watchdog still to come. `RowsBounded` counts the rows,
and the refinement maps the exports at work to the slots. `RateInv` adds that the
history of starts agrees, age by age, with the rows young enough to be counted: a
row is kept at least one window (`Window <= Lifetime`), whatever became of its
export, and an erasure takes the history with the rows. The sum over the window is
then the number of young rows, which the admission compares with the limit.

**Imports.** `ImportIInv` has one part per counter. `CallsGood`: the counter of the process is
the number of its calls at work. `SessionsWithin`: a transaction counts live sessions
under the lock and remembers the quotas it compared them with (`granted`); none is
added elsewhere, so expiry, purges, erasures and changed quotas keep the comparison.
`BucketsCount`: a bucket equals the history of its window until the window is over,
so a purge takes nothing that is still needed, and an erasure takes the history with
the bucket. `BytesWithin`: the bytes of the live sessions are added under the lock,
and expiry and deletion only take some away. `Unissued`: nothing is known of a token
that was never given out. `ReceiptExact` is inductive with them: a session is executed
once, since executing it and reading that it was executed are under one lock, and a
session that was erased does not come back.

**Verifications.** `HsaIInv` has two parts beside the types. `HsaKept`, for every window:
a bucket has at least the units that requests under way would take back (`Takers`),
and at most its limit. It is what keeps a rollback from taking a unit that the
clean-up or an erasure has already removed, and a window from being counted before
it begins. `HsaCharged`, for the current window: a bucket holds one unit for each
request it has admitted or seen denied later, and one for each that is under way.
Every step of a request `Settles` it: in each bucket the unit of that request, the
counter and the two histories change by the same amount (`OneRequest`). An erasure
takes a bucket with its histories, and because it waits for rows that were written,
there is no unit in it that a request could still take back (`EraseKeeps`).

**Sums.** `Sums` proves what `SumFunctionOnSet` of the community modules computes for every
finite set: the recursive function inside its fold exists and is unique, any
element may be taken out first, functions that differ in one place have sums that
differ as much. An induction theorem with an operator for the induction hypothesis
is of no use to the provers; `SubsetInduction` has a set instead, and is itself proved
by contradiction from a smallest counterexample (`Least`).

**Agreements.** `AgreementIInv` has one part per table and what ties them together.
`Contents`: every row satisfies `RenewalsAreCurrent`; almost every operation changes
rows gently (`Gentle`: nothing is approved, requested or closed, and what is
decided stays decided), which preserves it, and the five deviation steps are
examined one by one. `Phases`: one agreement is pending and one current at most,
and what an agreement follows on has taken effect. `Owners` and `Bindings`: the rows
of a draft come last, are not live and are bound by that draft alone, so that
discarding it takes nothing else away. `Snapshots` and `Midnights`: while an
agreement is due, the follow-up is still that of the midnight at which it became
due, because nothing but its activation can happen; this is where `Settled`, the
guard of every other operation, is needed. `Lives` is `OneContent` row by row.
`HistoryStands` follows from these and one analysis of what a step does to rows. For
the refinement, what a reader sees (`InForce`, `Plan`, `IsBound`) is written as a
function of the tables, so that `Lives` gives it in the states before and after a
step; the activation is then invisible, because before it the due agreement's
content is already what the mapping shows, and the midnight is the visible step.

`NothingLeftOpen` is about what no operation looks at: the rows an agreement no longer
has. `OpenIInv`, beside `AgreementIInv`, has four parts. `PlansFit`: a planned ending
names a pending agreement, and one that does not contain the row. `Followed`: a
pending agreement follows on the current one, or on one that ended; it accounts for
each of its requirements, by a member or a removed one; and whatever row it shares
with an agreement that is or was in force the current one has too, so no edit, undo
or copy can take up content that was left. `ClosingFit`: on what a confirmed
agreement leaves behind, nothing is undecided and what applies is planned to end with
it. `SpentFit`: what was left behind has nothing undecided and nothing that applies.
Every way of rewriting a row has a lemma that says what it does to the plans and that
it opens nothing (`Eased`); the only operations that open something, a request and an
approval, are kept from such rows by `Reserved` and by there being nothing to
approve (`RequestedInForce`, `RowOpen`). Confirmation establishes `ClosingFit`, because
`Followed` makes its list (`LeftBehind`, found through the preceding membership)
complete (`RecheckedReady`); activation turns it into `SpentFit` (`TakeEffectOpen`), and so
does the end of an agreement on its own rows (`EndedOpen`). A day that passes only
takes permissions away (`SpentLater`).

**Trust in a connection.** The argument follows the configuration version: whatever was
read under the version that is current now (by a verification under way, by a
stored attempt, by a verified revision) was read with the secret that is active
now, because changing the secret changes the version. `TrustIInv` adds that an attempt
is spent once and that a verified revision of the current version is backed by
evidence with no failure after it.

**Retention.** An archive that was handed out holds every candidate of the preview it is
of, and never changes (`Complete`, `RetentionIInv`); a run needs such an archive with its
own preview's token, and the token fixes the candidates.

**Forensic capture.** `SlotIInv`: at most one window holds the slot, and an active one holds it.
`PurgeIInv`: a window whose purge has begun has no evidence, or is one of `missed`. Only a
blocked call adds evidence and only the end of a purge marks a window that may have
some (`Grows`); every other step that marks a window empties it, or found it empty.

## 11. Only model-checked, and not modelled

**Only model-checked.** Every invariant and every action property that a passing run
checks is stated by a theorem. What stays with TLC is liveness under fairness, which
is out of reach of the provers: `WaitingIsServed`, `EntriesLeave`, `OpenIsResolved`,
`EveryExportEnds`, `TargetsDrain` and `EvidenceLeaves`. The expected violations are statements about one behaviour,
which TLC exhibits.

**Not modelled in the covered parts.** List and detail queries, taxonomy validation
and batch creation of requirements (a loop of creations); the editing of selection
questions and hierarchies; in connection administration the management
credentials, the model catalogue, prices, the rotation of encryption keys, the
limit of 512 pending attempts and the expiry of evidence; a lowering of
`maximum_concurrency` while leases are held; in agreements the texts of needs
references, corrections of a reference or note, permissions, the deletion of a
specification and the graduation of a local requirement to the library; in
retention the policies for requirement versions and for other records.

**Not modelled at all.** The components marked so in `PROJECT.json`, for two reasons:
pure transformation or I/O (reports, adapters, parsing, user interface, routing),
where the work is in data and not in control; or row-level editing guarded by a
revision token, whose protocol is the one proved for `editRequirement`. Access
reviews and RFI questions are of the second kind, with a workflow of their own that
is still open.

## 12. Plan

Next, in this order:

1. The overlapping lifecycle: which of the serial theorems survive when only some
   of the transactions overlap.
2. Access reviews (one open run, decisions, completion) and RFI questions, the two
   workflows without a module.
