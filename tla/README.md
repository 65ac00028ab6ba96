# A formal model of the zhigou toolchain

TLA+ modules, TLC configurations and TLAPS proofs about the parts of this repository
that decide whether a result is lost, applied twice, published without authority or
reported wrongly: the durable job queue, the fenced publication of its results and the
synchronous path of the service; the reviews, sessions, releases and activations in
which people decide what becomes of a result; and the transactions that bring runs,
builds and deliveries onto a disk. Paths below are relative to the repository
(`src/zhigou_toolchain/` is abbreviated `zt/`).

Contents: 1 the system, 2 the modules, 3 the runs, 4 fairness and assumptions, 5 the
proofs, 6 what the work showed about the code, 7 what is not modelled, 8 the plan.

---

## 1. The system

### 1.1 How a request becomes a published result

A client (HTTP API, SDK, CLI, browser workbench) calls `ApplicationService.execute`
in `zt/services/facade.py`. The operation table classes each operation as READ,
INLINE or JOB.

- **INLINE** writes are answered in the request. There are two, `project.create` and
  `project.lock`. They pass through `IdempotencyStore.execute`, act on the project
  catalog or the workspace, append one record to the chained audit file, and reply.
- **JOB** operations (modelling, delivery, release, activation, business evolution)
  become a row of a SQLite table, `zt/jobs/store.py`. A worker process claims the row
  for a lease, and `execute_fenced` (`zt/services/execution.py`) copies the project's
  workspace, runs the operation in the copy, and publishes the copy as the project's
  new workspace by replacing one file, `service-projects.json`. That file holds the
  new root, the authority revision and the commit receipt of the job, so the three
  change in one atomic step.

Publication holds three locks at once, always in the same order: the metadata lock of
the credential store, the SQLite writer lock of the job table (an open
`BEGIN IMMEDIATE` in `commit_lease`), and the metadata lock of the project catalog.
All that was read before them is read again under them.

### 1.2 Components

| Component | State | Operations | Talks to | Model |
|---|---|---|---|---|
| Job store (`zt/jobs/store.py`) | tables `jobs`, `job_events`, `idempotency_v2` | create, claim (with sweep), renew, commit_lease, complete, fail, recover_committed, requeue_local, cancel | facade, workers | JobStore |
| Job worker (`zt/jobs/worker.py`) | the claimed handle, a heartbeat thread | run_once, run_forever | job store, execute_job | FencedExecution |
| Fenced execution (`zt/services/execution.py`) | staging directories, commit receipts | committed_result, verify_module_generation, execute_fenced | all three locks | FencedExecution |
| Service facade, jobs (`zt/services/facade.py`) | none of its own | execute (JOB), execute_job, recover_job, request_job_recovery, cancel_job, reads of a job | job store, catalog, credentials | FencedExecution (partly) |
| Service facade, synchronous requests | the thread of each request | execute (INLINE) | idempotency, catalog, audit | ServiceBoundary |
| Idempotency table (`zt/services/idempotency.py`) | table `requests` | execute, _finish | facade | ServiceBoundary |
| Audit file (`zt/services/audit.py`) | `audit.jsonl` | append, verify | facade, metadata lock | ServiceBoundary |
| Project catalog (`zt/services/projects.py`) | `service-projects.json`, workspace directories | load, save, create_project, resolution | metadata lock | both (partly) |
| Metadata locks (`zt/services/coordination.py`) | one SQLite file per lock | metadata_lock | everyone | both |
| Credential store (`zt/services/authorization.py`) | tokens | resolve, revoke, expiry | publication | FencedExecution (partly) |
| Uploads (`zt/services/uploads.py`) | blobs, descriptions | receive (hash, blob, description, job), remove on error | facade, job store | Uploads |
| Browser sessions (`zt/api/app.py`, `workbench/src/`) | cookie and CSRF token of a browser, tabs, session table | login, logout, read, write, poll, the 401 handler | facade | BrowserSession |
| Business evolution (`zt/services/business.py`) | candidates, active configuration, its history, executions | propose, execute, regress, review, activate, roll back | fenced execution | BusinessEvolution |
| Modeling sessions (`zt/services/modeling_sessions.py`) | revisions, stage outputs with their states | open, revise, before, after, scope, review, confirm | fenced execution | ModelingSession |
| Review of a proposal (`zt/modeling/control_plane/`) | log of review actions, confirmed packages | prepare, decide, finalize | sessions | ModelingReview |
| Review of a dataset (`zt/modeling/review_log.py`, `confirmation.py`) | log of decisions, package | record, finalize, build, resolve | compilation | DatasetReview |
| Release governance (`zt/lifecycle/release.py`) | candidates, decisions, authorisations | review, revoke, authorise, publish, impact, regression | registry | ReleaseGovernance |
| Environment activation (`zt/lifecycle/environment.py`) | pointer, events, receipts | create, propose, review, activate, roll back | registry | EnvironmentActivation |
| Lifecycle registry (`zt/lifecycle/registry/`) | event files, head, snapshot | append, import, verify | all lifecycle parts | RegistryJournal, AppendLog |
| Activation of publications (`zt/activation/`) | log of decisions, selected publication | propose, activate, roll back, replay | authorities | ActivationHistory, ExactAuthority |
| Governance workspace (`zt/governance/`) | event log, requests, view of the authority | amend, approve, reject, validate | authorities | GovernanceWorkspace |
| Amendments (`zt/amendment/`) | requests, base and re-entered publications | intake, re-entry, completion, republication | dataset review | AmendmentReentry, ExactAuthority |
| Ingestion (`zt/ingestion/`) | plans, runs, blobs, datasets; plugin files and imported modules | plan, execute, commit | plugins, workspace | IngestionPlans, WorkspaceCommit |
| Semantic kernel (`zt/semantic_kernel/`) | attestations, plans, packages | attest, plan, build, reproduce, commit | workspace | SemanticBuild, WorkspaceCommit |
| Live runner (`zt/ontology_io/`) | rows, requests, budget | authorise, run, resume, inventory | model server | LiveRunner |
| Step audit (`zt/services/modeling_audit.py`, `zt/modeling/five_stage/`) | records, trace journal of an attempt | record, call, finish, download | facade | StepAudit |
| Delivery (`zt/services/ontology_traces.py`, `zt/modeling/delivery/`) | traces, reviews, batches, ledger | export, review, deliver, batch | fenced execution | TrajectoryDelivery, BatchExport |
| Workspaces and packs (`zt/workspace/`, `zt/domain_packs/`) | manifest, lock, pack directories | initialise, lock, validate, resolve | everything | WorkspaceSetup, PackClosure |
| GraphDB (`zt/integrations/graphdb.py`, `zt/graphdb/`) | repository, receipts | import, verify | a server others write to | GraphImport |
| Rules (`zt/evaluator.py`, `zt/rule_engine.py`, `zt/application/`) | rules, evidence, authorisation | evaluate, publish, advance | applications | RuleEvaluation |
| Contracts and schemas (`zt/contracts/`, `schemas/`) | none | validate a document | everything | none |

What is left of the components (compilers of one document into another, validators,
presentation) keeps no state that interleavings or failures could disturb. It is named
in section 7 and in PROJECT.json.

### 1.3 What is hard, and what makes each part correct

- **Job store.** Callers hold handles that may be stale: a worker that lost its lease,
  the one that replaced it, a heartbeat thread beside its main thread, clients that
  cancel, operators that retry. *Correct* when only the holder of the current token
  moves a row in execution, a cancelled intent is never executed again, a lease is
  neither revived nor taken over without passing through recovery, and one key names
  one job.
- **Publication.** The result is computed before any lock is taken, so everything may
  have changed by then; the process may die or the disk may fail between any two
  steps, above all between the replacement of the catalog and the row that reports it.
  *Correct* when the published workspace contains exactly the jobs with a receipt,
  each once; when only an authorised, still running job publishes; when no cleanup
  removes what the catalog names; and when the answer a client gets agrees with what
  was published.
- **Synchronous path.** The action takes effect before its outcome is written, and the
  outcome before the audit record; a client that saw no answer repeats the request,
  perhaps while the first thread still runs. *Correct* when a key enters its action
  once, answers never contradict each other or the catalog, and no verdict leaves
  before its record is on file.
- **Audit file.** Read tail, chain, append, from several threads, on a disk that may
  take half a record. *Correct* when the file is one chain up to its first damaged
  line, and nothing follows that line.

- **Uploads.** Two files and a row per request, without a common transaction; equal bytes
  share a blob. *Correct* when what a job will read is there.
- **Browser sessions.** One cookie, many tabs, answers that arrive late. *Correct* when a
  write is carried out for the session the tab shows.
- **Evolution, sessions, reviews, releases, activations.** Long sequences of legal calls by
  several people: decisions are withdrawn, inputs are revised after a decision, a rollback
  returns to something older, the server is restarted under another profile. *Correct*
  when what takes effect was decided by those who had to, about what takes effect, and on
  decisions that still stand.
- **Registry and logs.** Each record is several files. *Correct* when replaying the log
  gives the state, after any death.
- **Workspace commits, setups, closures and authorities.** Directories are read file by file
  and moved one by one, while others edit or move them. *Correct* when what is accepted
  was whole at one moment, and a failure leaves nothing that counts.
- **Ingestion and semantic builds.** A plan binds code and inputs by digest, and is carried
  out later, by a process that may have older code in memory. *Correct* when what a
  result names is what made it.
- **Live runs, audits, deliveries.** Money and samples: a killed supervisor, an answer that
  is lost, a second exporter. *Correct* when nothing is spent or delivered twice and the
  ledger says what happened.
- **Rules.** Versions with validity windows, evidence that expires during the case. *Correct*
  when the version in force and evidence that is still good decide.

`hazards` in PROJECT.json lists the forty most important of these at the line where they
bite, each with the properties that would fail, or the reason why none covers it. Others
we know of, without a property:

| Where | What |
|---|---|
| `zt/services/execution.py:145` | an edit in place between the verification of the base workspace and the publication |
| `zt/services/audit.py:26` | a whole record without its newline passes the tail check, the next is written on the same line |
| `zt/services/projects.py:122` | a death between the directory and the catalog leaves a name that every later creation refuses |
| `zt/lifecycle/registry/import_package.py:81` | two imports of one package: the loser's rollback removes the winner's tree |
| `zt/ingestion/executor.py:135` | the first look for a finished run takes no lock and may meet directories that are being moved |
| `zt/ingestion/executor.py:158` | a blob is verified and then read again |
| `zt/activation/authority_binding.py:474` | a tree that is replaced and put back between two readings |
| `zt/amendment/republication.py:91` | the base data is whatever the caller passes, and never compared with the base publication |
| `zt/amendment/intake.py:164` | a re-entry completed twice: the guard's ledger is in memory and not consulted |
| `zt/integrations/graphdb.py:92` | after a lost creation or import every later execution of the plan fails, also when the package is there |
| `zt/modeling/delivery/exchange_io.py:18` | the lock file of a killed process refuses every later write of that output |
| `zt/rule_engine.py:136` | a version ends at 23:59:59 and its successor begins at 00:00:00: nothing is in force in between |
| `zt/rule_engine.py:377` | of several usable pieces of evidence the one with the least IRI decides, not the latest |

---

## 2. The modules

Each module models one component over its own variables. The modules that do not share
state are checked side by side in a *harness* (`MCLifecycle`, `MCModeling`,
`MCWorkspace`, `MCBuild`, `MCIngestion`, `MCJobStore`): it extends the ones that theorems
are about, so that the run checks the very properties the theorems state, instantiates the
others, some twice with different bounds, and a variable `part` chosen in the initial
state says which one a behaviour exercises; the others stay at their initial states. Parts
share no variable, so interleaving two would show nothing new, and the states add up
instead of multiplying. The constant `Parts` of a `.cfg` names the parts to exercise; with
a single one TLC checks a single module. Modules that one harness extends name their
variables, initial states and steps apart (`RInit`, `DNext`, `avars`). Where a component
promises several things about one subject, a property joins them, each conjunct a property
of the component's module.

Composition in the other sense, components that do share state, is in `FencedExecution`
(workers, job store, catalog, credentials), in `WorkspaceCommit` (ingestion and builds
in one workspace) and in `TrajectoryDelivery` (jobs on private copies). All operations of
BusinessEvolution, ModelingSession, ModelingReview, ReleaseGovernance and
EnvironmentActivation run as JOBs in a private copy that `FencedExecution` shows to be
published as a whole and in a single line of generations; that is why each of them is
one step there.

### JobStore

`jobs` is the table (one record per row: status, attempt, token, owner, lease,
created, scope), `cancelled` the set of jobs with a cancel event, `idem` the
idempotency index. Each method of `JobStore` is one `BEGIN IMMEDIATE` transaction and
so one action: `CreateNew`, `Claim` (which sweeps expired leases first, then takes the
oldest queued job), `Sweep` (a claim that finds nothing to take), `Renew`, `Finish`
(complete and fail), `RecoverCommitted`, `RequeueLocal`, `Cancel`, and the clock
`Tick`. A call that raises changes no table and is not a step. `commit_lease` changes
no row; its test is `LeaseOK`, and the lock it keeps is part of FencedExecution.

The lease is stored relative to the clock, in ticks from `LeaseTicks` to -1. The sweep
compares with `<` and everything else with `>`, so the instant `lease = 0` belongs to
neither side, as in the code.

`JNext` lets callers present *any* worker name, token and attempt. What holds of it
holds whatever the callers do.

### FencedExecution

Extends JobStore with the worker processes and everything they touch. `wk[w]` is the
program counter and the local variables of one process, `catalog` the catalog file,
`trees` the workspace directories, `cred` the credentials, `lock` the holder of each
of the three locks, `op` and `creator` the two clients whose requests take more than
one step. A workspace is abstracted to the set of jobs applied in it and the edits
made behind the service's back; its digest is the tree itself, so two trees with equal
digests are equal.

| Program counter | Code | Action that leaves it |
|---|---|---|
| `idle` | `run_once`, before `claim` | `ClaimNext`, `Poll` |
| `claimed` | `claim`, after its transaction | `Reread` |
| `begin` | `execute_job`'s admission | `Begin` |
| `replay` | `execute_fenced`: a receipt already there? | `Replay` |
| `snapshot` | `verify_module_generation`, read root and revision | `Snapshot` |
| `compute` | copy, run the operation | `Compute`, `ComputeFails` |
| `commit` | wait for the credential lock | `LockCredential` |
| `credential` | `commit_lease` | `CommitLease` |
| `lease` | project lock, all checks again | `VerifyAuthority` |
| `save` | `save_catalog` | `SaveCatalog`, `SaveFails` |
| `cleanup` | `finally` | `Cleanup` |
| `complete`, `except`, `recover`, `fail` | the exits of `run_once` | actions of the same names |

`Heartbeat`, `LockTimeout` and `Crash` may happen at any of them. `SaveFails` and the
part of `SaveCatalog` that goes to `cleanup` are the two halves of a `save_catalog`
that raises: with the old file in place, or after the new one took effect (its
directory `fsync` failed).

### Authority and FencedRefinement

`Authority` is what durable execution promises a client, without workers, leases,
tokens, attempts or directories: each job is applied at most once, in one step that
moves the revision by one, only while it is open; "succeeded" only for a job that was
applied, "failed" only for one that was not and then never will be. `FencedRefinement`
maps the composed system to it. `applied` is read off the published trees, not off the
receipts: a result that is in no published tree was not applied.

### ServiceBoundary

The INLINE branch of `execute` around `project.create`: one server thread per call,
with steps for the intent row, the founding of the project under the catalog lock, the
outcome row, the audit record and the reply. `requests` is the idempotency table,
`projects` and `dirs` the catalog and the directories (they disagree after a creation
that failed half way), `log` and `cut` the audit file and whether its last record lacks
its newline. `entered` and `founder` are history variables: how often a key entered its
action, and who founded a name. A `Garbled` line is what a short write or a record
joined to an unterminated line leaves.

### BusinessEvolution

`zt/services/business.py`: `plans`, `executions`, `orders`, `candidates`, the `active`
configuration and the `history` that led to it. `Plan`, `Execute`, `Propose`,
`Evaluate` (regression), `Review`, `Activate`, `Rollback`; `Reconfigure` restarts the
server under another review profile. A candidate's base is compared by content, as in
the code, so a rollback to an equal configuration revives candidates (the instance
`History` reaches it). The code's check that an evolution "preserves decisions" cannot
fail and is not a guard here.

### ModelingSession and ModelingReview

`ModelingSession` is the document `registry/modeling-session.json`: its frozen inputs
and configuration, the outputs of five stages, each current or stale, the revision, and
`before` and `after` around every operation (`zt/services/modeling_sessions.py`). Only
strict sessions are modelled. `ModelingReview` is the log of review actions on a
proposal, the replay that takes each reviewer's last word, the quorum of roles by scope
and profile, and the closure of a confirmed package under dependencies. REUSE_EXISTING
and MARK_DUPLICATE are left out: the request model refuses them
(`zt/services/requests.py:191`).

### DatasetReview and AmendmentReentry

`DatasetReview`: decisions on entities, assertions and issues, their order, the package
that is derived from them and how references are resolved when it is compiled.
`AmendmentReentry`: requests of every type against a base publication, the proposal they
are turned into, the human decisions on it and the publication; a field is a source
pointer, a candidate a field with its value.

### ReleaseGovernance, RegistryJournal with AppendLog, EnvironmentActivation

`ReleaseGovernance`: packages and consumers are registered, changes are regressed and
evaluated, candidates reviewed and published, while credentials are revoked and the
profile changes. `RegistryJournal` looks inside one append: the event file, the head,
the snapshot and an imported package's tree are separate writes by processes that may be
killed between any two; `AppendLog` is what it implements, a log that only grows.
`EnvironmentActivation`: proposals, reviews, the pointer with its generation, events and
receipts, with interruptions between the three writes of a move.

The service runs all of these in JOBs (the lifecycle command line is a wrapper of the
service, `zt/lifecycle/cli.py`), where the private copy hides a half-done write; the
crashes and races of `RegistryJournal` and the interruptions of `EnvironmentActivation`
are therefore statements about the library, as its tests use it.

### ActivationHistory, GovernanceWorkspace, ExactAuthority

The historical controllers of published authorities. They are read-only in today's
service (`docs/migration/history-and-current-boundaries.md`) and live on in
`scripts/*_controlled_fixture.py` and the tests. `ActivationHistory`: the log of
activations and the replay that accepts it. `GovernanceWorkspace`: proposals about a diagnostic,
decisions, amendment requests, and a validator that reads the log again; one caller at a time, the authority
is loaded again at every validation. `ExactAuthority`: an authority is reconstructed from
five or six directory trees (`Levels`: what an amendment is bound to, and what an activation
is), loader inside loader, each hashing before and after it reads, while trees are replaced.
`Program` is the order of those readings; a replaced tree never comes back.

### Uploads, WorkspaceCommit, WorkspaceSetup, PackClosure

`Uploads`: receiving parts, the blob and its description, the job, and the clean-up on an
exception, with deaths and errors. `WorkspaceCommit`: the lock file, the staged
directories and the four moves of an ingestion run and of a semantic build, their undoing,
and the verification of what is found. `WorkspaceSetup`: a workspace is built beside its
place and renamed into it, locked, validated, edited. `PackClosure`: the depth-first
resolution of a project's packs over a directory that is edited meanwhile, one file read
per step.

### IngestionPlans, SemanticBuild, RuleEvaluation, GraphImport

`IngestionPlans`: sources and blobs, plans that bind a snapshot of each chosen plugin,
runs that check the snapshots on disk and call the code the process has imported. A
provider's code is the number of its last edit. `SemanticBuild`: copies of an authority
in several files, the resolver's choice among them, attestation, plan, build and
reproduction. `RuleEvaluation`: rule versions with validity windows, evidence that
expires, the assessment, its publication and the process step that depends on it, in
integer time. `GraphImport`: the requests of a deployment to a server that loses answers
and that others write to.

### StepAudit, LiveRunner, TrajectoryDelivery, BatchExport, BrowserSession

`StepAudit`: the record files and the trace journal of a job attempt, nested calls, and
failures of the audit itself. `LiveRunner`: the rows of a live run, reserved and settled
requests, the budget, phases, and supervisors that are killed. `TrajectoryDelivery`: runs
and reviews delivered in batches by jobs on private copies. `BatchExport`: two exporters
on one ledger, each killed anywhere. `BrowserSession`: a browser with several tabs, one
cookie, and answers that arrive late; session value and CSRF token of a session are one
name.

### Supporting modules

The MC modules give constants their values, define symmetry and combine parts. The
modules named `...Proofs` hold the theorems. Definitions commented "Fault:" are plausible
bugs of the code (a dropped guard, a swapped order). No specification uses them; each
property is checked to fail when one of them replaces the definition it varies.

---

## 3. The runs

| Run | Instance | States | Shows |
|---|---|---|---|
| `job_store` | 2 jobs, 2 workers, 2 scopes (one legacy), leases of 2 ticks, 2 requeues, one of the jobs writes session state, 1 edit in place; `store`: the table alone; `module`: a process carries out the jobs, of which none is granted a second token (`MaxGranted`) or has a key | 1,625,000 | The table under any callers: cancellation is final, leases are not taken over. An edit behind the service's back never enters a later receipt. |
| `fenced_retry` | 1 job, 2 projects, 2 processes sharing one worker id, leases of 2 ticks, 1 requeue; symmetry | 121,000 | One job through lost leases, crashes, retry, cancellation, revocation and a `create_project` that rewrites the same catalog: published at most once, by the current holder, reported truthfully. The composed system implements `Authority`. |
| `fenced_two_jobs` | 2 jobs of one project, 2 processes, leases of 1 tick; symmetry | 803,298 | The race for the authority revision loses neither result. |
| `fenced_liveness` | 1 job, 2 processes, leases of 1 tick, 1 requeue; `PolledSpec`, no symmetry | 63,845 | Executions end, locks are released, and a published result is reported in the end. |
| `fenced_old_worker` | as `fenced_retry`, `PromptClaim = FALSE` | violation | An old worker publishes under its replacement's token (section 6). |
| `service_boundary` | 3 calls, 1 key, 1 name, 2 packs; symmetry | 638,259 | Calls that repeat, contradict or lack a key, with deaths, timeouts and a full disk: answers agree, are true, and are on record. |
| `lifecycle` | 8 parts, below | 543,000 | What is released, registered, activated or amended stands on current consent; every log replays to what was done. |
| `modeling` | 6 parts | 952,000 | What is confirmed, activated or published was decided by people about what it is. |
| `workspace` | 8 parts | 740,847 | What is set up, resolved, committed, uploaded or reconstructed is whole, and stays. |
| `build` | 8 parts | 1,746,000 | Packages are made of what was attested; nothing is paid or delivered twice; the ledgers say so. |
| `ingestion` | 7 parts | 711,000 | What is carried out is what was planned, by whom it was asked, of what was there. |
| `ingestion_cached` | part `plans`, 1 process, `LongLived = TRUE` | violation | A worker that lives on carries out a plan with code it imported before an upgrade (section 6). |

### 3.1 The parts

| Run | Part | Module | Bounds |
|---|---|---|---|
| lifecycle | review | ReleaseGovernance | 1 package, 3 credentials of 2 people, both profiles, 3 review actions, 1 plan |
| | succession | ReleaseGovernance | 2 packages, 1 consumer, 1 reviewer, 2 actions, 2 plans |
| | together, alone | RegistryJournal | 2 processes, 2 items, 3 events, 1 fault; 1 process, 3 items, 4 events, 2 faults |
| | activation, interrupted | EnvironmentActivation | 2 releases, 2 reviewers, 3 generations without and 2 with an interruption |
| | history | ActivationHistory | 2 candidates, 9 events |
| | governance | GovernanceWorkspace | 2 users, 7 events, 3 changes of the authority |
| modeling | orders, history | BusinessEvolution | 2 packages, 2 objects, 2 people, history of 2; 1 package, history of 4 |
| | session | ModelingSession | 2 configurations, 2 selections, revision up to 13, 2 review actions |
| | review | ModelingReview | 2 queues: a candidate of two roles; 2 dependent candidates with a conflict; 3 reviewers, of whom one has one role, 4 actions, all profiles |
| | dataset | DatasetReview | 5 candidates, 2 issues |
| | reentry | AmendmentReentry | 2 fields, 2 values, requests of every type, confirmed, refused, put off or modified, 3 publications |
| workspace | setup | WorkspaceSetup | 2 setups, 2 other commands, 2 edits, 1 death |
| | closure, edited | PackClosure | all needs of 4 packs (one in 2 versions) with one flaw or none; few of them, 2 edits |
| | ingestion, versions | WorkspaceCommit | 3 processes, a run and a build, 2 faults; 2 builds of one version, 1 fault |
| | served, broken | Uploads | 3 requests; 2 requests, 1 death, 1 error |
| | authority | ExactAuthority | 2 replaced trees, both programs (5 and 6 trees) |
| build | build, fixture | SemanticBuild | 2 builders, 2 authorities, 2 edits, 3 plans; where the tests put them, 1 edit, 2 plans |
| | audit | StepAudit | 2 attempts, 3 calls, 1 fault or none, with a transcript |
| | budget, revisions, untouched | LiveRunner | 4 rows in 3 phases, 2 deaths; 2 revisions, 1 death; no death |
| | delivery | TrajectoryDelivery | 2 runs, 1 review, 2 batches, 2 workers, 2 exports |
| | exports | BatchExport | 2 exporters, 2 items, 3 directories, 1 killed or none |
| ingestion | plans, batch, worker | IngestionPlans | 2 processes, 5 providers, 1 edit, 1 fault; one blob under two media types; long-lived processes and no edit |
| | tabs, alone | BrowserSession | 2 tabs, 2 sessions; 1 tab with 2 requests, 3 sessions |
| | graph | GraphImport | 2 executions, 2 turns of others |
| | rules | RuleEvaluation | 4 catalogs (sound, touching, with a gap, turned round), 5 pieces of evidence, times 0..4 |

Why these bounds are enough to be interesting:

- Two processes and one requeue are the least with which a worker is replaced while it
  still runs, and both may then reach any pair of program counters. Sharing one worker
  id is the harder case (it is also the default of `--worker-id`): only the token then
  tells the two apart. A lease of two ticks lets a heartbeat renew a lease that is partly
  used, and lets the instant between `<` and `>` happen.
- Two jobs of one project are the least for a lost update of the revision; a job and a
  second project are the least for a lost update of the file.
- Three calls are the least with which one call holds a key, a second repeats it and a
  third, without the key, founds the same name in between.
- In `review`, three actions are an approval, a second person's, and a withdrawal or a
  revocation between the quorum and the publication; in `succession` two packages are the
  least with a successor and a base.
- A registry needs one event that is orphaned, one that follows it and one that heals the
  head; a history needs four entries to roll back behind a rollback.
- A session of revision 13 can be carried through all five stages (nine revisions) and be
  invalidated on the way.
- Three processes on one lock are a holder, one that finds the lock left by a death, and
  one that finds the commit made. Two replaced trees are the least that change one before
  and one after it is read.
- One row of each of three phases, and one that does not apply, are the least in which a
  phase waits for the one before it; the budget pays for less than all of them.
- Two tabs with one cookie are the least in which one tab's login changes what the
  other's write is carried out under.
- Every version pair in the four catalogs lets one time be covered by none, one or two
  versions.

Counters are bounded only by the named bounds (`MaxRetries`, `MaxActions`, `MaxEdits`,
`MaxFaults`, ...), each in a guard.

Runs with `CHECK_DEADLOCK FALSE` have instances that come to an end: every call has been
answered, every bound is used up. `job_store` and the `fenced` runs check deadlock.

Each property of a passing run has in PROJECT.json a mutant of a mapped definition that
violates it under the same configuration.

---

## 4. Fairness and assumptions

**Fairness** (`FairSpec`). Weak fairness of:

- each worker process. `run_forever` (`zt/jobs/worker.py:64-68`) polls at least every
  second, and a process that died is started again;
- the steps between claim and the end of `run_once`. An operation returns or raises,
  and a wait for a lock ends with the lock or with SQLite's timeout (5 s for the job
  table, 30 s for a metadata lock);
- the clock, and clients finishing a request they began.

Nothing is assumed of submissions, cancellations, revocations, crashes, heartbeats, or
an operator's decision to retry. `PolledSpec` adds that a client keeps reading its job;
without it `CommitIsReported` does not hold, since after a crash nothing but a read (or
a retry) consults the receipt.

**Environment.** The clock does not go backwards. `os.replace` is atomic.
SQLite gives one writer at a time and drops a dead process's locks. Equal digests mean
equal contents. Staging directories never collide: `mkdtemp` picks fresh names, modelled
by project, job, attempt and process.

**PromptClaim.** `JobStore.claim` commits its transaction and then reads the row again
without the lock (`zt/jobs/store.py:118`). With `PromptClaim = TRUE` a process is never
suspended there for a whole lease. Theorems and runs make the assumption where they must
(the last row fails on the instance of `fenced_retry`):

| Property | without PromptClaim |
|---|---|
| `GenerationsKept`, `SuccessIsCommitted`, `PublishOnlyAuthorised`, `LockOrder`, `ImplementsJobStore` | hold (proved without it) |
| `NoLaundering` | proved and checked with it |
| `OldWorkerFenced`, `AuthorityMatchesReceipts`, `FailureIsUncommitted`, `PublishAtomic` | fail |

**Other environments.** The modules beside FencedExecution assume no fairness: their
properties are safety properties, for the code promises nothing there about what
eventually happens (a lock file left by a dead process, for example, is never removed). A
file is read and written as a whole, and a rename either happens or does not; directories
are read and moved file by file. In IngestionPlans and SemanticBuild an edited file never
gets an earlier content back, in ExactAuthority and PackClosure neither. Deaths are bounded
by `MaxDeaths` and `MaxFaults` and may come at any step.

**Constants.** The named assumptions of the modules say that the model values are distinct
where the code's are, that functions between constants have their types, and that bounds
are naturals. TLC evaluates them in every run that extends the module, and the proofs use
nothing else about the constants.

---

## 5. The proofs

TLAPS checks every theorem for all values of the constants.

**JobStoreProofs.** The inductive invariant is
`JInv == JTypeOK /\ OwnerIffRunning /\ CancelIsFinal /\ IdempotencyAgrees /\ AbsentIsBlank`.
Only one conjunct is not itself a property worth reading: `AbsentIsBlank` (a job not yet
created has a blank row), needed because creation writes only part of what a later claim
reads. The four action properties (`FencingMonotone`, `NoDirectTakeover`,
`NoLeaseRevival`, `TerminalIsFinal`) follow from it step by step: `OwnerIffRunning` is
what makes a takeover impossible, since a claim only takes rows without an owner.

**FencedExecutionProofs.** The inductive invariant adds to `TypeOK` and `JInv`:

- `LocksMatch`: a lock is held exactly by the one whose program counter says so;
- `RequestsKnown`: whoever is in the middle of something works on a job that exists;
- `StillTrue`: what was checked under the locks stays true until they are released. The
  job is still RUNNING from `commit_lease` on, because every transaction of the store
  waits for the lock the publisher holds; the catalog read is still the catalog; the
  credential is still not revoked. This is why the optimistic computation is sound, and
  `PublishOnlyAuthorised` is one step from it;
- `RootsNamed`: every root the catalog names exists and was staged by an attempt of its
  own job, so that the cleanup of another job's attempt cannot remove it;
- `Counted`: tokens and attempts stay within the requeues made, which is what maps a
  call with a stale handle to one of the calls `JNext` admits.

It gives `LockOrder`, `GenerationsKept`, `SuccessIsCommitted`, `PublishOnlyAuthorised`
and `ImplementsJobStore`: every step of the composed system is a step of the job store
or leaves it alone, so all the theorems about the store hold of it too.

The other properties need `PromptClaim` and three more invariants, each inductive on top
of the one before:

- `TokensHeld` (with `PromptClaim`): a process holds the token its own claim granted, no
  two hold the same one of a job (`Alone`), and between claim and its second read the row
  still carries the lease that the claim gave it (`Fresh`). `OldWorkersAreFenced` is one
  step from it. With `Unpublished` (an execution that found no receipt finds none as long
  as its token is the current one) it gives `FailedMeansUncommitted`: the process that
  writes a receipt and the one that reports a failure would hold the same token;
- `DiskInv` (for all environments): an attempt number is used once, so a staging directory
  is never one the catalog names (`AttemptsGrow`); it holds the copied tree and the one
  job applied to it (`StagedTrees`); and what was copied is what is being replaced, up to
  edits in place (`BaseHeld`). From both, published trees are the receipts
  (`ReceiptsTellTheTruth`), and a publication adds one job (`PublicationsAreAtomic`);
- `ModuleInv`: receipts of a project are about different revisions, and whoever computes
  on session state has found a receipt for exactly the tree it read (`Vouchers`).
  `NothingIsLaundered` compares two receipts that may be any number of publications
  apart; a new receipt is compared with its voucher, and the voucher with all before it.

`AuthorityIsImplemented` maps each step of the composition to `Authority`: the founding
of a project, a publication, and the changes of a row that change its answer are steps of
the authority, all others stutter. The answer of a job is a function of its row and its
receipt, so the proof goes through the changes of status of `StoreNext`, with
`FailureIsUncommitted` to show that a failed job had not been applied.

**ServiceBoundaryProofs.** `BInv` has three groups beside the types:

- `Keyed`: the row of a key and the calls in progress under it. At most one call owns a
  row (`OneBusy`), the row then carries that call's body and RECOVERY_REQUIRED
  (`BusyRow`), and a call that ended with a verdict agrees with the row
  (`RowIsAnswer`). From these follow `EnteredOnce` and `AnswersAgree`, which mention
  neither table nor threads in progress and are not inductive;
- `Founding`: what can still become of a founded project's key. `FounderKnown` says that
  the founding call cannot end in FAILED, and that the row of its key can only be
  RECOVERY_REQUIRED or SUCCEEDED. `AnswersAreTrue` needs this because a later repetition
  is answered from the row, long after the founder died;
- `Auditing`: the holder of the audit lock extends the tail it read, and only an
  undamaged one (`TailRead`). It gives `AuditChain`, and with `Recorded`
  `AuditedBeforeReply`.

**LifecycleProofs.** For releases, `IInv == Typed /\ SeenIsCurrent /\ ReleasedByQuorum`. The code
counts a quorum over the last word of each person (a maximum over positions of the log),
after a log that only grows; `ReleasedByQuorum` keeps for each release the log it was
published from, and `SeenIsCurrent` says that what was read before the publication is
still the head when it happens. `QuorumStands`, `CountedApprovalsAreLive`,
`ProfileIsEnforced`, `ConsumersAreCovered` and `PublishedAsSeen` follow.

For the governance workspace, `WInv` adds `Standing`: until an operation has written, its
user has read the whole log, since another's operation cannot come in between and their own
writes are what they then have read. The work is in what the validator computes from a log:
what precedes a place is not changed by what is appended (`PastIsKept`), counts grow by what
is appended (`CountOfAppended`), so a valid log with a legal event is valid (`ValidCreated`)
and an approval stays valid with its request (`ValidApproved`), which are two events
of which the first alone would not be accepted. `WorkspaceStaysValid` puts the operations
together, those that end with an error included.

**ModelingProofs.** For the evolution of a configuration, `IInv == Typed /\ TypeOK /\ Booked /\ Examined /\ Chained`.
`Booked`: the sets of orders that the executions created are disjoint and make up the
orders, which is why a plan carried out twice creates nothing twice. `Examined`: a
candidate that is validated or approved passes its regression. `Chained`: the history
accounts for every configuration that was ever active. From them `OrdersAreAsPlanned`,
`OrdersNotRewritten`, `HistoryIsChain` and `ActivationIsReviewed`.

For the control plane's review, `RInv` says of every package that it is `WellReviewed` by
the log up to its `head`. The code replays the log into the latest action of each reviewer
on each candidate; `LastWord` says that this is the last terminal action before the head,
and `AcceptedIsBacked` turns the code's counting (as many actions as the rule wants, by
reviewers of whom each entered one role) into an injection of roles into supporters.
A later action changes no prefix (`AppendKeeps`), so a package stays well reviewed.

For datasets, `DInv` relates the decisions to what was finalized from them: a decision is
refused once the review is completed, so what a package was built from stands
(`RulingsStand`).

For re-entered amendments, `AInv` follows one amendment from request to publication:
`UnderWay` ties the intake to its request and base, `Represented` says that the proposal is
what the revised data propose and contains a match of what was asked, and `Sound` is what is
true of a publication from its first day, which later publications do not change.

**WorkspaceProofs.** For setups, `IInv == TypeOK /\ DoneIsThere /\ StagingIsOwned /\ ValidIsFrozen /\ Parsed`.
A lock binds both the manifest's file and what was parsed from it; `Parsed` says that a
command that has parsed a manifest holds one that was there, so that a lock it writes is
either right or refused by the validation.

For the reconstruction of authorities (`AuthoritiesAreExact`) the invariant is conditional: at
each step of the program, *if* every tree still agrees with what it is going to be compared
with, *then* what has been verified so far is one lineage, and that lineage was on the trees at
one moment since the reconstruction began. A replaced tree gets a revision it never had, so an
agreement that was lost never returns, and a tree that is compared need not be looked at
between. At the last step nothing remains to be compared, and the condition is gone. Where in
the program the next comparison of a tree is follows from lemmas about concatenated programs,
so that the argument goes by the parts of the program (`Phase03`, `Validated`, ...) and not
step by step.

For closures (`AcceptedPacksAreClosed`), `PInv` describes the depth-first walk: the stack is a
path in which each pack is the first need of the one below it that was not yet visited
(`Stacked`); what is resolved but no longer on the stack has all its needs resolved, with the
content they name (`Kept`), in a set that is closed under needs and does not contain it
(`Ordered`), which is why nothing reaches itself; all that is resolved is reached from the
roots (`Reached`), and one version is chosen of an id (`Chosen`). Reachability is the least
closed set, so both inclusions of `ClosureIsExact` exhibit a closed set. As long as nobody
edits, what was read is what is on disk (`Faithful`), and each refusal names something that
contradicts `Sound` (`Deserved`): that gives the other half of `VerdictIsExact`.

`UInv`, for uploads: the request that holds the lock is the only one inside, and while
nothing but refusals went wrong (`Accounted`) every blob has a job or was put in place by
that request, which no job names yet; so what a refusal removes is nobody else's. A blob
without a description, of no request at work, stays (`LeftBehind`): whoever comes later finds
the blob and describes only what it put there itself (`UploadsAreAccountedFor`).

`CInv`, for commits: while a process moves, its lock keeps all others of its kind from moving,
and the directories of its work are the first ones, as many as it has moved (`Owned`); a work
that is there in part belongs to a process that moves or died; what is final, because it was
made or its process died over it, is not empty, so nobody begins to move it (`KeptWhole`); and
what is being moved clashes with no package (`Unrivalled`), which carries one package per
version from the check over the moves (`CommitsStayWhole`).

**IngestionProofs.** A plan has one code per provider, and (for processes that end with
their command, `~LongLived`) a process imports only for the run it is in, after the
snapshots were compared: so what it calls is what the plan names. `OneRunPerPlan`,
`ReadWhole` and `RegisteredIsStored` need no assumption on processes
(`IngestionsAreWhole`).

`GInv`, for deployments: at most one execution has created the repository and at most one
imports into it (`Creators`, `Importers`), and an execution that has seen its triples back
is past the import, which no other can have followed. `DeploymentsAreExact` needs the order
of the calls and nothing about what others write.

`EligibilityIsProved` is inductive as it stands; the work is in the lemmas about the
evaluator's operators: of the versions of a rule that are in force the evaluator takes one
only where there is no other (`OneInForce`, `NeverMultiple`), and an outcome, the summary
and the reasons say what the evidence was (`OutcomeSays`, `SummarySays`, `ReasonsSay`).

`BInv`, for browser sessions: whoever names a session names a row that exists (`Known`), a
row is never removed and a session that is over never good again (`RowsStay`), and a
write that has passed the middleware carries the token of its cookie (`Underway`). For a
browser with one tab `LoginInv` says, by where the one login stands, which session may
still be good. `WritesStayOfTheTab` excludes what the run excludes: one tab that logs out
while its own login is under way.

**BuildProofs.** A copy that was changed stays changed, so a task that was attested
read copies that all hash to their identity (`Truthful`), and what is built from it is
what was attested: `BuiltAsAttested`, `OnePackagePerPlan`. Where every authority sorts
before its copies, the smallest path is the authority's own; then all plans are the one of
the authorities (`PlansAtHome`) and, while nobody edits, what a plan or a package was made
of is found again (`FixtureIsReproducible`).

`XInv`, for the export of batches: whoever is in the ledger's transaction is the exporter
that writes, what it exports is deliverable and its directory is empty until it is renamed
(`Exporting`); and unless somebody was killed, a directory is accounted for by the ledger or
is the one being exported (`Directories`). Deliverable items are in no accounted directory,
so an item is in one (`OneDirectory`).

`AuditInv`, for the steps of a job, says what each attempt has written (`Whole`) and that there
is one commit (`Shared`: once there is one, no attempt that may still commit is running). While
no write failed, `Clean` relates the stack of open calls, the events and the records: every
event BEFORE has its AFTER or its call is on the stack, in the order of the events; an AFTER
comes after those of all calls begun inside; and each tool call has one record, whose status is
that of its AFTER. Two lemmas, a call begins (`PushClean`) and the innermost ends (`PopClean`),
carry the proof; a commit finds only the operation itself on the stack, so the records it
freezes are complete (`ListedCount`). `Spoken` holds whatever fails: an event that names
the outcome is written after the operation returned, when the commit is there for good or,
since the attempt is over, never will be its own (`AuditsTellTheEnd`).

`DInv`, for deliveries, says of each committed export that all its keys in the ledger name
it, which is why two exports that share a run, a review or a name are the same
(`RunsAreDeliveredOnce`). A worker's copy is made of one revision, and as long as that is the
committed one (`CopyIsOf`) its ledger and reviews extend what is committed (`Current`); a copy
of an older revision may hold anything, and is not published.

**Only model-checked.** The liveness properties `ExecutionEndsAndReleases` and
`CommitIsReported` (fairness and ENABLED are beyond this prover). The properties of
RegistryJournal, EnvironmentActivation, ActivationHistory, ModelingSession and LiveRunner:
nothing here is beyond the prover, they are the
next to be proved (section 8). The recursive resolution of `PackClosure` is
modelled as steps with a stack, so nothing here needs a RECURSIVE operator; what would need
induction over data (that a replay of *every* log gives the state it was written from) is
checked on bounded logs.

---

## 6. What the work showed about the code

Two runs keep a counterexample at hand.

**An old worker can pass a newer fencing token** (run `fenced_old_worker`).
`docs/architecture/toolchain.md:89` promises that it cannot. `claim` stores the token it
grants in a local variable, commits, and returns `self.get(job_id)`
(`zt/jobs/store.py:118`), a second read. If the process is suspended between the two for
longer than its lease, and meanwhile the lease is swept, an operator retries and another
process with the same worker id claims the job, then the handle of the first carries the
token of the second. Both then pass `commit_lease`. One result is published twice, or
published and reported as failed. Building the handle inside the transaction would
remove the window.

**A worker carries out a plan with code it imported before an upgrade** (run
`ingestion_cached`). `verify_snapshot` hashes the implementation files on disk and `load`
returns the class of the module the process has imported (`zt/plugins/registry.py:71`). A
worker lives on between jobs, so after an upgrade in place a plan made with the new
snapshot is carried out by the old code, and its run and dataset name the new one.
`docs/adr/ADR-0003-plugin-driven-evidence-bound-ingestion.md:19` says the snapshot binds
declared code.

### Statements TLC refutes

These statements are in the modules and in the repository's words, and the code does not
keep them. To see a counterexample, name the property in the harness's `.cfg` through the
part's instance, or give the module a `.cfg` with the instance in the last column.

| Property | What the code does | Statement | Instance |
|---|---|---|---|
| `RegistryJournal.OneContentPerVersion` | `lifecycle/registry/import_package.py:68` looks for conflicts in the snapshot, outside the lock; after a death between head and snapshot a second package of the version is registered | `docs/lifecycle/package-import-and-compatibility.md:4`: checks complete before a record is committed | 1 process, 2 packages of one version, 3 events, 1 fault |
| `ReleaseGovernance.SuccessorsAreEvaluated` | initial or successor is decided when a candidate is made and never asked again (`services/lifecycle.py:242`): two candidates made before the first release are both initial | comment at `services/lifecycle.py:240` | part succession |
| `EnvironmentActivation.NoOverwrite` | `lifecycle/environment.py:42` creates an environment without looking for one: the pointer to the active release is lost | `docs/lifecycle/activation-and-rollback.md:4` | part activation with `MaxCreations` 2 |
| `ModelingReview.ProductionNotWeakened` | the policy is the one of the preparation (`services/modeling.py:154`); a queue made under DEVELOPMENT is finalized after a restart with PRODUCTION | `docs/modeling/human-review-workflow.md:7` | part review |
| `ModelingSession.ApprovalHasItsScope` | scope and approval share stage 1: a second decision makes its own scope stale (`services/modeling_sessions.py:163`) | `docs/upgrade/module-contracts.md:22`: downstream references are marked | 1 of everything, revision 8, 1 action |
| `ModelingSession.OpenedAsAsked` | a session is found by what it was opened with, and stays on what it was revised to (`services/modeling_sessions.py:73`) | `docs/upgrade/module-contracts.md:20` | 2 configurations |
| `BusinessEvolution.IndependentInProduction` | activation does not ask again whether the author may approve under today's profile (`services/business.py:182`) | `docs/upgrade/module-contracts.md:63` | both profiles, 1 package, history of 4 |
| `Uploads.AcceptedIsReadable` | an exception after the job was committed deletes its blob (`services/uploads.py:70`) | `services/uploads.py:57`: a disconnect never cancels an accepted job | 2 requests, 1 error |
| `DatasetReview.CompiledIsReviewed` | two resolutions of one candidate are refused only in one order (`compilation/candidate_resolution.py:44`) | the error at line 42 | part dataset |
| `DatasetReview.FactsAreApart` | duplicates are looked for under the identifier an assertion was written with (`modeling/confirmation.py:391`) | line 397 | part dataset |
| `DatasetReview.RejectionIsGrounded` | a blocking issue is rejected without grounds (`modeling/review_log.py:213`) | `docs/review/issue-resolution.md:10` | part dataset |
| `DatasetReview.UnconfirmedIsBlocked` | an assertion on something unconfirmed raises, and is never reported as BLOCKED (`modeling/confirmation.py:367`) | `docs/review/package-readiness.md:23` | part dataset |
| `BrowserSession.ShownIsOver` | a late 401 of an old cookie ends the new session's display (`workbench/src/api.ts:12`) | `workbench/src/shell.tsx:31` | 1 tab, 2 slots, kinds read and session |
| `RuleEvaluation.OneRulePerReason` | two missing pieces of evidence share a reason node (`evaluator.py:171`) | `eligibility-instance-shapes.ttl:175` | part rules |
| `ExactAuthority.LoadedIsExact` (amendment) | artifacts are hashed after all verification (`amendment/authority_binding.py:221`) | `amendment/authority_binding.py:298` | part authority, the program of 5 trees |
| `AmendmentReentry.PublishedIsRequested` | the request is bound to the proposal, not to the decisions on it (`amendment/republication.py:118`) | `amendment/candidate_binding.py:166` | part reentry |
| `AmendmentReentry.ChangesAreApproved` | without a target every declared change passes (`amendment/scope.py:103`) | `amendment/scope.py:57` | part reentry |
| `StepAudit.StoppedIsReadable` | three failures make the archive of an attempt unreadable for ever (`services/modeling_semantic.py:45`, `modeling/delivery/trace.py:124`, `services/facade.py:232`) | `docs/ontology/AGENT_STEP_AUDIT.md:180` | 1 attempt, 4 calls, 1 fault of each kind |
| `LiveRunner.SnapshotAccepts` | a request whose supervisor was killed, or a receipt that could not be written, makes the revision unreadable (`ontology_io/live_inventory.py:94`, `live_runner.py:245`) | `ontology_io/live_inventory.py:22` | 1 supervisor, 1 death or 1 fault |
| `BatchExport.OneDestination` | the directory is renamed before the ledger commits: after a kill the runs are delivered again (`modeling/delivery/evolution.py:307`) | `evolution.py:281` | part exports |
| `PackClosure.DepthsAreTopological` | a pack met again raises its own label and not those below it (`domain_packs/resolver.py:40`) | `resolver.py:15` | part closure |
| `PackClosure.ExactVersion` | the registry keeps the paths of its first scan and does not look at the version again (`domain_packs/registry.py:107`) | `registry.py:1` | part edited |
| `IngestionPlans.EverySnapshotIsVerified` | the snapshot of a quality evaluator is bound and never verified (`ingestion/executor.py:176`) | `docs/ingestion/ingestion-plan-and-run-v1.md:9` | part plans |
| `SemanticBuild.StaysReproducible` | a package holds a copy of the review log, and the smallest path among equal copies is part of the attestation: reproducing a build is refused though nobody edited anything (`semantic_kernel/artifact_resolver.py:112`) | `semantic_kernel/compiler.py:548`: recompile and compare every authoritative byte | part build, no edit |

Paths in this table without `docs/` or `workbench/` are under `zt/`. With a claim stalled
past its lease, `AuthorityMatchesReceipts` and `FailureIsUncommitted` fail as well
(section 4). `RegistryJournal.VerifiedIsComplete` holds for one process and not for two
that import one package at once.

Behaviour that no document contradicts, visible in the models and useful to know:

- A request whose thread died, or whose outcome could not be written, stays
  RECOVERY_REQUIRED for ever: nothing in the code moves the row on.
- A `create_project` that fails after it made the directory leaves a name that every
  later creation refuses; a lock file or an orphaned blob of a dead process stays as well.
- An audit record whose newline was lost counts as a sound tail, and the next record is
  written on the same line. Both calls were answered; the line no longer verifies.
- "CANCELLED" may be answered for a job that had already published. Reading the job
  again corrects it to "SUCCEEDED", and `Authority` says so.
- Nothing but a claim notices an expired lease: with no worker polling, a job of a dead
  worker shows RUNNING for ever.
- A change is proposed against any two releases, not against the latest; `rebuild_indexes`
  has no caller; the status of a change candidate never leaves SUBMITTED.
- The eligibility rules of the shipped pack leave one second between two versions
  (`domain_packs/mnp/rules/eligibility_rules.yaml:90, 112`).

---

## 7. What is not modelled

PROJECT.json maps every definition to the lines it models. Together they are about a
seventh of the implementation. The rest is for the most part not of the kind a model
checker helps with: compilers of one document into another, validators of documents, the
generation of reports and of ontology text, scripts that build fixtures, the SDK and the
views. What they compute appears in the models as a value that either passes or not.

In the modelled parts:

- **Service and jobs.** A clock that goes backwards, and torn directory copies (`copytree`
  either completes or raises). A `recover_job` that raises because the database is busy;
  the exception ends the worker, as a crash does. Edits in place between the verification
  of the base workspace and the publication. READ operations, listings, and the
  authorisation of a request before it is accepted. What `inspect_project` computes.
  `project.lock` differs from `project.create` in that its key is required and its action
  is the idempotent writing of a lock file.
- **Evolution, sessions, reviews.** Everything below the granularity of an operation:
  the private copy makes it one step. Sessions of the older, non-strict kind. Review
  scopes beyond the ones in the instances.
- **Releases, registry, environments.** The text of diffs, impact and
  compatibility reports. `rebuild_indexes`, which nothing calls.
- **Publications and amendments.** Reason codes beyond one; the `ReplayGuard` ledger, which
  re-entry does not consult; the distinction of IRIs and literals; evidence references; an
  exception between an approval event and its request in the governance workspace.
- **Ingestion.** Replay of the detection, the reasons of a selection, the limits, relocking
  a project in between. Built-in plugins cannot be uninstalled. A detector is taken as
  imported when it is first called. Long-lived processes are checked without edits in the
  passing run, since with them the property fails (`ingestion_cached`).
- **Semantic builds.** Changes of the compiler and of its policy, the export of `.kgop`
  archives, the queries of competency questions, the byte comparison.
- **Step audit.** The hash chain, redaction, the allow-list, the protocol report.
- **Live runs.** More than one supervisor at a time (a lock excludes them); the contents of
  requests; the order of rows within a phase; a changed authorisation. STOP and `max_jobs`
  are leaving the loop at any time.
- **Delivery.** The negative acceptance of a handoff. Only the delivery command line uses
  `export_batch`.
- **Setups and closures.** Windows: `os.replace` and `rmdir` behave as POSIX says. One file is
  read atomically.
- **GraphDB.** `transport.retries` is 0, as the adapter requires; WebVOWL and the
  application queries are views.
- **Rules.** Time is an integer; what evidence proves is a number compared with a bound.

Contracts and schemas have no state. `FiveStageCoordinator`, the assistant's generation and
repair loop, and the assembly of handoff packages are in no module yet.

---

## 8. Plan

What earlier plans announced is built: releases, registry, environments, evolution,
uploads, commits, sessions and reviews. Next, in this order:

1. **Proofs of RegistryJournal, EnvironmentActivation and LiveRunner**: the refinement of
   `AppendLog`; who consented to a move; what is charged.
2. **FiveStageCoordinator** (`zt/modeling/five_stage/agents.py:160`) with the assistant's
   repair loop: the bound on repairs, and which draft is committed after a failed check.
3. **Handoff** (`zt/services/handoff.py`): import of a package into another project, its
   head check against a session that moves, negative acceptance.
4. **The control plane's own service** (`zt/modeling/control_plane/service.py`) and the
   verification of packages (`zt/publication/`).
5. Composition of `IngestionPlans` with `WorkspaceCommit` in one module, when a smaller
   abstraction of the four moves makes it affordable.
