# Comgu, specified

TLA+ modules, TLC configurations and TLAPS proofs for Comgu, the service that
watches a merchant's data contracts (a "commerce lab" checkout and a DataHub
graph), opens an incident when they contradict each other, plans a fix, waits
for a person, and then patches, validates, opens a pull request and writes the
correction back to DataHub.  Paths below are relative to `src/`.

## 1. The system

### Components

| Component | Code | State it keeps | Operations |
|---|---|---|---|
| Run state machine | `apps/api/workflow.py` | `runs.status`, the step log, the run's events | `transition`: check the edge, write the status, set `finished_at` and clear the lease when terminal |
| Runner | `apps/api/runner.py` | none of its own; rows that hang off a run: context snapshot, findings, plan, artifact, validation, pull request, write-back | `advance_to_approval`, `advance_after_approval`, `_rebuild_context` |
| Recovery worker | `apps/worker/worker.py` | `runs.locked_by`, `runs.locked_at` | `sweep_once`: select, `claim`, resume, release; `main` polls |
| Operator requests | `apps/api/main.py`, `apps/api/screens.py` | approval rows | `create_run`, `approve`, `reject`, `cancel_run`, `retry_run`, `patch_incident`, `demo_reset` |
| Incidents | `apps/api/incidents.py` | the run's incident and its status | `open_for_run`, `follow_run` |
| Rules | `packages/rules/*` | none | five rules and their grading: findings from the context and the lab |
| Planner | `packages/planner/*` | none | `plan_remediation`: the model's plan if it parses and is grounded, else the deterministic one |
| Patch and validation | `packages/patch/*` | a workspace, a copy of the lab | `generate` with five templates, `run_validation` |
| Lab bridge | `packages/lab/bridge.py` | reads the checkout | `load_catalog`, `build_projections` |
| Pull requests | `packages/github/pr.py` | the lab checkout's branch, index and files; GitHub | `open_pull_request`, `_push_and_open` |
| DataHub | `packages/datahub/*` | the remote graph, a session's trace | `build_run_context`, `write_back`, the MCP client |
| Seed and verification | `seed/*` | the remote graph | `build`, `emit`, `--reset`; `verify` |
| Webhook intake | `apps/api/main.py:505`, `apps/api/shopify.py` | webhook event rows, idempotency keys | verify, deduplicate, create a run |
| Shopify OAuth | `apps/api/shopify_oauth.py`, `apps/api/main.py:600` | pending single-use states, in memory | `new_state`, `consume_state`, the callback |
| Start-up: tenant, registry, connectors | `apps/api/main.py`, `apps/api/registry.py` | organisation, shop, rule versions, connector rows | `lifespan`, the `sync_*` functions, `connector_test` |
| Watchdog and deployment | `infra/*` | failure counts and cooldown stamps in files | `watchdog.sh`, provisioning |
| Authentication | `apps/api/auth.py` | tokens | roles, `pr_live_allowed` |
| Schema, scripts, web pages | `apps/api/db/`, `alembic/`, `apps/api/scripts/`, `web/` | the rows above | migrations, one-shot scripts, rendering |

### How they interact

An HTTP request commits a run's row and schedules a background task in the API
process.  The task opens **its own database session**, loads the run once and
drives it: to `AWAITING_APPROVAL` (`advance_to_approval`) or, after an approval,
to the end (`advance_after_approval`).  A recovery worker, another process,
polls the same table and resumes the runs whose status is owed to it.  Operators
act through further requests, each with a session of its own.  What couples all
of them is the row: `transition` compares the edge with the status *its session
loaded*, sessions do not expire on commit, and no row is locked.

The driver, between two transitions, calls out: DataHub, the lab checkout, the
planner, the lab's tests, git and GitHub.  Each call can fail; some failures
move the run to `FAILED`, some are returned as a result that is recorded, and
the others are exceptions that leave the run in the status it had.

Two stores outside the database are shared by all runs.  The **lab checkout** is
read by the checks and copied into workspaces while a publisher switches its
branch and the demo reset resets it.  **DataHub's graph** is built by the seed,
read by every context, annotated by every write-back and partly erased by the
seed's reset.  Around all of it, systemd and the watchdog start and restart the
API process, and each start rewrites the tables that project the code.

### What is hard

* several threads that believe in different statuses of the same run;
* an approval that is committed before the transition it is meant for;
* a worker that takes a run over while somebody still drives it (leases expire
  and are not renewed) or that overlaps another worker's sweep; a sweep that is
  full of runs that cannot move;
* crashes and swallowed exceptions between any two commits, in statuses that the
  runner has no entry for; exceptions that come again at every resume, because the
  lab and not the moment causes them;
* a lab checkout that changes between the checks, the plan, the approval and the
  copy, and between any two git commands of a publisher;
* a push, a pull request and the row that records it, each of which can be last;
  a push whose answer was lost;
* a graph whose aspects arrive one by one, while it is verified and read, and of
  which an answer may show a part; a tool call that failed and was applied all the
  same, in a process that may die before it has stored what it recorded;
* a database column that projects code, across deployments and roll-backs, and a
  single-use token in the memory of a process that may be restarted;
* a watchdog that must neither give up nor cut off the start it began itself.

`PROJECT.json` lists each hazard at its line and the properties that watch it.

### What makes each component correct

* State machine: a status only moves along a declared edge; nobody asks for an
  edge that is not there; a cancelled run stays cancelled.
* Runner: nothing is generated, pushed or written back before an approval; what
  is pushed passed validation and is what was approved; a run is never stranded.
* Operators: only a caller who may open pull requests turns a dry run into a push.
* Worker: one worker per run; every resumable run is resumed; a lease is freed.
* Incidents: one per run, and its status shows the run's.
* Rules, planner, patch: a plan is about findings of its run; every finding is
  patched or reported; a patch is narrow, settles what it was made for, and is
  complete, so that merging it gives the lab that passed.
* Pull requests: the database claims an open one only if GitHub has it; what is
  pushed is a state of main and the validated files; a reviewer's commit is kept;
  the checkout is back on main afterwards.
* DataHub: a context names only lineage that is there; a value stands only
  on assets the run's findings named; *verified* means it was read back; whatever
  a write-back whose row is stored has left is in its trace.
* Seed: what was sent and consumed is the whole graph; a verification that passed
  means a traversable one.
* Intake: a delivery is taken in or refused once and for good; it becomes at most one
  run, only if its signature was verified
  and its topic is accepted; what was answered "accepted" has its run.
* OAuth: a state is accepted once, for its shop, and only while it lives.
* Start-up: an API that answers has its one tenant and tables that fit its code.
* Watchdog: what died, hung or stopped comes back, without a restart loop.

## 2. The modules

| Module | What it is |
|---|---|
| `Workflow` | the statuses, edges, resumable sets and the incident table, constants only |
| `RunMachine` | the abstract specification: what a run promises its reader while one thread at a time drives it |
| `SharedRun` | the weaker abstract specification that is left when several threads drive the same run |
| `RunLifecycle` | one run and every thread that touches it; its properties; the mutated actions |
| `WorkerSweep` | the recovery workers over several runs |
| `Inbox` | the abstract specification of the intake: what it promises the sender |
| `WebhookIntake` | deliveries and the handler in several processes |
| `CommerceLab` | operators without state: the lab's files, what its transforms make of them, the five rules, the five templates |
| `Remediation` | what one run computes: findings, plan, patch, validation (extends `CommerceLab`) |
| `LabCheckout` | the shared checkout, the remote and the pull requests, git command by git command |
| `DataHub` | the graph, the seed, the verification, the context and the write-back |
| `ShopInstall` | the API process: start-up, tables, connector tests and Shopify installs |
| `Host` | the watchdog over that process, DataHub's containers and Caddy (extends `ShopInstall`) |
| `MCRunLifecycle`, `MCWorkerSweep`, `MCWebhookIntake`, `MCRemediation`, `MCLabCheckout`, `MCDataHub`, `MCHost` | the constants' values for TLC |
| `RunLifecycleProofs`, `SharedRunProofs`, `WorkerSweepProofs`, `WebhookIntakeProofs`, `RemediationProofs`, `LabCheckoutProofs`, `DataHubProofs`, `HostProofs` | the theorems; `SharedRunProofs` extends `RunLifecycleProofs` with the refinement of `SharedRun` and what follows from it |

`RunLifecycle` is the centre.  The others open one of its steps, or one of the
parties around it, and say what that step may do:

| `RunLifecycle` has | as | opened in |
|---|---|---|
| a run in `SIGNATURE_VERIFIED` | an initial state (`Triggers`) | `WebhookIntake` |
| `Sweep`, `Claim`, `Release` of one run | steps | `WorkerSweep`, for several runs |
| `RunRules`, `MakePlan`, `Generate`, `Validate` | a lab version in, a version or an exception out (`Unreadable`, `Unpatchable`) | `Remediation` |
| `ResolveContext`, `CallLands`, `WriteBack` | an outcome, and whether anything reached DataHub | `DataHub` |
| `OpenPullRequest` | an outcome and one push of the thread's own patch | `LabCheckout` |
| `CrashApi` | a step | `Host`, where the process starts again |
| `LabChanges` | a step | `LabCheckout` (reset, push), the merchant |

The composition is by this table, not by a common state: the detailed modules' data
would multiply with the threads'.  Each abstract outcome is nondeterministic.  What a
detailed module returns to the driver is among the outcomes here, and so is a
write-back that reached DataHub before it failed, raised or died (`CallLands` is a step
before it).  The exception is the push: here it is one step of the patch the thread
hands over, so `ShipsWhatWasValidated` speaks of that patch; what others do to it in
the shared checkout between two git commands only `LabCheckout` knows, where
`PushedIsValidated` fails.

### `RunLifecycle`

| Variable | Code |
|---|---|
| `status` | `runs.status`, the committed row |
| `lease` | `runs.locked_by`; `fresh` says whether `locked_at` is younger than `LEASE_SECONDS` |
| `row` | the rows that hang off the run: is there a snapshot; the lab version of plan v1; the requests whose approval was committed and the latest decision; artifact; the patches with a passed validation and the latest validation's status; the latest pull request's and write-back's status |
| `incident` | how many incidents point to the run, and the status of the one `open_for_run` and `follow_run` find |
| `outside` | the patch GitHub has, and whether DataHub was written to |
| `lab` | the version of the lab checkout |
| `pc`, `local` | per thread: the step it is at, and its session and locals: `mem` and `held` (what the session knows of `runs.status` and `runs.locked_at`), `view` (the lab version its findings come from), `patch`, `live` (the argument `pr_live`), `passed` (the validation it read before publishing), `result` (what a call outside returned) |
| `spent` | crashes and faults so far |

One action is one commit, or one call outside the database.  Between two actions
of a thread everything else may happen.

* `Move` is `transition` from any of the calls in `Target`, followed by `Follow`,
  the `follow_run` that `runner.advance` and the handlers pair it with (a commit
  of its own).  `FailValidation` is the one transition without it.
* `Start`, `ResolveContext`, `RunRules`, `FindIncident`, `InsertIncident`,
  `AttachIncident`, `MakePlan`: `advance_to_approval` and `open_for_run`.
  `ToApproval` is its chain of `if run.status == ...`.
* `Rebuild`, `Generate`, `Validate`, `Publish`, `OpenPullRequest`,
  `RecordPullRequest`, `CallLands`, `WriteBack`, `RecordWriteback`:
  `advance_after_approval`, with the entries of `AfterRebuild`.
* `BeginApprove`/`RecordApproval`, `BeginReject`/`RecordRejection`,
  `BeginCancel`, `BeginRetry`, `PatchIncident`: the handlers.
* `Sweep`, `Claim`, `Release`: the worker.
* `LeaseExpires`, `LabChanges`, `CrashApi`, `CrashWorker`: the environment.

Abstractions:

* A lab version stands for the content of the checkout; a patch is the version its
  findings come from and the version its workspace was copied from.
  `Contradicted` holds the versions in which the rules find something, `Unreadable`
  those whose catalogue or projections cannot be read (no products, a transform that
  exits with an error), `Unpatchable` the patches whose generation raises whenever it
  is tried: a bundle of no units, a YAML file as AI manifest, a target that is not there
  (`Remediation` has each of them as `Break`).
* `demo_reset` is one of the causes of `LabChanges`; the deletion of a run under
  its drivers is not modelled.
* A database error other than the unique plan version is left out (SQLite's
  "database is locked", connection loss); a crash covers losing a thread at the
  same places, except that the worker's `finally` clause then still runs.
* An exception that a driver lets through is `Leave`: the background task logs it,
  the worker's clause releases the lease.  One that the lab causes comes again at every
  resume and is not counted; one that DataHub or git causes is a `Fault`, bounded by
  `MaxFaults`.
* Copying the lab into a workspace is one step for the other threads.
* "written" stands for the write-back's *verified* and *partial*.
* The incident object that a session cached before the write-back is not told from
  the row; only `follow_run`'s summary depends on it.

### `WorkerSweep`

Here a run is *ready* (owed to a worker, in a status the runner has an entry for),
*stuck* (owed, without one) or *resting* (over, or waiting for a person); what a
driver does to it in between is one step, since `RunLifecycle` has those steps.
Runs are numbered by `created_at`, and start where a deployment or the death of the
API left them.

| Variable | Code |
|---|---|
| `state` | `runs.status`, in one of the three classes |
| `lease` | none, fresh or stale: `locked_by` and `locked_at` against the cutoff |
| `batch` | per worker: the candidates its sweep has not come to, a set of runs with the state in which the session loaded them; the query's order is that the oldest is claimed next |
| `current`, `driven` | the candidate it has claimed, and whether the driver returned |
| `events` | decisions, exceptions and deaths of a worker so far |

`Select` is the query with its limit and order; `Claim` never refuses, because
`claim` looks at the lease that the query loaded, which was none or stale;
`Resume` drives from the loaded status, and returns at once for a stuck one;
`Finish` is a terminal transition, which clears the lease with its own commit;
`Release` is the `finally` clause.  `BreakSession` is the driver that inserts a
second plan: the session needs a rollback nobody gives it, so neither the handler
nor the `finally` clause can commit, the lease stays and the sweep is over.

### `WebhookIntake`

`WebhookIntake` ends where `RunLifecycle` begins: with the run it commits in
`SIGNATURE_VERIFIED` (`Triggers <- Webhook` in `webhook_stuck.cfg`).  They share no other
state: an event's row is only read by the webhook handler.

| Variable | Code |
|---|---|
| `events` | the row of `webhook_events` for each idempotency key: `processing_status` and `hmac_valid` |
| `runs` | how many runs point to a webhook's event |
| `secret` | the processes started with `SHOPIFY_WEBHOOK_SECRET` |
| `pc`, `local` | per process: between which commits its handler is, the webhook, whether the bytes are those that were signed, whether a reset has deleted the row it stored, and its answer |
| `told` | the last answer that reached the sender |
| `spent` | crashes and resets so far |

`Receive` is the handler up to its look for the key (`main.py:510`-`528`), `Store`
its first commit, where a row that another process committed meanwhile breaks the
unique constraint, `RefuseTopic` and `Process` the second one.  `Process` has
three outcomes: the row is gone (the update of a deleted row raises), `normalize`
raises, or the run is committed together with the event's status.  `Reply` may
lose the answer; `ProcessCrash`, `Configure` and `DemoReset` are the environment.

A webhook stands for its idempotency key.  A handler is `async` without an await
that yields after the body, so a process runs one handler at a time up to its
answer, while `demo_reset` runs in a thread of the pool.  Several processes over
one database are what `db/session.py:4` ("Postgres for anything shared") and
`shopify_oauth.py:66` ("a multi-instance deployment") allow for.
`ensure_demo_tenant` (the tenant exists since start-up), the size limit of the
body and what the normalized change says are left out.

`Inbox` knows neither processes nor commits: each webhook has a `fate`, open until it is
taken in or refused, and what its sender was `told` last.  `Fate` reads it off the rows: a
webhook with one run is taken in, one without a run whose event is rejected is refused,
all others are open, also one that is being handled or that a crash left behind.
`Store` and `RefuseTopic` implement `Refuse`, `Process` implements `TakeIn`, `Reply`
implements `Tell`, `DemoReset` implements `Forget`; every other step, and each of these
when it comes to nothing, is a stutter.  It is the whole of what the sender is promised:
that an "accepted" has its run (`AcceptedHasRun`, a theorem) is one of its consequences.

### `CommerceLab` and `Remediation`

A lab is a record with one field per file, and each file has an entry per SKU: a
feed price, a bundle's committed units and units per bundle, a promotion's basis, an
AI offer, a policy window.  Entries may be absent (`Unlisted`), in which case a rule
finds nothing and its template edits nothing, follow the catalogue, or not be
a number.  The last is modelled for feed prices only: an offer or a window that is no
number makes its rule err in the same way.  The lab's own transforms live in
another repository and are modelled, as external, from the rows that
`bridge.py` and the rules read.  `Check` is the five rules with their grading;
`ApplyTemplate` the five templates, floor division included.

| Variable | Code |
|---|---|
| `lab` | the checkout |
| `context` | the persisted snapshot: is there an authority, and per rule the asset that carries it (owner, audience, criticality, the file it names) |
| `phase` | how far the run is |
| `change`, `report` | `ctx.change`, what `load_catalog` returned last; what the rules said last |
| `plan` | the stored plan: its source and its actions |
| `copied`, `workspace` | the lab as the workspace was copied, and the workspace |
| `todo`, `patch` | the findings `generate` has not come to; files, applied, skipped, rejected |
| `edits` | edits of the lab so far (`MaxEdits`) |

`LoadCatalog` and `RunChecks` are two reads, with `LabChanges` between them;
`MakePlan` reads again and takes the model's answer through the schema's guard and
the grounding guard; `Approve`, `RunChecksAgain` (what `_rebuild_context` and
the second run of the rules do), `PrepareWorkspace`, then `NextFinding` for one
finding at a time: `Skip`, `Reject`, `Break` (an exception out of a template),
`LeaveAlone` (the template changed nothing) or `EditFile`; `Generated`, `Validate`,
`Ship`.  A path is the directory it is in and whether it exists; a validation is the
suite's verdict, "the lab agrees with its catalogue".

### `LabCheckout`

| Variable | Code |
|---|---|
| `head`, `local`, `index`, `work` | the checkout: branch checked out, local branches, index and files |
| `origin`, `stale` | what the checkout knows of GitHub: `origin/main`, and the runs whose branch is no longer what it last heard |
| `remote`, `prs` | GitHub: branches, pull requests |
| `pc`, `files`, `original`, `result` | per publisher: its next command, the files of its patch, the branch it found checked out, what it will return |
| `reset` | the demo reset's next command |
| `crashes`, `tries`, `outside` | bounds |
| `pushed`, `reviews`, `mains`, `alone` | history, for the properties |

One action per command of `_push_and_open`: `Fetch`, `Branch` (`checkout -B`),
`Write`, `Add`, `Commit`, `Push` (with a lease; its answer may be lost),
`FindExisting`, `Create`, `Restore` (the `finally` clause, which may fail too),
each of which can fail where it stands (`Write` after some of the files); `BeginReset` and `ResetHard`; `Crash`; and at
GitHub `EditMain`, `Review`, `Close`.  Trees and files are identified by their
content.  A lease is whether the checkout has heard of the branch's last move: a
push whose answer is lost leaves it stale, so every retry is refused.
`git clean` in the reset has no effect on tracked files.

### `DataHub`

| Variable | Code |
|---|---|
| `catalogue` | which aspects the seed has put there, per entity |
| `props`, `tagged`, `documents` | per projection whose `last_run` and `pull_request_url` stand on it, the tag *remediated*, the saved documents |
| `queue`, `batch`, `whole` | proposals sent and not yet consumed, the batch the seed emits next, whether a whole seed was ever sent |
| `verify` | how far `seed.verify` is |
| `phase`, `named`, `context`, `plan`, `exposed` | per run: how far, the answer of `get_lineage`, of `get_entities`, what is to be written where, the session's tools |
| `ops`, `trace` | the outcome of each write operation, and of each recorded call |
| `left`, `settled`, `carried` | the scenario's bounds, and history |

`StartSeed`, `EmitBatch`, `EmitReset`, `Consume`; `VerifyLineage`,
`VerifyGovernance`; `GetLineage`, `GetEntities`, `Resolve`; `OpenSession`,
`AddProperties`, `AddTag`, `AddOwner`, `SaveDocument`, `ReadBack`, `Crash`;
`OtherMarks` for runs of which only the marks are seen.  DataHub itself is
external: it is taken to consume a batch after the one before it and the aspects
of one entity in their order, and to upsert whole aspects.  An emit that failed may have
sent some of its batch (`Parts` are the candidates), a call that failed may
have been applied, to any of the assets it names, and so may one that succeeded
be applied to some only: the client looks at no payload.  `get_entities` answers for any
of the assets it was asked for, and nothing compares.  `ops` and `trace` are in the
memory of the process until `ReadBack` stores them, and `Crash` loses both; a call that
was applied and whose answer had not been recorded when the process died is therefore
not told from one that had been.  Job entities also carry
`comgu_rule`, which nothing reads, and assertions (`quality.py`) corroborate and
change nothing; both are left out.

### `ShopInstall` and `Host`

| Variable | Code |
|---|---|
| `organisation`, `shops`, `shop` | tenant rows: is there an organisation, how many shops, the first one's domain and `demo` flag |
| `registry`, `connectors`, `scenario`, `audited` | rule versions with their checksum, connector statuses, the demo scenario, audit entries |
| `startup`, `build` | per process how far its start is (`api`, and the `issue_token` scripts); the code it runs |
| `pending`, `callback` | `_STATES`, and the callbacks between their awaits |
| `asked`, `admitted`, `exchanged` | history |
| `hung`, `datahub`, `caddy` | what the watchdog probes, beside `startup` |
| `poll`, `fails`, `since` | where its script is, and its files of failure counts and restart times |
| `starting`, `starter` | how long the start has lasted and who began it |
| `left` | the scenario's bounds |

`FindTenant`/`AddTenant` are the look and the commit of `ensure_demo_tenant`;
`SyncRules`, `SyncConnectors`, `SyncScenario` the rest of `lifespan`; `RunScript` is
`issue_token`; `TestConnector`, `BeginInstall`, `ReceiveCallback`, `ExchangeCode`,
`RegisterWebhooks`, `RecordInstall` the requests.  `StartUp`, `Script` and `Handle`
lift them to the host; `Fail` (the process dies or hangs), `Deploy` and `Outage` are
what happens to it; `Tick` and `PollDataHub`, `PollComgu`, `PollCaddy` the timer and
the script.  A restart loses `_STATES` and every callback under way.  One API process
is assumed, as the unit file starts one: with two, `registry.py:109` (look, then
insert, no unique key) could add a connector twice.  Time is counted in the timer's
periods of five minutes; a state's ten minutes, the watchdog's cooldown and a start are scaled
to `TTL`, `Cooldown` and `MaxStart` of them.  Signatures are a Boolean; a failed
`register_webhooks` topic is only noted, as in the code.

## 3. The runs

`CHECK_DEADLOCK FALSE` everywhere: the system really stops, once the run is
finished and the requests are used up, every webhook is answered, or the scenario
is over.

| Run | Expect | What is in it | What it shows |
|---|---|---|---|
| `races` | pass | the creator's task and two requests at once (`MaxBusy = 3`), all five operations, two lab versions, one fault, only the second request may push | `TypeOK`, `ApprovalGate`, `ShipsWhatWasValidated`, `PullRequestRowIsReal`, `NoIllegalTransition` in every interleaving; `KeepsShared`: the run implements `SharedRun` |
| `resumes` | pass | the creator's task, one decision by somebody who may not push, and a polling worker, two at a time (`MaxBusy = 2`), fairness; nothing fails | `LiveGate`: whoever resumes the run, nothing is pushed; `UndisturbedSettles`: the run ends or waits for a person, or one thread took it over from another at one of two steps |
| `recovery` | pass | one thread at a time (`MaxBusy = 1`) and a polling worker, fairness, three requests, a crash, a fault, three lab versions: a contradicted one, one that cannot be read, one that no template can patch | `KeepsMachine`: the run implements `RunMachine`; `IncidentMirrorsRun`: a run at rest that has a plan has one incident, which shows its status; `EnterableMoves`: it leaves every status the runner can enter, unless the lab makes each attempt raise |
| `sweep` | pass | two workers, three runs, two to a sweep, one decision, exception or death, fairness | `Served`: as long as fewer runs than a sweep takes are stuck, every run that can move is moved |
| `intake` | pass | two processes; a webhook in order, one that `normalize` cannot read, one of a topic that is not accepted; repeated, altered and unanswered deliveries, one crash, one reset | `KeepsInbox`: the handler implements `Inbox`; `OnlyVerifiedRuns`: never one that was not verified; `NothingLostInPeace`: without a crash only an unreadable payload leaves an event behind |
| `remediation` | pass | fifteen labs, nine snapshots, nine answers of the model, one edit of the lab between any two reads | `PlanIsGrounded`, `EveryFindingAccounted`, `NarrowEdits`, `PatchConverges` (one round is enough: what was patched is no finding and would not be edited again), `ShipsWhatPassed` (merging the patch gives the lab the suite accepted) |
| `datahub` | pass | a graph seeded from nothing, twice if an emit fails (having sent nothing, all or some of its batch), under two looks of `seed.verify` and a run that reads and is answered for any part; a whole graph with a reset, another run's mark and a write-back; three sets of tools | `SeedConverges`, `VerifiedGraphIsTraversable`, `BlastRadiusIsLineage`, `OnlyAffectedAnnotated`, `VerifiedWasCarried`, `TraceExplains` |
| `checkout` | pass | two runs, two files, two publishers or a reset at once, one crash or failed checkout, two tries, one review, merge or edit of main | `ReviewKept`: never pushed over a reviewer; `PushedIsValidatedAlone`, `CheckoutRestored`: as long as nobody overlapped or died inside |
| `install` | pass | three scenarios of two shops, two states, two callbacks, a script, deployments and roll-backs over three builds, deaths, hangs, outages and slow probes, fairness | `OneTenant`, `ServingIsReady`, `AdmittedOnce`, `InstalledIsReal`, `NoRestartLoop`, `Heals` |
| `webhook_stuck` | violation | a run created in `SIGNATURE_VERIFIED`, a worker | `NothingStranded` fails: no driver has a branch for that status |
| `stale_approval` | violation | the lab changes between plan and remediation | `ShipsWhatWasApproved` fails: the stored checksums are never compared |
| `shared_checkout` | violation | two publishers, or a publisher and a reset | `PushedIsValidated` fails: the branch lacks validated files or has another run's |

The last three are divergences between the code and what its comments and README
say; `PROJECT.json` quotes both sides under "findings".

### Bounds, and why they are enough

* `races`: two racing requests plus the creator's task give every pair of a driver
  and a decision, and two drivers of the remediation at once (approve, then retry
  and approve, or two approvals that both read `AWAITING_APPROVAL`).  `recovery`
  has three requests so that a retry is followed by a third decision.
* `MaxBusy` says how many threads may be under way together; 3 is all there are in
  `races`, and 2 in `resumes` is every pair of the creator's task, the request with its
  remediation and the worker that takes the run over from them (one request, so no
  retry there; `RestsSettledHolds` has them).  With 1 it is an
  assumption of what `recovery` checks, not a promise of the code: with two threads a
  driver writes its next status over a cancellation, and `KeepsMachine` fails; a second
  driver can also insert a second incident or a second plan.  What the code keeps
  however many threads there are is `KeepsShared`, in `races`.  Two workers at a time
  are in `sweep`; the gates are proved for any number.
* Two lab versions, one contradicted: enough for a plan, findings and workspace
  that differ pairwise; in `races` the second lacks a file that the first one's findings
  name, so that generation raises.  `recovery` has three, so that the lab can become
  unreadable, unpatchable and sound again.  `LabChanges` is unbounded in number.
* One crash and one fault: every process may die once and every call outside may
  fail once, at every place.
* `sweep`: one run more than a sweep takes is what a run can be starved by; two
  workers overlap, and one event is one in the middle of a sweep.
* `intake`: two processes are enough for every pair of handlers of one key, three
  webhooks for the three ways out of the handler.  Deliveries are unbounded in
  number.  The processes are interchangeable (the cfg's symmetry), the webhooks
  are not.
* `remediation`: two SKUs, the change's and another; the labs are the consistent
  one, the demo's, and those that differ from them in one entry, chosen so that every
  branch of a rule and of a template is taken (garbled, unlisted offers and windows,
  followed, sold out, no units per bundle, inactive).  The snapshots lack an asset or
  name a file that is missing, absent, another surface's (a YAML file for the AI
  manifest, too) or the catalogue itself.  The answers
  miss each guard once.
* `datahub`: a projection with an owner and one without; other runs are told apart
  from this one only.  `Parts` has nothing, everything (only the answer was lost) and the
  governance aspects; the proofs are for any parts.  `checkout`: two files, so that a tree can be half one run's;
  two tries, so that a lease can be stale.  Runs and files are interchangeable there.
* `install`: `Cooldown` is longer than `MaxStart`, as in the deployment (half an
  hour against seconds); two versions of one rule, and a build that changes its
  source, are what a roll-back needs.
* `PatchIncident` is only in `races`; the incident's properties are about runs
  whose incident no operator reassigns by hand.

### Fairness

`RunLifecycle`'s `FairSpec` assumes weak fairness of every thread's `Drive`, of a
handler that has started (`Handle`), of a worker's `Recover` and of `LeaseExpires`:
a live process runs its tasks, `worker.main` polls for ever, and time passes.
Nothing is assumed of operators (`Operate`), of the lab, of crashes or faults.  A
crashed API thread does not come back, so what it owed is the worker's.

`WorkerSweep` assumes the same of its workers (`Work`), of which a dead one is
started again, and of leases.  `Host` assumes that the timer fires (`Tick`), that
the watchdog's run ends (`Poll`), and that a start goes on (`StartUp`); nothing of
requests, scripts, deployments or failures.

### Mutants

Each property of a passing run has a mutant in its module, next to the definition
it changes ("A mutant of ..."): an approval that is not committed, a push that is
not checked, a validation result nobody looks at, a stale lease that is never
reclaimed, a sweep that is one run too short, a key that is not unique, a patch that
forgets a file, assets that are sent before their definitions, a state that is
read and stays, a restart whose time is not kept.  Each makes TLC find the property
violated.

## 4. The proofs

For every value of the constants: any number of requests, workers, processes,
webhooks, publishers, runs, crashes and faults, any labs, snapshots and answers,
any rules and builds, and however many threads are under way at a time.

| Module | Theorem | States |
|---|---|---|
| `RunLifecycleProofs` | `TypeCorrect` | `Spec => []TypeOK` |
| | `ApprovalGateHolds` | `Spec => []ApprovalGate` |
| | `LiveGateHolds` | `Spec => []LiveGate` |
| | `ShipsValidated`, `PullRequestsReal` | `Spec => []ShipsWhatWasValidated`, `Spec => []PullRequestRowIsReal` |
| | `NoIllegalEdge` | `Spec => []NoIllegalTransition` |
| `SharedRunProofs` | `SharedKept` | `Spec => KeepsShared`, the refinement of `SharedRun` |
| | `FinishedForGood` | `Spec => [](Finished => []Finished)` |
| | `RestsSettledHolds` | `ASSUME Triggers = {"RECEIVED"}, SoundLab PROVE Spec /\ [](lab = 0) => []RestsSettled`, the safety core of `UndisturbedSettles` |
| `WorkerSweepProofs` | `SweepTypeCorrect` | `Spec => []SweepTypeOK` |
| | `OldestFirstHolds`, `SweepBoundedHolds` | `Spec => []OldestFirst`, `Spec => []SweepBounded` |
| | `OldestIsTakenHolds` | `Spec => [][OldestIsTaken]_vars`, the safety core of `Served` |
| | `LeaseHeldHolds` | `Spec /\ [][NoLoss]_vars => []LeaseHeld` |
| `WebhookIntakeProofs` | `IntakeTypeCorrect` | `IntakeSpec => []IntakeTypeOK` |
| | `OneRun` | `IntakeSpec => []OneRunPerWebhook` |
| | `InboxKept` | `IntakeSpec => KeepsInbox`, the refinement of `Inbox` |
| | `RunsAreGenuine`, `AcceptedIsCommitted` | `IntakeSpec => []OnlyVerifiedRuns`, `IntakeSpec => []AcceptedHasRun` |
| | `NothingLost` | `IntakeSpec => []NothingLostInPeace` |
| `RemediationProofs` | `TypeCorrect` | `Spec => []TypeOK` |
| | `PlanGroundedHolds`, `EveryFindingHolds` | `Spec => []PlanIsGrounded`, `Spec => []EveryFindingAccounted` |
| | `NarrowEditsHolds`, `PatchConvergesHolds` | `Spec => []NarrowEdits`, `Spec => []PatchConverges` |
| | `ShipsWhatPassedHolds`, `ShippedIsSilentHolds` | `Spec => []ShipsWhatPassed`, `Spec => []ShippedIsSilent` |
| | `CompletesConsistentHolds` | `Spec => [][CompletesConsistent]_vars` |
| | `RepairIsEnoughHolds` | `Spec => []RepairIsEnough` |
| `LabCheckoutProofs` | `TypeCorrect` | `Spec => []TypeOK` |
| | `ReviewKeptHolds` | `Spec => []ReviewKept` |
| | `AloneHolds`, `CheckoutRestoredHolds` | `Spec => []PushedIsValidatedAlone`, `Spec => []CheckoutRestored` |
| `DataHubProofs` | `TypeCorrect` | `Spec => []TypeOK` |
| | `SeedConvergesHolds`, `VerifiedHolds` | `Spec => []SeedConverges`, `Spec => []VerifiedGraphIsTraversable` |
| | `BlastRadiusHolds`, `OnlyAffectedHolds` | `Spec => []BlastRadiusIsLineage`, `Spec => []OnlyAffectedAnnotated` |
| | `VerifiedWasCarriedHolds`, `TraceExplainsHolds` | `Spec => []VerifiedWasCarried`, `Spec => []TraceExplains` |
| `HostProofs` | `TypeCorrect` | `Spec => []TypeOK` |
| | `OneTenantHolds`, `ServingIsReadyHolds` | `Spec => []OneTenant`, `Spec => []ServingIsReady` |
| | `InstalledIsRealHolds`, `AdmittedOnceHolds` | `Spec => []InstalledIsReal`, `Spec => AdmittedOnce` |
| | `NoRestartLoopHolds` | `ASSUME MaxStart < Cooldown PROVE Spec => NoRestartLoop` |

Assumptions, all named in the modules that declare the constants and evaluated by
TLC in every run: `ThreadsAssumption` (the creator, the requests and the workers
are different threads; `None` is none of the values it stands beside),
`ScopeAssumption` (what the constants are subsets of) and `BoundsAssumption` (the
bounds are naturals) in `RunLifecycle`; `WebhooksAssumption` and `IntakeBounds`;
`SweepAssumption`; `LabAssumption`, `AssetAssumption` and `RemediationAssumption`
(prices are naturals, the special entries are none, labs and snapshots have their
shape); `CheckoutAssumption`; `DataHubAssumption`; `InstallAssumption` and
`HostAssumption`.  Further hypotheses stand in the statements of the theorems that need
them.  `NoRestartLoopHolds`: a start is shorter than the cooldown.  `RestsSettledHolds`: the run was
created by hand, and the lab stays as it is, can be read and can be patched (a webhook's
run is stuck from the start, a lab that became consistent strands the planner, one that a
template cannot edit strands the generation).  `LeaseHeldHolds`: no
worker dies and no session breaks, either of which leaves a lease behind.
`RepairIsEnough` speaks of labs nobody edits, and of surfaces that an asset names
(`Repairable`).  Without them TLC finds counterexamples on the instances of the runs.

### The argument

None of the properties is inductive: each speaks about rows or the world, while
the step that would break it is taken by a thread acting on what it read some
steps ago.  So each inductive invariant adds what a thread's position and session
say.

`RunLifecycleProofs`:

* `TypeInv` adds that a result about to be recorded is one that the call outside
  can return (`ResultFits`).
* `GateInv` adds that a thread past an approval (`Begun`: by its step, by the
  status in its memory, or queued behind a handler), and a status past an
  approval, exist only when an approval row does.  Its proof has two cases.
  Approvals are never taken back (`RowGrows`), so a step after which one exists
  is done; otherwise none exists before the step either, no thread has begun,
  and `UnapprovedStep` shows that no step of a thread that has not begun begins.
* `LiveInv` adds that a session's `live` implies an approval by a live principal:
  `LiveSource` shows that only `RecordApproval` sets it and that only a thread
  that has it changes what GitHub holds.
* `ShipInv` adds `Vetted`: from `VALIDATED` on a thread holds a validated patch or
  none, and from the decision to publish on a validated one.  This is why reading
  *the latest validation row of the run* before publishing is harmless, although
  that row may be another thread's.
* `EdgeInv` says at which steps a session believes in which statuses (`Fits`), the
  invariant behind the chains of `if run.status == ...`; a step that fits has an
  edge (`FitsIsEdge`).

`SharedRunProofs` rests on these.  Sessions may be stale there, so nothing can be said
of the row that a thread's next step would not overwrite; what can be said is about what
each thread has seen:

* `StepShared` maps each step: a transition to `Advance` (an edge from the status in the
  thread's own memory, by `EdgeInv`; to `APPROVED` only by whoever recorded an approval,
  by `AskedInv`), a recorded approval to `Approve`, a push and a call of the write-back to
  `Deliver` (in their two statuses by `EdgeInv`, after an approval by `GateInv`), a load
  to `Look`, the end of a session or a crash to `Forget`, all others to a stutter.
* `PromiseIsWorth` uses `SharedRun` only: a run that has ended and that nobody remembers
  otherwise is not moved again (`FinishedForGood`).  So a cancellation that is
  overwritten is always the work of a session older than it.
* `PeaceInv` says that, while nothing has crashed or failed, a run that is owed to a
  driver has an `Owner`, a thread whose memory agrees with the row and which goes on from
  there, and that a generated patch is carried to its validation by the thread that
  generated it (`Carrier`).  A second thread may overtake the first, whose memory is then
  stale; but every transition makes its writer the owner (`FollowOwns`, `OwnStep`), so
  the run is left only where an owner gives up: at a plan that is stored already or has
  no findings, and at a validation without a patch (`TakenOver`).

`WorkerSweepProofs`: the candidates are downward closed among the eligible runs and map
one to one into `0 .. Limit - 1`, each to the number of older ones (`TakesOlder`,
`TakesFew`).  Hence the oldest run that is ready is among them as soon as fewer than
`Limit` runs are stuck, since only stuck ones are older.  `OldestFirst` says that a
claimed run is older than all that its sweep has left, so resuming goes by age although
a sweep is a set here.  `LeaseHeld` is inductive because a worker drops a run only in
the step that clears the run's lease, whoever has it by then.

`OthersRest`, the frame lemma, lets each of these proofs look only at the thread
that moves; `NextCases` splits a step into a thread's, a crash and the world's.

`WebhookIntakeProofs`: `IntakeInv` says who holds a webhook.  "At most one run"
is not inductive, since `Process` adds one without looking: what keeps it is
`HolderInv`, a handler past its first commit whose row is still there is the only
one for its key, and the key has no run yet.  `Store` establishes it because the
key is unique, `DemoReset` by making every such handler lose its row, and
`Process` needs it.  `RunInv` ties the run to a verified and processed event,
`AnswerInv` the answer, also one still under way, to the run.  `InboxKept` follows from it
step by step: the row a handler still holds is received and has no run, so its webhook's
fate is open when the second commit decides it, and no first commit finds the key of a
decided one free; `FatesRest` says that a commit about one webhook leaves the others' fates
alone, and `AnswerReady` that whoever replies has an answer.  `PeaceInv` says of a
received event that, as long as no process has died, a handler holds its row; it is
`NothingLostInPeace` one commit earlier.

`RemediationProofs`: `Accounted` adds to the accounting that the sets it is made of
are disjoint while the loop runs; `PatchIsTheDifference` that the workspace differs
from the copy in the patch's files only, which makes the shipped files a complete
description; `EditsInv` joins `Narrow` and `PatchSettled`, what each applied finding has
settled so far: a later template edits another file, or the same entry to the same
value, so it does not undo it.  The lemmas about templates carry the arithmetic:
what a bundle commits after flooring is at most what is sellable, and at most what it
was.  `Fits` says of one rule's surface what the suite asks of it, and is the language in
which rules, templates and suite are compared: a surface that fits gives its rule
nothing to find (`FitIsSilent`), a rule that was evaluated and found nothing has a surface
that fits (`SilentFits`), a template makes its surface fit (`SettledFits`), and the suite
is all of them (`AgreesByRule`).  From this come `ShippedIsSilentHolds` (a merged patch is
not the next run's incident), `CompletesConsistentHolds` (a run that completes at its
checks was right to) and `RepairIsEnoughHolds`, whose invariants `CurrentInv` and
`RepairInv` say that, while nobody edits the lab, the catalogue is the lab's and each
surface that can be repaired fits or has a finding still to come.

`LabCheckoutProofs`: `ReviewInv` joins `ReviewKept` with `Unleasable`, a branch that a
reviewer has moved is stale, so that no lease on it is granted; nothing a publisher
does makes it fresh again.  `AloneInv` says, while nobody overlaps, where the whole
checkout is at each step of its only publisher (`Stage`): which branch is out, what
index and files hold, and that they are a state of main, with the patch's files once
they are written.  A second publisher, a reset beside one, a death inside or a
checkout that cannot be put back ends `alone` for good.

`DataHubProofs`: `SeedInv` says that the definitions are in the graph or ahead of
everything still queued, and that after a whole seed each aspect is there or
coming.  `VerifyInv` rests on the aspects only growing: what the first of the two
looks saw is there at the second.  `ContextInv` does the same for a run between
`get_lineage` and `get_entities`, of the assets it is answered for.  `WriteInv` says of a write-back that its
operations are in order, recorded before they are judged, on grounded targets, and
that a read-back which passed saw the values; `MarkInv` ties what stands on an asset
to the run that may have put it there, and to a recorded call of a write-back that has
not died (`Traced`): a dead one never comes back (`StuckForGood`), so the row that is
stored at the end has its whole trace.

`HostProofs`: `TenantInv` says that nobody has found an organisation without a shop,
which is the one commit of both; that is why the missing unique key of `shops` does
no harm.  `ReadyInv` says of each step of a start what the steps before it have left;
a deployment or a death puts the start back to its beginning.  `AdmitInv` says that a
pending state is the one that was asked for and was not yet admitted, and that a
callback under way holds a state that is used up.  `StartInv` says that a start the
watchdog began has lasted at least as long as its cooldown has run, so that with
`MaxStart < Cooldown` it is over before the watchdog may restart again.

### Only model-checked

The liveness properties `EnterableMoves`, `UndisturbedSettles`, `Served` and `Heals`: the
prover has neither fairness nor ENABLED.  `RestsSettledHolds` and `OldestIsTakenHolds` are
the safety halves of two of them.  `KeepsMachine` and `IncidentMirrorsRun`, which are about
one thread at a time: a theorem about them would have to assume `MaxBusy = 1`, which the
code does not enforce and which is most of what they say.  Every other invariant, action
property and refinement that a passing run checks is also a theorem, without a bound on
how many threads are under way.

`ShippedIsSilentHolds`, `CompletesConsistentHolds`, `RepairIsEnoughHolds` and
`ShipsWhatPassed` are relative to the suite `Agrees`, which is in the lab's repository and is
modelled here as an external: it asks of each surface what its consumers would read.

## 5. What the models say beside the properties

Left open by the code, seen while modelling, and not properties of a run:

* *Statuses without an entry.*  A crash or a swallowed exception in
  `CHECKS_RUNNING`, `REMEDIATION_PLANNING`, `VALIDATION_RUNNING`,
  `PULL_REQUEST_CREATING` or `DATAHUB_WRITEBACK_PENDING` leaves the run there.  Also a
  plan that is refused because the lab has become consistent strands the run in
  `REMEDIATION_PLANNING`, which is why `UndisturbedSettles` assumes that the lab stays.
* *Exceptions that come again.*  `generate` catches a refused path and an unknown
  template only (`generator.py:132`).  A bundle of no units (`templates.py:93`), a YAML file
  as AI manifest (`templates.py:54`) and a target that is not there (`generator.py:138`) raise
  at every resume: the run stays in `PATCH_GENERATING`, and a worker sweeps it again and
  again, until the lab changes.
* *Full sweeps.*  Every webhook leaves a run stuck in `SIGNATURE_VERIFIED`; twenty of
  them fill every sweep (`worker.py:88`), which is the premise of `Served`.
* *Cancellations.*  `transition` tests the edge from the status its session loaded,
  so a driver that loaded the run before an operator cancelled it drives it on, and
  nothing raises, against `workflow.py:3`.
* *Overlapping sweeps* both claim a run that both selected, against `worker.py:9`.
* *Take-overs.*  The API's tasks never take a lease, so a sweep can take a run over from
  one of them without any crash or fault.  If both reach the plan, the second insertion
  can leave the run in `REMEDIATION_PLANNING`; if the worker enters after the patch, it holds
  none and can leave the run in `VALIDATION_RUNNING`.  `TakenOver` is these two.
* *Webhooks.*  A delivery that is refused uses its key up, also when only the process
  lacked the secret (`main.py:524`): its repetition in order is answered as a duplicate,
  and `Inbox` never reopens a refused webhook.
* *Incidents.*  `VALIDATION_FAILED` leaves the incident at *fixing*, since that
  transition has no `follow_run`, against `incidents.py:8`; and `open_for_run` looks
  and inserts in two statements (`incidents.py:50`), so a racing worker can add a second.
* *The plan and the patch.*  The patch is made from the findings of a second run of
  the rules; the approved plan has no influence on it (`templates.py:5`).
* *Approvers.*  `planner.py:181` takes the maximum of severities as strings, so an
  owner's approval is required only when every finding is critical.
* *Findings.*  A rule that errs or is skipped yields no finding, and a run without
  findings completes; only if every rule was evaluated, on the current catalogue, is the
  lab consistent then (`CompletesConsistentHolds`).  The inventory rule looks at every SKU while its template edits
  the change's only.  The pull request lists what was skipped and why (`pr.py:142`), but not
  what was rejected, which only the stored artifact has.  A feed item that follows the catalogue may be pinned by a patch.
* *DataHub.*  `COMMERCE_LAB_OK` does not imply `comgu.authority`: the tag's name also
  contains "authoritative".  `--reset` leaves the tag *remediated*; a new seed never
  takes an owner away.  Document and owner are verified by the tool's success
  (`writeback.py:259`), and the read-back checks that a property is there, not its
  value.  An older run's pull request URL may stand beside a newer `last_run`.  An
  entity that `get_entities` omits shrinks the blast radius without a word, down to
  nothing; only the source, left out, stops the run (`require_authority`).
* *The trace.*  It is a list in memory (`mcp_client.py:340`) and is stored after
  `write_back` has returned (`runner.py:409`).  A process that dies inside leaves values in
  DataHub, no trace of them anywhere, and a run in `DATAHUB_WRITEBACK_PENDING`, from which
  no driver goes on.
* *Checkout.*  A death inside a publisher leaves a branch and staged files that the
  next one may carry along; a lost answer to a push makes every retry fail.
* *Install.*  A callback of another shop uses the state up.  A start marks connectors
  healthy without a probe, over a test that failed.
* *Watchdog.*  A DataHub that runs without answering is not healed, since
  `docker start` does nothing to a running container (`watchdog.sh:58`), so `Heals` is
  about stopped ones; Caddy is restarted at its first failure, not its second
  (`watchdog.sh:7`); failure counts outlive a restart.

## 6. Not modelled, and what is left

Not modelled: web pages, screenshots and the film; schema tooling, provisioning and
the one-shot scripts other than `issue_token`; token signing; the routes that only
read; the wording of events, summaries, prompts and pull requests; redaction and the
environment of the validation's subprocess; `fetch_assertions`.

Left, in order of importance:

1. The deletion of a run under its drivers by `demo_reset` (`main.py:728`), for which
   `RunLifecycle` needs rows that may vanish.
2. Safety cores of the remaining liveness properties: for `EnterableMoves` that a run in
   a status with an entry is driven, free, or held by a lease that expires; for `Heals` that
   a failure is counted until it is acted on.
