# Verification of the OTA API

This directory specifies the core of the OTA API (`src/src`), model-checks it
with TLC on small instances and proves its safety properties with TLAPS for
every instance: the publish task worker, the release catalog and the sockets a
release is pushed to, the application write transaction with its audit, the
life of a release from draft to policy change, the pending message of a target,
the decision which release a client is offered, the reports of the clients, and
what operators set up with the command line: applications and access keys.
Paths below are relative to the repository's `src/` directory.

    tlc -workers 2 -config PublishTaskAttempts.cfg PublishTask.tla
    tlapm PublishTaskProofs.tla

## 1. Inventory

The service is one NestJS process (single instance, `docs/DEPLOYMENT.md`) over
MySQL and Socket.IO; the operations CLI (`scripts/ota.ts`) and a restarted
process are other clients of the same database. What makes it hard: every
handler is a chain of `await`s that interleaves with every other, each database
call can fail or be applied with its answer lost, the process can die between
any two of them, and two kinds of actors (the recovery loop and the management
requests) execute the same tasks.

| Component | State | Operations | Interacts with |
| --- | --- | --- | --- |
| Publish task worker (`jobs/publish/`) | `*_publish_task`, `*_publish_task_log` rows; `recoveringTasks`, executions in memory | `execute`, `claimTask`, `renewTaskLease`, completion, failure, `recoverTasks` | gateway (dispatch), registry (ready applications, catalog revision) |
| Realtime gateway (`realtime/gateway`, `realtime/subscriptions`, `realtime/dispatch`) | connections, subscriptions with generation and revision, delivered releases, dispatch metrics, all in memory | connect, disconnect, app/userId/uniqueId subscribe and unsubscribe, ack, `dispatchApplicationUpdate`, `emitCurrentDecision` | catalog, update decision, messages |
| Release catalog (`updates/catalog`) | 5 s cache and the load in flight per application | `loadCatalog`, `invalidate` | REPEATABLE READ snapshot of the application's rows |
| Update decision (`updates/decision`, `updates/update-query.service.ts`, `contracts/version.ts`, `contracts/user-id.ts`) | none | `resolveUpdate`, `compareVersions`, `userIdMatchesContext` | catalog |
| Application write (`infrastructure/persistence/application-write-transaction.ts`, `audit/application-write-audit.ts`, `audit/release-success-audit.ts`) | named lock, one transaction, `*_audit_log` rows, tracked outcome | `withApplicationWrite`, `withAuditedApplicationWrite` | releases, registry |
| Releases (`releases/`) | drafts, releases, audiences, artifacts, policy revision | `createDraft`, `updateDraft`, `publish`, `replaceUsers`, `changeScope`, `setEnabled`, `redispatch` | application write, tasks, catalog |
| Application registry (`applications/`) | `ota_applications` (status, prefix, catalog revision) | `prepare`, `requireReady`, `listReady`, `incrementCatalogRevision`, `allocatePrefix` | every other component |
| Messages (`messaging/`, `manage/messages`) | one pending message per target | create (replace), query (expire), ack | gateway |
| Telemetry (`telemetry/`, `infrastructure/persistence/sql-telemetry.repository.ts`) | success, error and error-group rows, advisory locks | `status` and `applicationError`, with or without an idempotency key or a record to update | releases, registry (ready) |
| API keys (`auth/`, `guards/`, `scripts/ota.ts`) | keys, grants, audit | create, grant, ungrant, revoke, authenticate, `markUsed` | registry |
| Audience diff (`audit/audience-change.ts`, `releases/release-audience.ts`) | none | `planAudienceChange`, `normalizeAudience` | releases |
| Artifacts (`infrastructure/oss`) | artifact rows, OSS objects | upload, lock, publish | releases |
| Admin queries, statistics, controllers, DTOs, config, CLI, migrations, middleware | none of their own | reads, parsing, wiring | |

How a release flows through them: a client edits a draft (Releases), publishes
it in an application write (named lock, transaction, success audit, new catalog
revision, new task row), the writer invalidates the catalog, the recovery loop
or the request itself executes the task, and the execution loads the catalog,
decides per subscriber and pushes in chunks through the gateway. Subscriptions
run beside all of this and read the same catalog.

### What is hard in each, and what makes it correct

- **Publish task worker.** An inline execution, the recovery loop and a restarted
  process work on the same row; leases expire while an execution still sends;
  the answer of a commit is lost. Correct means: at most one open attempt, and
  that one holds the lease; a superseded execution writes nothing and sends at
  most the chunk already released; a verdict is final; success is at the
  revision that was claimed; every task is decided in the end.
- **Release catalog.** A load that began before an invalidation settles after it.
  Correct means: nobody gets a catalog from before an invalidation or older than
  one handed out, and everyone who joined a load is answered.
- **Realtime gateway.** Handlers await the catalog while the subscription they
  began with is replaced; dispatches of two revisions overlap. Correct means: no
  push for a context the socket no longer has, no record for a dead
  subscription, and once everything settles the socket shows what the catalog
  offers.
- **Application write.** COMMIT may be applied and its answer lost; a session that
  dies loses its lock while its client goes on. Correct means: no failure audit
  for a committed operation, one live session past the lock, commits only into a
  ready application, and the lock always comes back.
- **Releases.** Requests are repeated, and clients change what they read earlier.
  Correct means: drafts, releases, tasks, artifacts and audits tell one story.
- **Messages.** Storing and emitting are two steps, so are joining and replaying.
  Correct means: who subscribes gets the pending message, and an acknowledgement
  or expiry never removes a later one.
- **Update decision.** Versions of different length are ordered as strings.
  Correct means: the order is total, the choice is unique and does not depend on
  the order of rows, and an installed update is never offered again or undone.
- **Telemetry.** A client that got no answer sends its report again, also while the
  first is still under way on another connection. The advisory lock of the key is
  taken before a READ COMMITTED transaction that reads, decides and writes.
  Correct means: one row per key and per error group, answers that say what is
  stored, every answered error counted once, a report with a key never changed,
  and no lock left behind by what fails.
- **Registry and API keys.** Every command is a process of its own; it may prepare
  applications for minutes, under a named lock each, before the transaction that
  changes the key. Prefixes are read without a lock; requests read a key without
  one. Correct means: applications never share tables; a key is granted what is
  ready at that moment and never too much, and nothing once it is revoked; its
  audit is the history of its grants; who is admitted had the grant.
- **Audience diff.** The detail of an audience audit is cut into parts. Correct means:
  the parts add up to the change, with nobody lost or named twice where they meet.

`PROJECT.json` lists every hazard at its line with the properties that cover it.

## 2. Modules

| Module | Models | Extends / uses |
| --- | --- | --- |
| `PublishTask` | the publish task worker and its rows | |
| `TaskOutcome` | what the task rows promise a reader of the administration API | refined by `PublishTask` |
| `ReleaseCatalog` | cache, joined loads, invalidation | |
| `CatalogPromise` | what a caller of `loadCatalog` may rely on | refined by `ReleaseCatalog`, extended by `RealtimeDispatch` |
| `RealtimeDispatch` | sockets, replays, recomputations, dispatch in chunks | `CatalogPromise` |
| `UpdateDecision` | `resolveUpdate` and version comparison, as operators | used by `MCRealtimeDispatch` |
| `ApplicationWrite` | named lock, transaction, audit, preparation | |
| `AuditedWrites` | what an operation id stands for, to its client and to an auditor | refined by `ApplicationWrite` |
| `ReleaseLifecycle` | drafts, releases, policy revisions, audiences, artifacts, audits | rests on `ApplicationWrite` |
| `ReleaseLog` | the catalog as a log of its changes | refined by `ReleaseLifecycle` |
| `AudienceChange` | `planAudienceChange`, as operators | extended by `ReleaseLifecycle` |
| `PendingMessage` | the pending message of one target | |
| `Telemetry` | reports under advisory locks, on the connections of a pool | |
| `ReportStore` | what reports come to, for the clients that send them | refined by `Telemetry` |
| `Provisioning` | registration of applications, access keys, requests that present a key | rests on `ApplicationWrite` |
| `KeyLedger` | what operators and requests may take keys and applications for | refined by `Provisioning` |
| `MC...` | instances for TLC: symmetry, the decisions, drafts and commands that are submitted | |
| `UpdateProofs` | theorems about `UpdateDecision` and `RealtimeDispatch` | TLAPS |
| other `...Proofs` | theorems about the module of that name | TLAPS |

Where two components meet, one is replaced by what it promises. A socket handler
awaits `loadCatalog`: `RealtimeDispatch` is built on `CatalogPromise`, and
`ReleaseCatalog` is checked and proved to implement it. A policy change is many
statements under a named lock: `ReleaseLifecycle` makes each transaction one
action, and `ApplicationWrite` shows why that is sound (one live session past
the lock, and an outcome that agrees with the database). What a client is
offered is a table in `RealtimeDispatch`, computed by `UpdateDecision`. The audits
of a release carry their detail in parts: `ReleaseLifecycle` extends
`AudienceChange` and checks the parts of the last audience audit of each release.
`Provisioning` takes several applications and leaves out what `ApplicationWrite`
says of one: how its tables are built, and the audit of its preparation.

### How state and actions correspond to the code

`PROJECT.json` maps each definition to its lines. In outline:

- **`PublishTask`** (`jobs/publish/publish-task-worker.service.ts`,
  `publish-task-policy.ts`). `task` and `log` are the rows; `lease_until` and
  `next_run_at` are Booleans, `live` and `due`. `exec` is the memory of each
  running `execute`: those of management requests (`Inline`) and the one of the
  recovery loop. `Claim`, `ClaimExhausted` and `ClaimRefused` are the transaction
  of `claimTask`; `Renew...` the lease check with its checkpoint before each
  chunk; `Send` a chunk; `Complete...` and `Fail...` the two ends. Each has a
  variant in which the database call fails, or is applied and its answer lost.
  `Restart` is a crash: memory is lost, rows stay. Every transaction reads under
  row locks what it decides on, so it is one action; between two of them
  everything may happen.
- **`ReleaseCatalog`** (`updates/catalog/release-catalog.service.ts`). `cache` and
  `active` are the two maps, for one application; `flight` the loads begun,
  disowned ones included. `Ask` and `AskForced` are `loadCatalog`; `Read` the
  snapshot, `Settle` what runs when it answers (cached and answered, or retried
  when the load is no longer the active one). `Commit` and `Invalidate` are the
  writer, `WriterFails` one that never invalidates.
- **`RealtimeDispatch`** (`realtime/gateway/realtime.gateway.ts`,
  `realtime/subscriptions/connection-subscription.store.ts`). `conn` is the store
  with its subscription revision, `delivered` the map `deliveredReleases`;
  `pending` the handlers that await the catalog with what they captured. The
  execution of a task is reduced to its order: claim, forced load, lease check,
  chunk, ..., completion or failure.
- **`UpdateDecision`** (`updates/decision/resolve-update.ts`, `contracts/`). One
  operator per function; a version is three numerals, a numeral a sequence of
  digits, and a comparison is the one of lengths and then of strings in the code.
- **`ApplicationWrite`** (`application-write-transaction.ts`,
  `application-write-audit.ts`, `application-registry.service.ts`). One request
  per operation with its step, phase (business write, failure audit) and tracked
  outcome; the preparation with its own steps. `Disconnect` kills a session:
  MySQL frees lock and transaction, the client finds out at its next call.
- **`ReleaseLifecycle`** (`releases/release-draft.service.ts`,
  `release-management.service.ts`, `release-audience.ts`). Rows as records, the
  audits as history; `manager` is a client that reads detail and users of a
  release in two requests and then changes its audience with `expectedRevision`.
- **`PendingMessage`** (`messaging/`, the message paths of the gateway). `row` is
  the row of one target; `sender` how far each sending request has come;
  `request` the subscribe calls and the query each awaits; `got` is the history
  of what a socket was emitted while subscribed.
- **`AudienceChange`** (`audit/audience-change.ts`). The differences as a sequence,
  the positions of each part, the parts; the order of the users is arbitrary.
- **`Telemetry`** (`infrastructure/persistence/sql-telemetry.repository.ts`,
  `telemetry-write.mapper.ts`). A session of the pool goes through GET_LOCK and
  the application's row (`Start`), one locking read (`RefuseRecord` ... `NewGroup`,
  one action per outcome), the insert or update (`Write`), `Commit` and the
  `finally` (`Finish`). `row` is what it is about to store, `reports` what is
  committed: READ COMMITTED shows no other session an uncommitted row, so what
  keeps two writes apart is only the locks, which are modelled with their reach:
  the record, the unique index of a group, or, for `LOWER(report_id)`, which no
  index serves, the whole table. `Cut` is a connection lost while a statement is on
  its way: the server may still commit (`Commit`) or ends the session (`Drop`).
- **`Provisioning`** (`auth/api-key-management.service.ts`, `api-key.service.ts`,
  `guards/auth.guard.ts`, `applications/application-registry.service.ts`,
  `scripts/ota.ts`). One command per process: `Inspect` and `Measure` are what
  key:grant reads before it prepares; `PrepareNext` ... `Build` one preparation;
  `LockKey`, `Check` and the two commits the transaction on the key, with the rows
  it has locked in `keyLock` and `appLock`. A request arrives, is authenticated by
  one statement and marks the key as used.

## 3. Abstract specifications

- `TaskOutcome`: a task is submitted once, tried a bounded number of times, one
  attempt at a time; each attempt gets one verdict; a task fails only when no
  attempt is left. `PublishTask` implements it with `outcome` read off the task
  row and `verdict` off the log rows (`ImplementsTaskOutcome`, run
  `task_attempts`, and proved).
- `CatalogPromise`: an answer is no older than the last invalidation and no older
  than an earlier answer. `ReleaseCatalog` implements it
  (`ImplementsCatalogPromise`, run `release_catalog`, and proved).
- `AuditedWrites`: an operation is applied once or audited as failed once, never
  both, only to an application that is ready, and not at all once its client has
  been answered; who is told `ok` is right. `ApplicationWrite` implements it with the
  committed change and the failure audit as the two outcomes
  (`ImplementsAuditedWrites`, run `application_write`, and proved).
- `ReleaseLog`: the catalog is a log to which every change appends one entry; a
  release is published by its first entry, with a number above all others, its
  policy counts its entries, and an entry says what has changed. `ReleaseLifecycle`
  implements it with the tasks in the order of their revisions as the log
  (`ImplementsReleaseLog`, run `release_lifecycle`, and proved): who replays the
  tasks knows what became of each release. It does not say which audience a change
  leaves; `AudienceIsAudited` does.
- `ReportStore`: a report is stored once, one that repeats a key adds nothing, a
  stored report with a key never changes, an error group counts each of its reports
  once, a client is told of a row that answers what it sent. `Telemetry` implements
  it with the rows committed and the answers given (`ImplementsReportStore`, run
  `telemetry`, and proved).
- `KeyLedger`: every change of a key is one step that is audited with it, grants
  only applications that are ready, exceeds no limit and leaves revoked keys alone;
  tables belong to one application for good; a request is permitted by one look at
  the ledger. `Provisioning` implements it with its rows, and with the requests that
  may go on as those permitted (`ImplementsKeyLedger`, run `provisioning`, and
  proved).

## 4. Runs

Deadlock is not checked: in every instance clients may stop asking and the
bounds run out. That nothing waits for ever is what the liveness properties say.

| Run | Instance | What it shows |
| --- | --- | --- |
| `task_attempts` | one task, an inline execution and the recovery loop, two attempts, two chunks, two faults | an execution that was taken over writes nothing and sends one chunk at most, checkpoints keep up, `TaskOutcome` is implemented, the task is decided and every pass ends |
| `task_error_code` | one task, one fault | finding 1 |
| `release_catalog` | two callers, three loads, two commits, three invalidations, two faults | `CatalogPromise` is implemented, every caller is answered or rejected |
| `dispatch_handlers` | one socket, with and without user, two subscriptions, one query of its user, two overlapping publications with a retry each | no push of a context the socket has left, no record of a dead subscription, an outdated socket catches up |
| `dispatch_chunks` | two sockets in chunks of one, two overlapping publications with a retry each, one fault | what success of a task means for every subscriber, and convergence |
| `dispatch_flags` | one socket, one publication, a mandatory release for the user | finding 2 |
| `application_write` | two requests, two preparations, two faults | tracked outcomes agree with the database, writes are serial, `AuditedWrites` is implemented, all are answered and the lock comes back |
| `preparation_downgrade` | one request, two preparations, one fault | finding 3 |
| `release_lifecycle` | two releases, two users, one artifact, one client, three catalog revisions, audit parts of one user | drafts, releases, tasks, artifacts and audits agree; parts add up; no blind overwrite; `ReleaseLog` is implemented |
| `pending_message` | two messages, two sockets, two subscribe calls, two faults | a pending message reaches every subscriber, and only its own expiry or acknowledgement deletes it |
| `telemetry` | two connections, three requests of one key, one group, two contents and one record, one fault | one row per key and group, answers count, no clash of unique keys, `ReportStore` is implemented, every request is answered and leaves no lock |
| `provisioning` | two processes, three of eight commands, one key of at most two of three applications, two of which collide in their prefix, one request, one fault | audit and grants agree, own tables, revocation is final, admission had a grant, `KeyLedger` is implemented, every command ends |

**Why the bounds are enough.** Each hazard of these components takes two actors
and one fault, so the instances have two of what can race and one or two faults:
two attempts are one takeover, three loads are a disowned one, its retry and a
newer one, two revisions are a dispatch that is overtaken, three catalog
revisions are a publication, a change by the client that has read and one in
between; three reports are one that is stored and two that race to repeat, update
or count it; three commands are one that creates a key and two that change it at
once. A PATCH of the instance names the audience as a whole or leaves it; the
proofs allow any set of fields. For every mutant `PROJECT.json` names, a plausible
bug in that code, the run finds the violation within these bounds. All safety
properties of the passing runs are also proved without bounds (section 6).
Bounds named in the modules: `MaxFaults`, `MaxChunks` (`PublishTask`);
`MaxRevision`, `MaxInvalidations`, `MaxFaults` (`ReleaseCatalog`); `MaxRevision`,
`MaxSubscriptions`, `MaxQueries`, `MaxFaults` (`RealtimeDispatch`);
`MaxPreparations`, `MaxFaults` (`ApplicationWrite`); `MaxRevision`, `MaxSequence`
(`ReleaseLifecycle`); `MaxFaults` (`PendingMessage`); `MaxRequests`, `MaxFaults`
(`Telemetry`); `MaxCommands`, `MaxFaults` (`Provisioning`). `MaxAttempts`,
`BatchSize`, `ChunkSize`, `PartSize` and `MaxApplications` are parameters of the code
with smaller values than its own (`max_attempts`, `take(10)`, the dispatch chunk,
`AUDIENCE_AUDIT_PART_SIZE`, `MAX_API_KEY_APPLICATIONS`).

**Fairness.** Every run without a liveness property has none.

- `PublishTask`: weak fairness of the recovery pass (the poll timer fires again
  after every pass), of each execution (the event loop runs what was started; a
  database call answers or fails) and of time (a live lease ends when it is not
  renewed, a retry becomes due). Insertions, restarts and faults have none;
  faults are finitely many.
- `ReleaseCatalog`: the database answers every load, or the query fails.
- `RealtimeDispatch`: the database answers, and the recovery loop executes what is
  open (what `PublishTask` shows it does).
- `ApplicationWrite`: every call a client has made returns or throws. A request
  may never begin.
- `Telemetry`: the process and the server go on with each write; GET_LOCK and row
  locks are waited for with a timeout (10 s, `innodb_lock_wait_timeout`), so a
  wait always has an end, and a session whose client is gone is ended by the server.
- `Provisioning`: every statement is answered or times out, and a locked row is
  free once its transaction has ended. No command must begin, no application need
  be ready, and a killed process frees its locks.

## 5. Findings

1. `task_error_code`: `execute` takes an error for a lost lease when its message
   includes `lease` (`publish-task-worker.service.ts:174`), and `release` does:
   'Application release schema is incomplete' is recorded as 'Publish task lease
   was lost' while the lease is live.
2. `dispatch_flags`: `docs/SDK_INTEGRATION.md:88` says that the order of
   subscribing application and user makes no difference. The recomputation emits
   nothing when the selected release is the one told before
   (`realtime.gateway.ts:501`), although its mandatory flag depends on the user
   too (`resolve-update.ts:143`): a client that subscribes the application first
   is not told that the update has become mandatory.
3. `preparation_downgrade`: a test of `prepare` says that it does not downgrade a
   ready application (`test/application-registry.service.spec.ts:71`), but
   `shouldMarkFailure` is set before the row is read
   (`application-registry.service.ts:119`), so one failed read takes it out of
   service.

Met while modelling, without a run: a replay of `createDraft` with its
idempotency key compares with the edited draft, so after another client's PATCH
it is refused; an application called `ota` has the prefix `ota`, so its audit table
has the name of the global `ota_audit_log`, and `CREATE TABLE IF NOT EXISTS`
(`application-registry.service.ts:435`) takes that for its own; `replaceUsers` keeps a list of users on a published public
release, for a later change of scope; a replayed message may be emitted after a
newer live one (no order is promised); `docs/ADMIN_API.md:156` names a skip reason
`base_version_mismatch` the code does not have.

## 6. Proofs

Each proof module states one inductive invariant, proves it for the initial
states and every action, and derives the properties from it. No theorem assumes
more than the named ASSUMEs on the constants.

- **`PublishTaskProofs`**. `RunningLogHoldsLease` is not inductive: a late worker
  might write. The invariant adds what the memory of an execution knows about the
  rows (`ExecInv`: the token it holds names a log row that exists, at the revision
  it was claimed at), that no two executions share an attempt (`OneWorker`), and
  that a superseded execution has sent at most one chunk and is about to be
  refused (`LateInv`). `RowStep` says what a transaction may do to rows it does not
  own; every action is shown to be one. Proved: types, one open attempt, the log
  is complete, one success, no early failure, one late chunk, final verdicts,
  lasting checkpoints, fencing. `SentInv` relates what an execution has sent to the
  counters of its row, step by step, and gives `CheckpointWithinChunk` and that a
  success is at the claimed revision and without an error. `RetriesLeft` (a task
  that waits for a retry has an attempt left) is what the refinement of
  `TaskOutcome` needs besides: then every transaction is a submission, the beginning
  of an attempt, a decision, or nothing a reader of the rows can tell (`Told`).
- **`ReleaseCatalogProofs`**. `CatalogInv`: cache and active load are no older than
  floor and last answer, and the cache is empty while a load is active. From it,
  fresh cache and the refinement of `CatalogPromise`, step by step.
- **`ApplicationWriteProofs`**. `Sound(w)` ties a request's step to lock, readiness
  and commit; the point is that `attempted` is set before COMMIT is sent, so an
  outcome is never called rolled back once it may have been applied. Proved: true
  audits, true outcomes, serial writes, tables when ready, commits while ready. The
  same invariant carries the refinement of `AuditedWrites`: a commit that is applied
  decides an operation nobody has decided (`CommitDecides`), only the end of a request
  answers (`ReleaseReplies`), and no other step is noticed. Also: whoever holds the
  named lock still runs and is on its way to release it (`LockRuns`), and a request,
  its failure audit included, takes sixteen steps at most (`RequestsAdvance`).
- **`ReleaseLifecycleProofs`**. The steps are reduced to six kinds (draft edited,
  published, policy changed, ...) and each part of the invariant is shown for each
  kind. `ViewsAreDated` carries `NoBlindOverwrite`: what a client has read in two
  requests is right if the revision is still the one of the first. The parts of an
  audit rest on arithmetic alone: every position of a sequence lies in exactly one
  part (`SharedOut`), and a part has at most `PartSize` of them (`PartLength`), for
  any part size and any finite set of users. For `ReleaseLog`, a revision has one
  task, so the task inserted with the next revision is the entry appended to the log
  (`LogAppended`), and each kind of step is one kind of entry or changes neither the
  log nor a release. All eight properties of the run are proved.
- **`PendingMessageProofs`**. `HandlersRemember` (a handler deletes only what it
  found expired) and `RowHasSender` make `PendingReachesSubscribers` inductive.
- **`TelemetryProofs`**. `SessionInv` says what each session has read and what it is
  about to store, also that a session past GET_LOCK holds the lock of its target, and
  `Apart` that two sessions lock no row in common: what a session has read is then
  still so when it writes. From these, the three invariants of the run and
  `KeyedIsFinal`. `ReportStore` needs more of a session, on top of that invariant
  (`StoreInv`): why the row it is about to store is there (`Origin`: the first of its
  target, one more of its group, or an amendment), that it answers the request
  (`Named`), and, while the request is under way, that it was told nothing yet. A write
  takes five steps at most (`WritesAdvance`), and a session only waits for sessions
  nearer to their end (`WaitsForward`, from `LockOfRunner`), so no circle of waits forms.
- **`ProvisioningProofs`**. A command relies on the rows it has locked (`CmdInv`), and
  every step keeps what the other commands rely on (`Apart`, `Rely`). A request
  that was admitted found its grant between arriving and being read, so the audit
  has it after one of its rows since then (`ReqInv`). `KeyLedger` needs that who
  prepares an application holds its preparation lock until it is done, and inserts
  only what is not registered (`AloneInv`): a prefix, once given, is never replaced.
  All safety properties of the run are proved. Locks are waited for in one order
  (`WaitsForward`): a preparation lock with nothing in hand, a key before its
  applications, and the rows of one statement in the order of their names
  (`ORDER BY app_name`, one step of the model), so commands never deadlock.
- **`UpdateProofs`**, on the decision. Numerals compared by length and then as
  strings are totally ordered (the first position where two differ exists because
  the natural numbers are well-founded), hence versions and candidates; so a
  decision names at most one release, and exactly one when any applies (`OfferIsMade`:
  in a finite catalog a candidate with the fewest others ahead of it has none);
  installing it is progress: no release is
  offered afterwards that the client had or that leads back, whatever is published
  or disabled meanwhile. The last rests on the client reporting its installed
  release sequence as `docs/SDK_INTEGRATION.md:23` asks.
- **`UpdateProofs`**, on the push. `Captured` says that what a handler or a dispatch
  has captured of a connection is what it is subscribed with now, or carries a
  revision it will never have again (`StillFaithful`): hence `NoDeadDeliveries` and
  `PushesMatchSubscription`. `Converged` is far from inductive: it says nothing
  before all is settled. What every step keeps is `StaleIsOwed`, that a socket whose
  last word is out of date, with no handler under way, is owed the present offer by
  a task: one whose execution is not done with this subscription, or, while nothing
  executes, any unfinished one. A late answer of the catalog may make a socket stale
  at any time; `LagIsOwed` says that this only happens while such a task exists,
  since every execution begins by invalidating the catalog. A task that succeeds is
  done with every subscription (`Served`), so another one owes what is still stale:
  that gives `SuccessReachesEveryone`, and `Converged` when all have succeeded.

**Only model-checked, out of reach of the prover**: all liveness
(`EventuallyFinished`, `RecoveryPassEnds`, `EveryCallerServed`,
`StaleSocketCatchesUp`, `NobodyIsStuck`, `EveryReportAnswered`, `EveryCommandEnds`),
because fairness speaks of ENABLED. What `NobodyIsStuck`, `EveryReportAnswered` and
`EveryCommandEnds` need besides fairness is proved where it is a safety property: no lock
is left behind, no circle of waits, and a bound on the steps of a write. Every safety property of a passing run is proved,
and so is every refinement.
**Proved, and in no run**: the other type invariants, and
`RunningLogHoldsLease`, `AttemptsMatchLog`, `SucceededOnce`, `FailedOnlyExhausted`,
`VerdictsAreFinal`, `CheckpointSurvives`, `SuccessIsCurrent`, `CacheIsFresh`,
`ReadyHasTables`, `FailedAuditIsTrue`, `CommitsWhileReady`, `KeyedIsFinal` and
`OnlyReadyIsGranted`, which the properties of the runs and the refinements imply or rest
on.

## 7. Abstractions and what is not modelled

- `PublishTask`: one application; time is lease live or expired, retry due or not.
- `ReleaseCatalog`: a snapshot read is one step (REPEATABLE READ), so a catalog is
  its revision; the continuations of a settled promise run before anything else.
- `RealtimeDispatch`: one application, one user; no lease expires while its
  execution is alive (takeovers are in `PublishTask`) and no restart, which closes
  every socket; in the checked instances a socket keeps its profile, and what
  changes its context is its user and subscribing again.
- `ApplicationWrite`: the prefix of an application never changes and its schema
  version is 1 once it is ready; the parts of a success audit are one row (they are
  in `AudienceChange`).
- `ReleaseLifecycle`: idempotency keys of drafts (the unique index keeps a key to
  one draft, whatever the code does), the limit of 5000 users, the matching of
  user ids to platforms and the checks of URLs are left out. A publication that
  rolls back has used a sequence number, as AUTO_INCREMENT does.
- `PendingMessage`: one target, since targets share nothing; joining a room of the
  in-memory adapter waits for no other event; a connection id is used once; a
  message whose upsert failed is not announced. Messages to a whole application
  are emitted and forgotten, and left out.
- `UpdateDecision`: one application; the skip reason, which only metrics read, and
  the parsing of versions and user ids are left out.
- `AudienceChange`: the order of user ids and the limits on a stored audience.
- `Telemetry`: the validation of reports, and that success reports are a table of
  their own, since they share no row, key or lock with failures. An error group
  keeps no details here, which the last report replaces. What a failed operation
  has locked is free a little before its rollback is over.
- `Provisioning`: names, presets and secrets; the reads of the command line; the
  schemas that a prefix stands for; the audit of a preparation (in
  `ApplicationWrite`). A request presents its key with the right secret.
- Not modelled: dispatch metrics (sums kept in memory, whose fate at a checkpoint is
  in `PublishTask`), several applications in one recovery pass or socket, messages
  to a whole application. Administration reads, HTTP surface, DTOs, configuration,
  option parsing and migrations have no state of their own; the object store is
  external.

## 8. Plan

Worker, catalog, dispatch, write, lifecycle, messages and decision came first, then
telemetry, audience differences and provisioning. What is left, in this order:

1. Several applications in one recovery pass, so that one whose execution throws
   holds up those sorted after it, and several applications on one socket.
2. Idempotency keys of drafts, with a client that repeats its creation while others
   edit the draft.
