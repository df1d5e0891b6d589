# Karmevo ERP: TLA+ specifications, model checking and proofs

This directory holds TLA+ models of the backend in `src/backend` (FastAPI,
SQLAlchemy, PostgreSQL, one database per tenant plus a shared registry), the
TLC configurations that check them, and proofs checked by TLAPS. Paths below
are relative to `src/backend/src/erp` unless they start with `migrations/` or
`docs/`.

`PROJECT.json` lists the components, the runs, the faults each property was
tried against, the hazards in the code, the theorems, and for every
definition the source lines it stands for.

Running: `tlc -config X.cfg M` checks a model (the run table names both
files), `tlapm MProofs.tla` checks the proofs of a module.

## 1. Inventory of the system

The backend is a modular monolith at its first stage: an API, an operator
command line, an outbox relay and consumers share one code base. There are no
business modules yet; the platform and the integration module carry all the
logic. Nothing is shared in memory between processes; they meet in the
registry database, in the tenant databases and at the broker. Within one API
process, threads share the router's pool cache and the key cache of the token
verifier.

| Component | State it keeps | Operations | Talks to | Hard part | Right when |
|---|---|---|---|---|---|
| Outbox and relay (`modules/integration/outbox.py`, `repository.py`) | rows of `OutboxEvents`: `attemptCount`, `dispatchedAt`, `lastError` | `Outbox.enqueue`, `OutboxRelay.run_once` | business transaction, tenant database, publisher | publish is outside the transaction; crash before commit, lost confirm, concurrent passes | publications are bounded, a mark is never ahead of the broker, what was tried in vain says why |
| Inbox (`EventInbox`) | rows of `ProcessedEvents` | `consume_once` | the handler's transaction | redelivery to several workers at once, a handler that fails after the claim | effects exactly once per consumer and event |
| Tenant relay pass (`TenantOutboxRelay`) | none between passes | `run_pass` | router, relay | one tenant failing in the middle of a pass | the others are served |
| Module catalogue (`core/modules.py`) | dependency graph, enable order | constructor, `dependencies`, `dependents` | start-up, tenant modules | cycles, shared dependencies | accepts exactly sound graphs, closure exact |
| Tenant modules (`modules/platform/module_state.py`) | rows of `TenantModules` | `enable`, `disable`, `enabled`, `require` | registry, guard, CLI | two operators at once | never a module without its dependencies |
| Provisioner (`modules/platform/provisioning.py`, `core/migrations.py`) | registry row (`databaseStatus`, `schemaRevision`), the database itself | `provision`, `complete`, `upgrade_all` | registry, database server, Alembic | failure between any two steps, two operators at once, lost database, re-run | ready means usable; re-running settles; the loop passes nobody over; no recorded database is created anew (which the code does not ensure of two processes, section 3) |
| Router (`modules/platform/tenant_db.py`) | LRU cache of pools | `for_tenant`, `evict`, `dispose_all` | registry, threads of the API | lock released while the placement is read; pools disposed of while in use | bounded, one pool per tenant, no leak, what is returned is cached |
| Token verifier (`core/security.py`, `core/deps.py`) | keys cached by `PyJWKClient` | `current_token`, `verify`, the key resolver | identity provider | key rotation, a JWKS endpoint that is down or answers with no JSON, clock | a good token is refused only for a cause that held while it was verified |
| Errors (`core/errors.py`) | none | exception to status | every controller | failures between two transactions of a request | 5xx only for what concerns this request: unreadable signing keys, the registry, its own tenant |
| Sessions and RLS (`core/db.py`, `core/rls.py`, `migrations/`) | settings of pooled connections, tenant rows | `tenant_session`, `platform_session` | every repository | connections outlive requests | no context leaks, no foreign rows |
| Request context (`modules/platform/context.py`, `dependencies.py`, `service.py`) | none; reads memberships | `choices`, `resolve`, `ModuleGuard`, `list_page` | registry, router | several transactions per request, caches shared with other requests | every answer is right for some instant of the request |
| Company pages (`modules/platform/repository.py`) | cursor at the client | `page` | tenant database | rows appear out of key order | no duplicate, nothing visible at the start missing |

Also there, and not modelled or only in part: audit trail and `Redactor`,
`Money`, settings, problem bodies, health probes, offline migrations, the
argument parser of the command line (section 7).

## 2. Modules

| Module | Models | State and actions |
|---|---|---|
| `EventQueues` | the events, the consumers and `queue`, one queue per consumer | no actions: what relay and inbox have in common |
| `OutboxRelay` (extends `EventQueues`) | one tenant's outbox and the relays on it | row state as committed (`attemptCount`, `dispatched`, `lastError`), per relay the locked `batch`, the rest of the loop (`todo`) and the uncommitted ORM objects (`loaded`, `marked`, `errs`). Actions: `Enqueue`, `EndBusiness`, `RunOnce` (the claim), `DispatchConfirmed` / `DispatchFailed`, `CommitPass`, `RollbackPass` |
| `EventInbox` (extends `EventQueues`) | consumers | `Receive`, `ConsumeOnce`, `CommitEffects`, `Ack`, `Abort`; the unique key makes a second claim wait for the first |
| `EventDelivery` | the promise of ADR-0005 | `Record`, `Apply` |
| `EventPipeline` (extends `OutboxRelay`, `EventInbox`) | composition of the two, sharing `queue` | `OutboxNext` takes the place of the inbox's `Publish`; a step of one leaves the other's variables alone |
| `TenantRelayPass` | a pass over all tenants | `RunPass`, `ListFails` (the registry gives no list), `RunOnce`, `Isolate`, `EndPass` |
| `SortedLists` | `sorted(...)` and `ORDER BY` | no state: `Ascending` |
| `ModuleCatalog` | constants: the accepted graph, its closure | no state |
| `CatalogBuild` | constructor and worklists, over every graph | `Validate`, `SortRound`, `Cycle`, `Sorted`, `Query`, `Pop`, `Answer` |
| `ModuleEnablement` | the promise of ADR-0009 | `Enable`, `Disable`, atomic |
| `TenantModules` | concurrent sessions | `Call`, `Lock`, `ReadEnabled`, `CommitEnable`, `CommitDisable`, `Reject`, `Abort` |
| `TenantProvisioner` | registry rows, databases, operator processes | one action per statement that commits on its own; `ListReady`, `Visit`, `EndUpgrade` are the loop of `upgrade_all`; `Fault` (an exception, a killed process, a failing registry) between any two; `Release`, `Lose`, `Restore` |
| `TenantDatabaseRouter` | cache and threads | `Hit`, `Miss`, `Place`, `LostRace`, `Install`, `Evict`, `DisposeAll`, `Dispose`; `Session` is the caller's work on the pool it was given, `Move` is the administrator |
| `TenantSession` | connections, settings, policies, rows | `Begin`, `TenantSession`, `PlatformSession`, `Select`, `Insert`, `Update`, `Commit`, `Rollback` |
| `TokenVerifier` | a request's token, the client's key cache, the realm | `Present`, `Lookup`, `Fetch`, `FetchFails`, `Decode`; `Rotate`, `Retire`, `ComeAndGo`, `Lapse`, `Tick` are the surroundings |
| `TenantRequest` (extends `TokenVerifier`) | requests that run at once, and the administrator | one action per transaction of a request; `Reject` is the validation of header and query, `Crash` a session that cannot be opened, `OpenPool` the miss of the router's cache; `Status` gives each answer its HTTP status |
| `CompanyPages` | a client's walk and inserting transactions | `Add`, `End`, `StartWalk`, `Page` |

Modules named `...Proofs` hold theorems, modules named `MC...` symmetry,
constants and, for `TenantRequest`, the initial states for TLC. Definitions commented with `Fault:` are not part of any
specification: each is a plausible mistake in the code next to which it
stands, and shows that a property notices it.

What is abstracted throughout: payloads, names, times and SQL text. An event
is its rank in the order of the claim query; a database's revision is a
number; a row is its table, tenant and identity. Kept are the order of steps,
what is committed with what, locks, guards, early returns and error paths.

How some details are represented:

* A relay pass is one transaction. The loaded ORM objects are flushed as
  absolute values at its end, so `CommitPass` writes `loaded`, not an
  increment. `RollbackPass` loses marks, errors and counts of the pass, but
  not the messages.
* A lost confirm is a failure whose message is in any subset of the queues.
* `FOR UPDATE SKIP LOCKED` passes over rows in the batch of any running pass.
* A session "cannot be opened" while its server fails, and equally while all
  connections of the process's pool (`pool_size` 2, `max_overflow` 3) stay in
  use for longer than the pool waits: `registryFails` for the registry,
  `failing` for each tenant's database. Connections are not counted; that a
  pool is exhausted is left to the surroundings.
* `INSERT ... ON CONFLICT DO NOTHING` waits while another transaction holds
  the same key uncommitted; `ConsumeOnce` is disabled for that time.
* `complete` loads the registry row in a transaction of its own before it
  looks at the server, and decides on that copy (`seen`). Alembic reads the
  version of a database before the transaction of its migrations
  (`StartMigration`, `ApplyMigration`): of two processes that read the same
  version, the one that commits last fails on the objects of the other.
* An operator process that dies, or cannot reach the registry to record an
  outcome, leaves the method with the rest of its loop (`Die`).
* `PyJWKClient` is external: a set of keys that lapses, and the keys it handed
  out. It keeps the sixteen latest of those; the instance has two keys. Whether
  the set survives a failed fetch is left open. A body that is no JSON raises
  an error that is no `PyJWTError`, passes the `except` of `verify` and ends
  in 500 (`endpoint = "broken"`).
* The engine of a disposed pool opens a new pool when a caller still uses it.
  Such pools are `strays`: nobody disposes of them, they go with the engine.
* FastAPI runs the dependencies of a dependency, then validates its own header
  and query: a request without a good token gets 401 before it gets 422, and a
  bad cursor is noticed after the tenant's database was found.
* `set_config(..., true)` changes `current` only; the end of a transaction
  restores `baseline`, what the connection keeps for its next user.
* Every registry read of a request is a transaction of its own; the
  administrator's changes fall between them.

## 3. Runs

| Run | Question | Bounds and why they suffice | States |
|---|---|---|---|
| `MCOutboxRelay` | two relays on one outbox | 3 events, batch 2: batches that overlap and a row left behind; 2 attempts: giving up; 1 rollback after publishing; 2 queues: a confirm lost after reaching one | 386,000 |
| `MCEventPipeline` | redelivery, refinement and delivery | 2 events with batch 1 so that an older failing event stands before a younger one; 2 workers, who claim the same key at once or one after the other; 1 pass rolled back, 2 failures or crashes of workers. Two relays are the subject of the first run | 149,600 |
| `MCTenantModules` | three operators, one tenant | a core module and a chain of three above it, so that direct and indirect dependencies differ | 40,400 |
| `CatalogBuild` | all graphs | 3 keys and an unknown one: all self-loops, 2- and 3-cycles, chains and shared dependencies | 135,900 |
| `TenantProvisioner` | failures, overlapping operators, upgrade, loss, repair | 2 tenants and 2 operators, three of both at a time (one tenant with two operators, or a loop over two tenants), 1 release, 1 loss and 1 fault at any moment: what goes wrong besides them is a lost race | 233,500 |
| `TenantProvisionerLoss`, `TenantProvisionerRace` | the sentence of ADR-0002 | counterexamples are expected: one process and a fault, or two processes and none | - |
| `MCTenantDatabaseRouter` | cache races, pools in use | 2 threads, 2 tenants, cache of 1, 3 pools: race on one tenant, eviction of the other, and a pool used after either | 690,600 or fewer |
| `MCTenantSession` | registry and tenant databases | 2 connections of `erp_app` and one of `erp_relay`, 2 threads, 2 tenants and 2 identities, one table per kind of policy | 530,000 |
| `MCTenantRequest` | requests, the administrator and the realm | 2 tenants, 2 requests, three kinds of behaviours. `Alone`: one request of every form on every initial registry, 2 changes (a change and its reversal), the other request without a token. `Pair`: two requests for the same or for different tenants, 1 change between any two of their steps. `Realms`: two requests with every token, right or with one flaw, 2 keys, 3 changes of the realm, time 0..2 with leeway 1; the registry rests, they are `GET /me/contexts` of an identity without memberships | 4,370,000 |
| `TenantRelayPass` | failing tenants | 3 tenants (before, at and after the failing one), 3 events, 2 changes | 140,100 |
| `CompanyPages` | paging while inserting | 5 keys, pages of 2: full pages, a page with one row more, a short last page | 12,200 |

`CHECK_DEADLOCK FALSE` is set where the system may stop: all events
dispatched and all changes spent, a catalogue refused, a request answered.
The router, sessions, module changes, provisioner and page walks always have a next step and are checked for deadlock.

The bounds in guards are `MaxRollbacks`, `MaxFailures`, `MaxFaults`,
`MaxLosses`, `MaxHead`, `MaxActors`, `MaxPools`, `MaxChanges`, `MaxKeys`,
`MaxNow`, `MaxRealmChanges` and `MaxEvents`; `Flaws` and `Routes` are the
tokens and controllers asked about. A behaviour of `TenantRequest` starts with
any number of changes still to come, up to `MaxChanges` and `MaxRealmChanges`,
at any time up to `MaxNow`; `MCTenantRequest` starts from those of the three
kinds in the table (`MCInit` implies `Init`, the steps are those of the
specification), because all of them at once are more states than TLC can look
through. `MaxAttempts`, `MaxCached`, `BatchSize` and `Limit` are parameters of
the code.

Symmetry is used only in runs that check no liveness property, and only over
sets whose members the specification does not tell apart.

### What they show

* Publication is bounded by `max_attempts` plus the number of passes rolled
  back after publishing, however many relays run (`PublishBound`); a
  dispatched row is never touched again (`DispatchedIsFinal`) and was
  accepted by every queue (`DispatchedWasQueued`); what was tried in vain says
  why (`GivenUpHasError`).
* Effects happen exactly once per consumer (`ExactlyOnceEffects`), a message
  is acknowledged only when they are committed (`AckedWasProcessed`), nothing
  is lost between relay and consumer (`NoLostEvent`), and the whole pipeline
  implements the abstract promise (`DeliverySpec`). What is said of messages
  holds for failures within the retry bound of the worker loop: ADR-0005
  (line 9) ends the retries in a dead-letter queue, which is not modelled
  (section 7).
* Module changes are atomic (`AtomicSpec`) and leave dependencies on
  (`DependencyClosed`). The catalogue accepts exactly the sound graphs, and
  its orders and closures are exact.
* A ready tenant can be used (`ReadyIsUsable`), also when two processes worked
  on it at once, and re-running `complete` settles a tenant for good, whatever
  wreckage it finds and whichever process lost a race (`RerunSettles`), except
  where the database with a recorded revision is gone and has to be restored.
  Such a database is created anew only if it was lost under the hands of
  several processes (`OnlyTheCaughtAreRecreated`, see below). When
  `upgrade_all` returns, every tenant it found ready is at the head revision,
  or marked failed, or its database is gone (`UpgradeLeavesNone`). A loop that
  does not return, because the registry could not be reached to record an
  outcome, is not spoken of. `ReadyIsUsable` and `UpgradeLeavesNone` except the
  same tenants (`caught`): those whose database was lost while several
  processes ran and one of them was at work on it.
* The pool cache is bounded, leaks nothing and never offers a pool that was
  disposed of; `for_tenant` returns only pools that are cached and open at that
  moment (`GivenWasCached`), so a disposed pool is used only by callers that
  had it before.
* A good token is refused only if its key was not published, or was new to the
  process while the realm could not be asked, or the time was not right, at
  some instant of its verification; what the caches hold is never the reason
  (`TokenRefusedForCause`). This is "signing-key rotation needs no restart".
* No session sees, inserts or updates anything outside the context it asked
  for, and no tenant database holds another tenant's row.
* A request is served only for a tenant, and a module, that it was entitled
  to at some instant of its run, and refused only for a reason that held at
  some instant. A 503 means that its tenant was not ready. A 500 means that
  the JWKS endpoint answered with no JSON, that no session could be opened on
  the registry or on the database of its tenant (a failing server or an
  exhausted pool), or that the row of its tenant named a server this process
  does not know (`ValueError` of `TenantDbLocator.url`); the trouble of another
  tenant is never the reason (`RefusedForCause`).
* An unreachable tenant never keeps a pass from the tenants behind it, and a
  client's page walk shows what was visible when it started.

### Where code and documentation differ

ADR-0002 (line 32) says that a database that was migrated before and is now
missing is never silently re-created. The code recognises such a database by
the recorded `schemaRevision`, which `complete` writes last, after migrating
and binding (`modules/platform/provisioning.py:199-212`). A run that dies, or
fails to bind, in between leaves a migrated database without a recorded
revision; if that database is lost, the next run creates it again
(`TenantProvisionerLoss`). The tenant never was ready in that case, so no API
call ever wrote to it.

The same sentence fails of two processes, and there for a tenant that was
ready (`TenantProvisionerRace`). `complete` decides on the row it loaded in an
earlier transaction (`provisioning.py:194-201`). When a second process records
the revision after that and the database is then lost, the first creates it
again, empty, and calls it ready, although the registry held a revision by
then: `RecordedNeverRecreated` is violated. What the code does ensure of it is
`OnlyTheCaughtAreRecreated`, and as long as one process gives all the
commands, the sentence itself for every recorded revision
(`OneProcessNeverRecreates` in section 5).

A remark on `evict`: a thread between reading the placement and installing
its pool (`modules/platform/tenant_db.py:54-62`) is not seen by an `evict`
that runs meanwhile and installs the pool of the old place after it.
`QuietEvictRefreshes` therefore speaks of evictions that meet no install
under way.

## 4. Fairness

Four runs check liveness.

* `Delivered`: relays keep running passes and workers keep running
  (ADR-0005: the relay loops; consumers are worker processes). Weak fairness
  is on the progress of each relay and each worker as a whole. Nothing obliges
  a business transaction to commit, a publisher to succeed or a crash to
  happen; crashes are bounded, so an infinite crash loop is not a behaviour.
* `RerunSettles`: a process that is not killed goes on (weak fairness), and the
  operator re-runs `complete` for a tenant that is not ready. The second is
  strong fairness of `Repair`, because other commands may occupy the processes
  in between; it is an assumption on the operator, taken from the docstring
  "safe to re-run", and the property is what makes that advice true.
* `Drains` and `Terminates`: the relay process repeats its passes; a loop in
  the constructor or in `dependencies` runs on until it ends.

`Drains` says nothing about publisher failures, which do not raise out of
`run_once`; those are the subject of `Delivered`.

## 5. Proofs

The proofs hold for every value of the constants under the named assumptions
in the modules: numbers are natural numbers, batch size and attempts are
positive, core modules depend on core modules, the "no context" values are
not tenants or identities, tenants and operator processes are finite sets
(their numbers are counted), and so are the modules of a catalogue. Every
inductive invariant was first checked by TLC on the run of its component;
those of the provisioner and the router also on a larger instance (more
losses, faults and releases; three tenants, a cache of two and four pools).

* `EventPipelineProofs` has three parts.
  * The outbox by itself. `PublishBound` is not inductive: between `Dispatch`
    and `CommitPass` the committed counter lags behind. `CountInv` adds the
    shape of a pass (`PassShape`), that batches are disjoint, that a claimed
    row is still pending and its loaded counter is the committed one plus the
    attempt made (`ClaimedPending`), and that each event's publications are
    accounted for by the committed counter, the rollbacks, and at most one
    pass in flight (`CallsCounted`). The marks (`DeliveryInv`) and the errors
    (`GivenUpHasError`) are handled apart; `OutboxInv` is all of them.
    Theorems: `OutboxTypeCorrect`, `PublishBounded`, `DispatchIsSound`,
    `FailureIsRecorded`, `DispatchedStays`, `NoPassIsWasted`.
  * The inbox by itself. `WorkerInv`: an uncommitted claim is exclusive and
    of a key not processed; a finished worker's key is processed. Theorems:
    `InboxTypeCorrect`, `ExactlyOnce`, `AckIsSafe`.
  * The pipeline. Each half keeps its own invariant whatever the other does
    with the shared queues, and so its properties: the bound, the error of
    what was tried in vain and exactly-once effects (`HalvesKeepPromises`), and what is said of steps
    (`HalvesKeepTheirSteps`). `DispatchedWasQueued` does not carry over,
    since workers empty the queues; `NoLostEvent` takes its place. The glue
    says that what the relay has marked is queued or processed at every
    consumer and that workers hold committed events only. Theorems:
    `NothingLost`, `PipelineImplementsDelivery` (a business commit is
    `Record`, a worker's commit is `Apply`, all other steps stutter),
    `TypeCorrect`.
* `TenantModulesProofs`. Lemmas about the closure (it is closed; enabling
  with it, and disabling what nothing needs, keep a set closed). The
  invariant: lock holders are exactly the sessions between lock and end, the
  lock is exclusive, and what a session has read is still true when it
  decides. Theorems: `TypeCorrect`, `AlwaysClosed`, `CoreStaysOn`,
  `ChangesAreAtomic`.
* `SortedListProofs`, for the catalogue and the pages, whose answers are
  sorted lists. The catalogue: loops are actions, so what they compute
  follows from inductive invariants: `order` repeats nothing and is
  topological, and `remaining` is what it leaves of each `depends_on`
  (`OrderInv`); the search has found only transitive dependencies, and all of
  them but those behind the worklist (`SearchInv`). Two facts about finite
  sets are proved by looking at a smallest counterexample (the strict subsets
  of a finite set are well founded): a set of numbers has an ascending
  enumeration (`AscendingIs`), and where every module waits for one that
  waits, some module depends on itself (`WaitingIsCyclic`). The provers do
  not see into `SortSeq` and `SelectSeq`, so `SortedLists` defines `sorted`
  by `CHOOSE` (`Ascending`). Theorems: `TypeCorrect`, `AcceptedIsSound`,
  `OrderIsSound`, `AnswersAreExact`, `ConstructorRunsDown`, `QueryRunsDown`.
  With them, what `ModuleCatalog` assumes is what the constructor ensures.
  The pages: the cursor separates what the walk has shown from what it still
  owes (`WalkInv`), because a page is the least keys behind the cursor
  (`PageIs`) whatever was inserted since the last one. Theorems:
  `WalkTypeCorrect`, `WalkIsOrdered`, `WalkMissesNothing`.
* `TenantRelayPassProofs`. A tenant that was listed at the start of the pass
  and could be reached ever since is visited or still ahead in the loop
  (`Owed`); no backlog exceeds what was produced (`Produced`). Theorems:
  `TypeCorrect`, `PassServesAll`.
* `TenantSessionProofs`. Free connections have no context, a connection
  serves one thread, and an open session's context is the one it asked for.
  Theorems: `TypeCorrect`, `SessionsAreIsolated`, `WritesAreIsolated`,
  `DatabaseHasOneOwner`.
* `TenantProvisionerProofs`. That a ready tenant is usable depends on how far
  each of the processes working on it has come and on what it has seen.
  `IInv` says what a process at work counts on (`Relies`), that the row tells
  whether a revision was ever recorded (`RowTells`) and that what was
  recorded stays true of the database or of the backup it will be restored
  from (`RowHolds`), when a process may still be about to create a database
  (`MayCreate`), and that the tenants `upgrade_all` is done with are up to
  date or called failed (`Settled`). Theorems: `TypeCorrect`,
  `InvariantHolds`, `ReadyMeansUsable`, `RecreatedOnlyIfCaught`,
  `OneProcessNeverRecreates`, `NoneIsLeftBehind`, `CommandsRunDown`. They hold
  of every behaviour, with losses at any moment. What a loss during the race
  at `provisioning.py:201` brings about is said in the statements, as the
  exception of the tenants in `caught`; with one process `caught` stays empty,
  which is part of `IInv`.
* `TenantRequestProofs`, for any number of requests at once and the token
  verifier they use. The registry, the realm and the shared caches change
  under a request, and the properties speak of
  "some instant of its run". `IInv` keeps a witness for each thing the request
  has already established (`Witness`), that what the key caches hold was
  published when it was fetched (`KeysArePublished`), what a verified token
  was checked against (`Verified`), and the reason for each refusal
  (`Excused`). Theorems: `TypeCorrect`, `ServedOnlyEntitled`,
  `ChoiceIsTheCallers`, `GuardHolds`, `RefusalsHaveCause`,
  `TokenRefusalsHaveCause`.
* `TenantDatabaseRouterProofs`. A pool has one holder: the cache, or the
  thread that builds or disposes of it (`OneHolder`, `Building`);
  the cache has at most `MaxCached` entries, none twice and one per tenant
  (`Bounded`); every open pool is held (`Held`). The lemmas
  say what `Append` and `RemoveAt` do to such a cache. Theorems:
  `TypeCorrect`, `CacheStaysBounded`, `NothingLeaks`, `CacheIsOpen`,
  `EvictRefreshes`, `GivesOnlyCached`.

Every safety property and every action property of a passing run is the
subject of a theorem. Only model-checked are the liveness properties
`Delivered`, `RerunSettles`, `Drains` and `Terminates`: TLAPS does not prove
liveness under fairness, nor `ENABLED`. Of three of the arguments behind them
the safety half is proved, that a loop has a measure which its steps lower and
nobody raises meanwhile: `NoPassIsWasted` (a pass that commits uses up one of
the attempts of every row it claimed), `CommandsRunDown` (the statements of
`complete` and the rounds of `upgrade_all` never go back), and
`ConstructorRunsDown` with `QueryRunsDown`. That something takes the next step
is left to TLC.

No module declares a `RECURSIVE` operator; closures are defined by
quantification and loops are actions.

## 6. Plan

Built first, in this order: outbox and relay, inbox and pipeline (the
guarantee other modules will build on); tenant modules and catalogue;
provisioner; router; sessions; request, relay pass, pages. Then the
provisioner with several operators and tenants, the callers of the router, the
token verifier, failing servers and malformed requests, and requests that run
at once.

What is left of the models:

1. Composition of `TenantRequest` with `TenantDatabaseRouter` and
   `TenantSession`: a request on a pool of the old place of a moved tenant.
2. A release that changes the dependency graph under stored `TenantModules`
   rows (today the catalogue is a constant; ADR-0009 asks for a migration).

## 7. Not modelled

* Signature checks and the parsing of tokens are PyJWT's; `TokenVerifier`
  takes a token to have one flaw or none. The refusal of symmetric algorithms
  is a check of constructor arguments.
* Problem bodies of `core/errors.py`, schemas: formatting of answers. Unknown
  paths and methods never reach the code.
* `core/config.py` reads settings once. `/healthz` and `/readyz` answer from at
  most one statement and change nothing.
* `shared/money.py`, the `Redactor` of `modules/platform/audit.py`: pure
  functions without state or order, which unit tests reach; the rounding is
  `decimal`'s. `AuditTrail.record` is an insert in the caller's transaction, a
  row of `AuditEvents` in `TenantSession`.
* `cli.py` parses arguments, prints, and calls the provisioner and the tenant
  modules; which calls it makes is `Command` in `TenantProvisioner` and `Call`
  in `TenantModules`.
* Offline migrations render SQL.
* The broker and the worker loop are not in the repository; they are modelled
  from ADR-0005 and marked external. Its bounded retries with backoff and its
  dead-letter queue (line 9) are left out: `MaxFailures` bounds the failures of
  a behaviour, and `AckedWasProcessed`, `NoLostEvent`, `DeliverySpec` and
  `Delivered` speak of events whose handlers fail less often than the retries
  allow. A message that is moved to a dead-letter queue would have to count as
  queued.
* How many connections a pool has in use, and with it when a request waits for
  one in vain.
* When Python collects an engine that nobody refers to any more, and with it
  the connections of a stray pool.
