# TLA+ models of SalveDb's synchronisation

SalveDb is an offline-first SQLite database for React Native. An application
reads and writes local tables at any time; a native engine pushes the writes to
a REST server and pulls the server's changes when there is a network. These
modules state what that engine promises, check it with TLC on small instances,
and prove the most important parts with TLAPS for every size.

Paths below are relative to the repository (`cpp/`, `src/`, `packages/`).

## 1. The system

### Threads and shared state

| who | runs | touches |
|---|---|---|
| JavaScript thread | query builders, `Database.transaction()`, `register`, `reset`, hooks | the one SQLite connection, configuration, query cache |
| sync worker (foreground `triggerSync`, background scheduler entry points) | one session at a time, under the process-wide sync lock | the same SQLite connection, HTTP, secure storage |
| SQLite update hook | collects touched tables, flushed after a commit or an autocommitted statement | query cache, through subscriptions |
| server and other clients | REST | the server's tables |

Reads and writes never take the sync lock (`configure`, `reset` and `logout` do), and the connection's mutex is
per statement, so any application write may fall between any two statements of
a session, and in particular inside an HTTP round trip.

### Components

| component | state | operations | interacts with |
|---|---|---|---|
| Local store (`MigrationEngine.cpp` triggers, `SyncQueueStore.cpp`, `SalveMetadataManager.cpp`) | rows; `sync_queue`; `_salve_sync_metadata`; `_sync_apply_lock` | triggers on insert, update, delete; read pending, remove, mark failed, mark blocked, rewrite id; mark replaced, deleted, pulled, failed, backfill | every writer |
| Push phase (`SyncPushPhase.cpp`) | the batch read from the queue | one HTTP call per item, settle the item | store, HTTP, applier, guard |
| Pull phase (`SyncPullPhase.cpp`, `SyncCursorStore.cpp`) | cursor per schema | pages by timestamp, limit escalation | HTTP, applier, guard |
| Operation applier (`SyncOperationApplier.cpp`) | none of its own | apply a page, record a success, rewrite the row, confirm a delete | store, relations |
| Apply guard (`SyncApplyGuard.cpp`) | lock row, transaction | run a function with triggers off, commit or roll back | connection |
| HTTP requester, credentials (`SyncHttpRequester.cpp`, `CredentialProvider.cpp`) | attempts; two tokens in secure storage | retry on network errors, refresh once on 401 | server, secure storage |
| Orchestrator (`SyncOrchestrator.cpp`, `SyncNativeEntryPoint.cpp`) | the sync lock | one schema, all schemas, discard if busy | all of the above |
| Connection (`SQLiteConnection.cpp`) | `_inTransaction`, touched tables, statement cache | begin, commit, rollback, execute, notify | both threads |
| Registration and migration (`MigrationEngine.cpp`) | schema versions, triggers, definitions | create, migrate, toggle sync, backfill | connection |
| Relations (`RelationStore.cpp`, `RelationCascadeRewriter.cpp`) | child tables of a parent | rewrite foreign keys after a replace | applier |
| Configuration and lifecycle (`HybridSalveDatabase.cpp`, `DatabaseManager.cpp`, `DatabaseResetter.cpp`, `NativeConfigStore.cpp`) | open connection, persisted configuration | configure, reopen in background, reset, logout | everything |
| Query cache and hooks (`src/cache`, `src/hooks`, `src/provider`) | entries with listeners | get, subscribe, refresh on table change | connection's notifications |
| Write trigger (`src/sync/library/syncTrigger.ts`) | throttle | start a session after a write | orchestrator |
| Reference server (`packages/salve-db-server`) | rows with a strictly increasing timestamp | list, create, patch, delete; auth | clients |
| Studio agent and relay (`src/studio`, `packages/salve-db-studio`) | sockets, pending requests | forward requests between browsers and devices | WebSocket |

### What makes it hard, and what makes it correct

* **Identity.** A row lives under a temporary id until the server names it.
  Primary key, metadata, queued items and children must change names together,
  while later items of the same row wait in the queue and in the session's
  batch. Correct: every queued item still finds its row, and a server id is
  recorded only for the row whose own POST created it.
* **Concurrent edits.** The request body is read when the request is built and
  the answer applied seconds later. Correct: no edit is lost, no older echo
  replaces a newer row, no deleted row comes back.
* **Faults.** Lost requests, lost answers, crashes, error statuses. Correct:
  at most the lost answers cause duplicates, and nothing waits for ever but what
  a 404 leaves to a person.
* **Local failures.** Constraints, transactions of the other thread. Correct:
  an item is blocked rather than repeated, and a blocked item stays so.
* **Pull.** A cursor of timestamps with ties at page limits. Correct: no change
  of the server is skipped.
* **Lifecycle.** A lock held during HTTP, reset while a session runs, tokens
  rotated by two writes.

* **Registration.** Every launch brings the database into line with the release
  it ships, in one transaction that other threads may write into. Correct: what is
  captured is what is synced, and the triggers fit the table.
* **Screens.** A query runs while a hook renders and is listened to later. Correct:
  whoever listens comes to show what is there.

`PROJECT.json` lists each hazard at its line with the properties that cover it,
or says why none does.

## 2. Modules

| module | content |
|---|---|
| `LocalStore` | one sync-enabled table: the application's statements with their triggers, the queue's and the metadata's statements |
| `SyncPush` (extends `LocalStore`) | the push phase, the server's handlers, the network, crashes; properties |
| `SyncPushInvariant` | the inductive invariants behind its theorems |
| `SyncPush_proofs` | `TypeCorrect`, `BlockedStaysCorrect`, `NewerEditSurvivesCorrect` |
| `SyncPushIdentity_proofs`, `SyncPushData_proofs` | `IdentityCorrect`; `QuietRowsCorrect`, `QuietDeletesCorrect`, `ServerRowsOwnedCorrect`, `PendingMeansQueuedCorrect` |
| `SyncPull`, `SyncPull_proofs` | the pull phase, other clients on the server; `TypeCorrect`, `NothingSkippedCorrect`, `SyncedMeansMirroredCorrect` |
| `SharedConnection`, `SharedConnection_proofs` | one connection, its transactions and notifications, used by the JavaScript thread and the sync worker; six theorems |
| `AtomicStore` | the abstract store the connection is to be (`StoreSpec`); `SharedConnection_proofs` shows that it is |
| `SchemaRegistration`, `SchemaRegistration_proofs` | `Database.register()` over the life of an installation, with `reset()`; six theorems |
| `LiveQueries`, `LiveQueries_proofs` | the query cache, the hooks and the provider over the connection's notifications; five theorems |
| `Lifecycle`, `Lifecycle_proofs` | configuration, logout, reset, the sync lock, sessions and tokens, restarts; six theorems |
| `MCSyncPush`, `MCSyncPull`, `MCLiveQueries` | constants and symmetry for TLC; the other modules need none |

Each module models one boundary of the system in full and abstracts its
neighbours: `SharedConnection` has the calls that `SyncPush` and `SyncPull` take as
one transaction, `LiveQueries` the subscribers of its notifications, `Lifecycle`
the lock inside which the sessions of `SyncPush` and `SyncPull` run.

In each module an operator marked "A slip" stands before some definitions: the same
definition with a plausible mistake. No action uses it; replacing the definition
by it makes TLC find the property `PROJECT.json` pairs it with violated.

### LocalStore

`rows`, `queue`, `meta` and `applyLock` are the tables; `queue` is indexed by
the AUTOINCREMENT id, so "ORDER BY id" is the order of the index. A row's data
is the number of the statement that wrote it (`ver`), which is all the
properties tell apart; `ts` is its conflict column (`updatedAt`), which no query
builder stamps: an `Update` may move it or leave it. `Insert`, `Update`,
`SoftDelete` (`Database.delete`) and `HardDelete` (`Database.execute`) each are
one SQLite statement with its trigger, atomic under the connection's mutex and
SQLite's statement journal. A write whose trigger would violate the metadata's
primary key is refused (`TriggerAccepts`).

Two assumptions: an application never generates a primary key twice, and the
server's ids are never among them (UUIDs against integers in the examples).

### SyncPush

`pc` is where the session stands: `idle`, `items` (at the loop's head), `call`
(request built), `reply` (answer on its way), `local` (item needs no call),
`failed` (the item is marked, its metadata is not yet), `apply` (inside
`applyWithBypass`).

| action | code |
|---|---|
| `StartSession` | `runPushPhase` up to the loop: `readPending` with its join |
| `TakeItem` | one iteration's reads: `getByLocalId`, the row's snapshot, the choice of the request |
| `DropItem`, `BodyFails` | the branches that make no call |
| `FailItem`, `MetadataFails` | `queue.markFailed` and `metadata.markFailed`, two statements without a transaction |
| `ServerCreate`, `ServerUpdate`, `ServerRemove`, `ServerNotFound` | the reference server's store and routes, atomic under its advisory lock |
| `CreateNotFound`, `ServerError` | a POST answered 404, and any other status |
| `NetworkFailure` | a lost request (in `call`) or a lost answer (in `reply`), one attempt of `withRetryAnd401`, the abort after the last |
| `RequestFails`, `WriteNotFound` | the branches for failing answers; a 404 to a POST or a PATCH blocks the item |
| `BeginApply`, `ApplyDelete`, `ApplyWrite`, `ApplyWriteFails` | `applyWithBypass` with `confirmDeleted`, or `recordRemoteSuccess` and `rewriteLocalRow` |
| `Crash` | the process dies; SQLite rolls the open transaction back |
| `ForeignDelete` | another client deletes a server row |
| `App` | an application statement, between any two of the above |

`applyWithBypass` is two steps, `BeginApply` and the rest, so that a write may
fall inside the window in which the lock row is set. `JsInApplyWindow` says
whether it may: with one application statement per transaction SQLite lets it in
(same connection), the triggers stay silent and the write joins the session's
transaction. `uncertain` and a server row's `origin` are history variables: the
program has neither.

### SyncPull

`pc`: `idle`, `ask` (a request is to be made), `got` (its answer is here),
`applied` (the page is committed, its cursor is not saved). A local row and a
server row are the same record, so a pulled row is a copy.

| action | code |
|---|---|
| `StartPull` | `runPullPhase` up to its loop, with `SyncCursorStore::load` |
| `List` | the GET: `PostgresResourceStore.list` with the clamped limit |
| `NothingNew`, `Escalate` | an empty page; a full page on one stamp, asked again with a larger limit |
| `ApplyPage` | `applyWithBypass` around `SyncOperationApplier::apply`: every row of the page under the schema's strategy, with `markPulledSynced` |
| `Stop`, `SaveCursor` | the session that cannot advance; the cursor's own statement and the next page |
| `Abort` | a failed request, a page that cannot be applied (rolled back), a crash: the session's own state is gone |
| `ForeignWrite` | other clients create, change, delete; `MaxTie` above 1 is a server that stamps several rows alike, 1 is the reference server |
| `ClockRuns`, `App` | the device's clock, which is not the server's; the application's writes |

The rows of a page are distinct, so `apply`'s loop is one assignment per row, and
a page is one step: a write in the window of its lock is not modelled here (see
`SharedConnection`). Ids are numbers, since the server orders equal stamps by id. `seen` is
a history variable. Nothing pushes in this module: local writes stay queued.

### SharedConnection

Here a step is one call under the connection's mutex, so the two threads interleave
call by call, inside each other's transactions too. `db` is what every
statement sees, `saved` what a rollback restores, `inTx` and `touched` the
connection's flag and its set of touched tables; `notified` is what the last call told the
subscribers. Data is reduced to who wrote: a *unit* is a transaction or a single
statement of the application, a *job* an upload the worker has sent or a page
it has pulled, and `db.rows[t]` is the set of units and jobs that have written to table t.

| action | code |
|---|---|
| `JsStatement`, `JsTxStatement` | a builder's `execute()` or `Database.execute`, outside and inside a transaction |
| `JsBegin`, `JsCommit`, `JsRollback` | `QueryDb.transaction`; a refused BEGIN throws before the `try` and changes nothing |
| `StartJob` | a session up to the point where the server has accepted an item or answered with a page |
| `BeginApply`, `Lock`, `ApplyTo`, `FinishApply`, `Unlock`, `CommitApply` | the calls of `applyWithBypass`, in their order |
| `BeginThrows`, `ApplyThrows` | its exceptions: the guard's constructor, and anything after it, with the destructor's rollback |
| `Block`, `SaveCursor` | `markBlocked` after a refused upload, the cursor after a page: statements of their own, in whatever transaction is open |
| `Crash` | the process dies |

`rewriteLocalRow`'s own catch is in `SyncPush` (`ApplyWriteFails`) and left out
here. Every apply writes to every table of the instance: a row's own and those
of its children. A rollback of SQLite's own accord, raw `BEGIN`/`COMMIT` through
`Database.execute` and the transactions of `registerSchema` (which are in
`SchemaRegistration`) are not modelled here.

### AtomicStore

What the two users of a connection may take it for: `content`, the tables each
writer's writes are in, and `items`, what the queue and the cursors say of each
job. A step lets some writers appear, each of them whole, and with them changes
what is said of the jobs: an upload is done in the very step its echo appears in, a
blocked upload never appears, a cursor passes only pages that are there, and nothing
that has appeared is ever changed. `SharedConnection!Store` instantiates it with
what a crash would leave (`Committed`): while a transaction is open that is
`saved`, so BEGIN, every statement inside, ROLLBACK and a crash are stutters, and the
commit is the step. Several writers may appear at once, since a statement of one thread
may have fallen into the other's transaction; that is what the refinement permits and
`EveryWriteEnqueued` finds fault with.

### SchemaRegistration

`store` is the database as the connection sees it, `saved` what the guard's
destructor restores; `step` is where `registerSchema` stands, so that other threads'
statements fall between its own.

| action | code |
|---|---|
| `Begin` | BEGIN, the system tables, the engine version with the one-time drop of cursors |
| `Create`, `Migrate` | `createTable`, `migrateTable`, and `columnsChanged` |
| `DropTriggers`, `CreateTriggers`, `Backfill` | the same of the sync triggers; `backfillSyncedRows` while the table has no metadata |
| `Record` | the stored version, the sync definition, the relations and their indexes, also on a column the table lacks: SQLite takes an unknown quoted name for a string |
| `Fault` | a statement that throws, or a crash: rolled back |
| `Commit` | COMMIT |
| `Insert`, `SaveCursor` | the application and a sync session, which may come in the middle |
| `Reset` | `reset()`: every row goes, the system tables' too, tables and triggers stay |

The application may register any release after any other (`Schemas`), and may
start from an installation an earlier library has left (`Legacy`). A column is one
the schema may declare; types, defaults, uniqueness and plain indexes are left out,
and so is the in-memory registry of boolean columns. History variables: `declared` is the
last schema registered; `reused` that the last registration found a table and no version,
which only one after a `reset()` does; `makeshift` that the present triggers were made by
such a registration, and `retired` the columns of the table they were not to name; `missed` the
rows an INSERT has left without metadata for good. They describe the present table and
triggers and change with them: remaking the triggers, or the next registration, ends an
exception.

### LiveQueries

A table's content is a number that every write replaces. The sync worker's
transactions and single statements of either thread are `Begin`, `Write`, `Commit`,
`Rollback`; `inbox` holds the notifications on their way to JavaScript.

| action | code |
|---|---|
| `MountProvider`, `Ready`, `RegistrationFails`, `CancelledRunEnds`, `CancelledRunFails`, `UnmountProvider` | `SalveDbProvider`'s effect, the end and the failure of `onMount()` for a provider that is still there or not, its cleanup |
| `Render`, `Rerender` | `useQuery`'s body: `getOrCreateEntry` runs the query if there is no entry |
| `Effects` | React's commit: cleanups of leaving and re-keyed hooks, then `subscribeToEntry`, then `useSyncExternalStore`'s second look |
| `Abandon`, `Leave` | a render React gives up; a component left out of the next commit (React, external) |
| `MountList`, `RekeyList`, `FetchNextPage`, `UnmountList` | `useInfiniteQuery`, `ok` says whether its query throws |
| `Deliver` | `_onTablesChanged`: entries with listeners run again, lists reload, and any of their queries may throw |

A list's number of pages is bounded by `MaxPages` and not by the table's size, so
`hasNextPage` is left out, and so is a query that throws when its entry is made. History
variables: `missed` (keys whose entry a change has passed by), and of a list `gap` (its new
key's first page failed while the old key's were counted) and `stale` (its reload for the
last change failed, or it has read what was rolled back); a reload that succeeds ends both.

### Lifecycle

| action | code |
|---|---|
| `CallConfigure`, `Configure`, `Seed`, `Save`, `SaveThrows`, `Schedule` | `configure()`: waiting for the lock, under it (`Configure` up to the access token, `Seed` the refresh token and the rest), the file after it, the background job |
| `CallLogout`, `Logout`, `Forget` | `logout()` and the two deletions under the lock |
| `CallReset`, `Reset`, `ResetAccess` ... `ResetSchedule` | `reset()` on a thread of its own, step by step; the wipe may succeed or throw |
| `TriggerForeground`, `WakeBackground`, `TriggerSync` | the three entry points: the gate on `appConfigured`, the reopening, the JavaScript calls |
| `Reopen`, `Discard`, `Enter`, `EndSession` | `reopenFromPersistedConfigIfNeeded`; `try_lock` that fails; the lock taken and released |
| `CallSucceeds`, `CallLost`, `CallRefused` | an authorized call through `withRetryAnd401`: answered, failed, 401 |
| `Refresh`, `RefreshLost`, `RefreshFails`, `StoreAccess`, `StoreRefresh` | `CredentialProvider::refresh` against a server that rotates, and its two writes |
| `Crash` | the process dies; the file and the tokens stay |

A token is the number of the pair it belongs to; a configuration is one value
that stands for database, network, credentials and background constraints. So
`configure()` calls are complete ones: a second call without `baseUrl` or
`credentials` keeps the first one's in memory and not in the file, which is not modelled.
Secure storage does not fail. What a session pushes and pulls is in `SyncPush` and
`SyncPull`; here it is a number of calls that may end early at any of them.
`spoilt` records that the stored pair cannot be the server's through no order of
locks: an answer of a refresh that was lost, a crash between the two writes, and a login
whose tokens `configure()` ignores because a pair is stored already.

## 3. Properties and runs

Every module has one type invariant, `TypeOK`; where a variable's type depends on
where a thread stands it says so (a worker has a job exactly while it is not
idle, an applied answer has a server id).

| run | property | says |
|---|---|---|
| `sync_push` | `IdentityAgrees` | every queued item resolves to exactly one metadata row; a recorded server id is the row's primary key and names the server row its own POST created |
| | `QuietRowsAgree` | a live row about which no session will read an item holds what the server holds, or another client deleted it there, or a 404 has left it to a person |
| | `QuietDeletesAgree` | of a known row that is deleted here and live there some session will read an item |
| | `ServerRowsOwned` | every server row belongs to a recorded POST, or to one being applied, or to one whose answer was lost or empty |
| | `PendingMeansQueued` | of a live row shown as PENDING or FAILED some session will read an item, unless a 404 has blocked it and the server does not have the row |
| | `NewerEditSurvives` | an echo never replaces a row stamped after the server stamped the echo |
| | `BlockedStays` | a blocked item is never touched again |
| `sync_push_liveness` | `QueueDrains` | eventually only blocked items are left |
| `sync_pull` | `NothingSkipped` | a server row stamped at or before the saved cursor has been delivered as the server has it |
| | `SyncedMeansMirrored` | such a row, if never written locally or shown as SYNCED, is the server's row here, or not shown if deleted there (not under `clientWins`) |
| | `EverythingArrives` | when other clients fall silent, every change arrives |
| `shared_connection` | `TransactionsAreWhole` | what is committed holds all of a transaction's writes or none; an upload leaves the queue together with its writes; no cursor passes a page that is not there |
| | `TriggersComeBack` | the lock row never outlives its transaction |
| | `AppliedIsNeverQueued` | what an apply writes is not queued |
| | `NotifiesWhatCommits` | a change of committed content is announced by the call that commits it; nothing is announced while it could be rolled back |
| | `StoreSpec` | the connection implements `AtomicStore` |
| | `ConnectionIsFreed` | every transaction ends and leaves the flag down |
| `registration` | `TriggersMatchTable` | the triggers of a synced schema name each column it declares and none the table lacks, with two exceptions: a column the table already had when a release without it made them, and triggers made by the first registration after a reset |
| | `ColumnsAreThere` | the table has every column of the schema registered last and every recorded foreign key, except between the first registration after a reset and the next |
| | `CapturedMeansSynced` | a table has triggers exactly when a session would sync it |
| | `RowsAreKnown` | every row of a synced table has metadata, from its trigger or the backfill, with two exceptions: a row written without triggers on a table that already has metadata, and the rows an INSERT between CREATE TRIGGER and the backfill's check keeps from it (`FirstUseBackfills`) |
| | `CursorsRestartOnce` | old cursors go with the first registration of this engine that commits, and no later one drops a cursor |
| `live_queries` | `ListenersHaveEntries` | an entry's listeners are exactly the hooks subscribed to its key, and nobody listens to one that is gone |
| | `ListenersSeeWhatIs` | who listens shows the table as it is once every change has been told, unless the query failed or the shared entry has missed a change |
| | `ReadyMeansSubscribed` | under a provider that is ready the native subscription is there |
| | `ListsArePrefixes` | the pages of a list follow one another, each once, up to the last it counts; they are the first ones except after a new key's first page has failed (`gap`), and hold what the table holds once every change is told, except for a `stale` list (both exceptions: see the disagreements below) |
| | `ScreensCatchUp` | again and again, who listens shows what is there |
| `lifecycle` | `SignedOutStaysSignedOut` | after `logout()` or `reset()` no token is stored until a login |
| | `StoredPairIsCurrent` | with the lock free the two stored tokens are one pair, the server's last, or none, unless `spoilt` |
| | `FirstConfigureIsQuick` | the first `configure()` of a process never waits for a foreground trigger's network calls |
| | `FileIsConfiguration` | what a background wake would find is what is configured, unless saving failed or a reset was not awaited |
| | `SessionIsUndisturbed` | database, configuration and tokens are the session's own while it runs |
| | `JsReturns` | `configure()` and `logout()` return |

| run that is violated | cfg | see |
|---|---|---|
| `round_trip_edit_wins` | `RoundTripEditWins.cfg` | findings |
| `redelivery_is_noop` | `RedeliveryIsNoop.cfg` | findings |
| `every_write_enqueued` | `EveryWriteEnqueued.cfg` | findings |
| `first_use_backfills` | `FirstUseBackfills.cfg` | findings |
| `live_query_refreshes` | `LiveQueryRefreshes.cfg` | findings |

`sync_push` runs isolated applies with two faults and a blob; `sync_push_liveness`
runs the hostile ones: writes inside the window of the lock row and rewrites of the local row
that violate a constraint.

**Bounds.** `MaxWrites` bounds the application's statements (and with them the
queue), `MaxClock` the wall clock, `MaxDisturbances` the faults,
`ServerIds` the rows the server can create. Two rows are the least at which one
row's replace could disturb another; four writes are insert, edit, edit or
delete on one row around a round trip with one write on the other; two faults
are a lost answer and a crash, or a foreign delete and an error; two clock
values give ties and order. `PushLimit` 2 stands for 200: two items are in the
batch together, the third waits. `HttpAttempts` 2 stands for 3: one retry and one
abort. The blob (`BlobVersions`) makes one write of the instance impossible to
serialise. Server ids are as many as the POSTs the bounds allow, so that the
server never runs out. Local and server ids are interchangeable among
themselves: the safety runs use symmetry, the liveness runs do not.

For the pull phase, a page of one row makes every pair of equal stamps span two
pages, and a largest page of three rows is the least that gets past such a pair;
`EscalationAttempts` 3, `EscalationFactor` 3 and `EscalatedLimit` 3 stand for 4, 8
and 2000. Three rows and three stamps are a pair and a later row, or a create, a
change and a delete. The clock's three values put a local write before, at and
after a server stamp (the first one is 2). `MaxPages` 2 ends a session with rows
left. `EverythingArrives` needs fewer equal stamps than the largest page: with as
many, the cursor stands still for good, at 2000 rows or at the server's `maxLimit`
(200 in the reference server, whose stamps are never equal).

For the connection, two tables are the least on which a transaction can be half
done; two units are a transaction and a statement that falls into it, an upload and
a page the two ways a refused apply goes on; two faults are a failed apply and a
crash.

For registration, two columns let a release add one, drop one and bring one back, or make
one a foreign key; two rows are one before and one beside a registration. No branch
depends on how the schema's version compares with the stored one, only on its being
there, so one version is enough. One reset and one fault are the least after which another
registration follows.

For live queries, two hooks on two queries of one table are two listeners of one
entry, a swap of two components of the same key, and an entry beside another; two
writes are a transaction and a statement, or a change before and after an effect; four
mounts are a provider, two hooks and a key change, or two providers; a list has two
pages, and one query or registration may fail.

For the lifecycle, two workers are a session and a trigger that waits or is discarded; three
calls are a `configure()`, a `reset()` and another `configure()`; two pairs of tokens
are a login and a refresh; one call per session with its 401, its refresh and a retry; two faults
are a crash and a lost answer.

Deadlock is checked in the runs of `SyncPush` and `SyncPull`: a session can
always start again. The other instances really stop, when every unit has been run and
every job is done or blocked, or when the bounded calls, writes and mounts are used up.

**Fairness.** `FairSpec` is weak fairness of the session's steps and of the
server's answers. Sessions are triggered by every write, by opening the
application, by connectivity and by the background scheduler, a started session
runs to its end on its own thread, and a reachable server answers; in `SyncPull` the same of the steps of `Pull`, in
`SharedConnection` of the worker's calls and of the end of JavaScript's transaction,
whose callback is synchronous. In `LiveQueries` the JavaScript thread takes up what is
queued and an apply ends. In `Lifecycle` every thread goes on; a call of the network
returns, if only by its timeout, and a session has finitely many of them. Faults are
not fair and their number is finite, as in any liveness statement about a
network.

### Findings

Each has a run that TLC ends with the counterexample.

* `RoundTripEditWins`: the comment at `SyncOperationApplier.cpp:219` promises
  that a concurrent local edit always wins; the comparison at line 236 is
  between the edit's timestamp and the server's later one, so an edit made
  between the snapshot and the server's stamp loses, and a soft delete, which
  moves no `updatedAt`, is undone.
* `RedeliveryIsNoop`: the overlap of the cursor delivers the last pulled row again
  in every session (`SyncPullPhase.cpp:21` says "a no-op via lastWriteWins"); on a
  device whose clock is behind, a newer local edit of that row is overwritten by
  the old version, and a row deleted by SQL is inserted again.
* `EveryWriteEnqueued`: `README.md:30` and `docs/query-layer.md:324` say that every
  write of the application is queued; one that runs between two calls of an apply
  sees the lock row, is not queued, and commits or rolls back with the apply.
* `FirstUseBackfills`: the comment at `MigrationEngine.cpp:475` promises a backfill the first time
  a schema has metadata. The check that follows comes after `CREATE TRIGGER`; an INSERT of the
  application between the two writes the table's first metadata, the check takes it for an
  earlier backfill's, and the rows that were there before never get any.
* `LiveQueryRefreshes`: `src/hooks/useQuery/index.ts:13` says that the hook re-runs
  whenever a write touches its table. A change delivered between render and effect passes
  the entry by, and the component shows the old content until the next change. The same
  happens, for as long as the component is mounted, to one that replaces another of the same key
  in one commit (the old one's cleanup deletes the entry the new one would have
  subscribed to), and to a query that has read what a rollback takes back.

Further disagreements met while modelling, for which the project keeps no run:

* `website/docs/api-reference/database.md:54` and `:72` say that a registration applies
  pending `ADD COLUMN` migrations and, after a `reset()`, resumes local use. The reset forgets the version and keeps
  the table, so a schema with a new column takes `CREATE TABLE IF NOT EXISTS`, which does
  nothing, and gets triggers that name the missing column: every INSERT fails until the
  next registration, at the next launch, adds the column and makes the triggers anew. If
  the column is a foreign key, its relation is recorded, and the cascade of a parent's new id
  names a missing column for as long. `ColumnsAreThere` and
  `TriggersMatchTable` except what such a registration commits (`reused`, `makeshift`).
* `src/hooks/useInfiniteQuery/index.ts:15` and
  `website/docs/api-reference/hooks.md:82` say that pagination state never drifts from what is
  on disk. A first page that throws for a new key empties the list and leaves the old key's page count;
  the next page is read at that count and clears the error, so the list starts behind a gap. Likewise a
  reload that throws after a write keeps the old pages, and the next page joins them without an error.
  `ListsArePrefixes` names both lists (`gap`, `stale`).
* `SyncPushPhase.cpp:196` says that after a failed rewrite "a retry PATCHes the
  resolved id, never re-POSTs a duplicate". The later items of that row are still
  under the local id, which no longer joins its metadata, and are POSTed.
* `SyncPushPhase.cpp:159` leaves a row that another client has deleted to manual resolution. The item
  is marked BLOCKED, the metadata is not: the row is shown as PENDING or FAILED, with no item
  any session reads, until a person resolves it. `PendingMeansQueued` names that row.
* `website/docs/guides/sync.md:169` says that every session retries any PENDING or FAILED
  item. `readPending` takes the first 200; 200 items that fail for ever starve the
  rest.
* `docs/sync-rest-contract.md:396` says that the status of a confirmed delete stays
  DELETED. A row deleted by SQL during its own POST ends as SYNCED; `PendingMeansQueued`
  speaks of live rows for that reason.
* `SyncPushPhase.cpp:201` explains why an accepted upload must be blocked. When the
  apply cannot begin because JavaScript has a transaction open, the mark is a statement of
  that transaction, and a rollback takes it back: the item is POSTed again. `StoreSpec`
  holds all the same, since the mark was never committed.
* `cpp/tests/database/MigrationEngineTests.cpp:308` says that the triggers match the
  schema's columns. A column that one release leaves out and a later one declares again is
  in the table already, so `migrateTable` reports nothing, the triggers stay, and the payload of
  a queued item lacks it. No upload does: the push sends `SELECT *` of the row
  (`SyncPushPhase.cpp:44`) and never reads the payload.
* `README.md:30` again: a registration drops the triggers and makes them anew in two statements.
  A write of the application between the two is not captured; `RowsAreKnown` names that row.

## 4. Proofs

TLAPS checks the theorems below, for every set of ids, tables, columns, workers and
configurations, every bound and any number of faults. Each follows one
pattern: an inductive invariant, a lemma per action, and a last step in temporal logic.

1. `TypeCorrect == Spec => []TypeOK`, with no assumption beyond those of the
   modules. `TypeOK` alone is not inductive: that an applied POST records a
   server id needs the answer's shape (`EchoHasId`, `PostIsEchoed`), that a PATCH
   is for a known row (`PatchIsKnown`, `RemoteIsEntity`), and that the session only
   holds queued items (`ItemsAreQueued`). `TypeInv` is their conjunction.
   `BlockedStaysCorrect` and `NewerEditSurvivesCorrect`, of the same module, need no isolation either.
   The first rests on `HeldAreOpen` (what the session holds is not blocked), the
   second on `NewIdsAreFree`: the id of a new row's echo is not yet a row here, so an
   older echo never lands on a row that has been edited under it.
2. `IdentityCorrect == Isolated => (Spec => []IdentityAgrees)`. `IdentityInv` adds
   that what the session has read still leads to the entity it was read for
   (`BatchResolves`, `CurrentResolves`), that an answer is about the row the
   request was built from (`AnswerMatches`), that metadata follows local ids
   (`LocalsAreTracked`) and that the open transaction has changed nothing yet
   (`LockIsApply`), which is why a crash is harmless. The replace step is the heart:
   `ReplaceIdentity` shows that the new id is either the old one or nobody's.
3. `QuietRowsCorrect == Isolated => (Spec => []QuietRowsAgree)`. `DataInv` adds
   `LaterWriteIsQueued`: a write after the snapshot has left an item of its own,
   so removing the request's item cannot make the row look settled; and that
   only rows that are not live are deleted or dropped, and that a 404 is only about a
   row the server does not have (`NotFoundIsGone`). Three more theorems, under
   the same assumption, share the module and the invariant, whose whole is `IInv` (it also takes `HeldAreOpen`:
   what the session holds can still be read):
   * `QuietDeletesCorrect`. `QuietDeletesAgree` says that some item of a deleted row will
     be read, which a session could use up; `DeletesInv` names the item that will tell
     the server (`TellsOfDelete`: once the row is gone from the table only the item of a
     DELETE statement does), carries it through a replace (`LaterDeleteIsQueued`) and ties
     each request to the item it was built from (`ActionFits`).
   * `ServerRowsOwnedCorrect`. `OwnedInv` adds that a server id only comes with a
     successful answer, and that every row of the server has a local id behind it.
   * `PendingMeansQueuedCorrect`. `StatusInv` adds that metadata with a status follows an
     entity. Every trigger leaves its status and its item together (`AppWrites`), a failed item
     can be read before its metadata says FAILED (`ItemFailedStatus`), and an item is blocked only
     when the server does not have the row, which nothing brings back (`ServerRevivesNone`).

4. `TypeCorrect` and `NothingSkippedCorrect == Spec => []NothingSkipped`, of `SyncPull`. `PullInv` says
   that a page in flight has no gaps below its last row (`PageHasNoGap`), is past
   the cursor and can only have been overtaken by later stamps (`PageIsPast`), and
   has been delivered when the cursor is saved (`PageIsSeen`). `ListedIsFirst` shows
   that a LIMIT keeps the first rows, and `CandidateIsBelowLast` that the new cursor
   is below the page's last stamp, so ties beyond the page are asked for again.
   It assumes only that the server has finitely many rows and that its stamps
   never go back, which the reference server's advisory lock ensures.
   `SyncedMeansMirroredCorrect` rests on it: `MirrorInv` states the property by what has
   been delivered instead of by the cursor (`SeenMeansMirrored`), since a page is applied
   before its cursor is saved. lastWriteWins leaves a row that is not older than the page's, so
   it needs that a row the application has left alone is never newer than the server's
   and, with the same stamp, is the same row (`RowsAreDelivered`); and a page read a while ago
   that its rows are the server's unless stamped again (`PageIsAsWas`).

5. `TypeCorrect`, `TransactionsAreWholeCorrect`, `TriggersComeBackCorrect`,
   `AppliedIsNeverQueuedCorrect`, of `SharedConnection`, for any number of tables, units,
   jobs and faults. `ConnectionInv` says that the flag is up exactly while one of the two
   threads has a transaction (`OneOwner`), that the lock row is there exactly between
   `Lock` and `Unlock` and never in what a rollback restores (`LockFits`), that units
   and jobs are whole both in what is visible and in what a rollback restores, but for
   the open one (`UnitsFit`, `JobsFit`), and that an upload leaves the queue only in its own
   apply (`DoneFits`), so that an item about to be blocked has not been applied.
6. `NotifiesWhatCommitsCorrect`: an action property, from `TouchedFits`: the touched tables
   are at least those an open transaction has changed, and none outside one.

7. `ConnectionImplementsStore == Spec => StoreSpec`. `Committed` changes only when a
   transaction commits or a statement runs outside one; `Grows` says that what is visible
   in an open transaction adds to what a rollback restores and changes nothing of it,
   `JobPending` that the job in the worker's hands is pending in both, and
   `PagesPass` that a cursor waits for its page. With `ConnectionInv` they give, for
   each call, the writers that appear and the items that change, which is a `Step` of
   the abstract store, or no change at all.
8. The six theorems of `SchemaRegistration`. `RegistrationInv` says that `saved`, and
   `store` outside a registration and at its end, are `Settled`, which is the conjunction of
   all the properties with what they need (`NamesFit` ties the triggers' columns to the
   table's), and what holds after each step in between (`MigratedFits`, `TriggerStepFits`, `RowStepFits`). A failure goes back
   to `saved`, which is settled.
9. The six theorems of `Lifecycle`. `LifecycleInv` ties the lock to where each thread
   stands (`LockFits`), says that no token is newer than the server's pair and that a
   login not yet stored is nowhere else (`PairsFit`), that whoever writes a token has found
   one or has just logged in (`SignedOutFits`), that the pair on its way to the store is the
   server's (`CurrentFits`), that a foreground trigger has passed the gate of this
   process (`GateFits`), and that file and configuration agree except between
   `configure()`'s two steps (`FileFits`).

10. The five theorems of `LiveQueries`. A hook shows what an entry held, and an entry what its
   table held when its query ran, so `LiveInv` has both links of the chain: `EntriesSeeWhatIs`
   (an entry that has missed nothing holds its table once that is quiet) and `ShownIsEntry` (who
   listens shows its entry). They hold together only with `ListenersHaveEntries`, by which a
   notification finds every listener, with `ReadyMeansSubscribed`, by which it is sent, and with
   `TouchedIsWhatChanged`: a rollback takes back nothing but the tables it has touched.
   `EffectsFacts` says what one commit of React does to an entry, by who comes and who goes.
   `IsPrefix` is `ListsArePrefixes` of one list: counting and order hold without exception, the two
   exceptions are only for where the pages start and what they hold. `EntryAssumption` says that the value
   for a missing entry is not an entry.

`Isolated` is `~JsInApplyWindow /\ ~ApplyMayFail`. `IdentityCorrect` and the theorems of
`SyncPushData_proofs` assume it. If an apply may fail half-way, TLC finds each of their five
properties violated: a half-finished rewrite leaves items behind. If application writes
may land in the apply's window, it finds `QuietRowsAgree` and `QuietDeletesAgree` violated, because
a write without its trigger is never queued; the other three hold on the run's instance
(2,003,012 states), and whether they can do without that half of the assumption is open: the proofs use it for
`RowsAreTracked` and `LockIsApply`. The findings above and the hazards of the shared
connection are about what happens without it.

The invariants were checked by TLC on the instances of the runs (those of
`SyncPush_proofs` on a hostile one) before they were proved. Every invariant, action property
and refinement that a run checks is a theorem. Only model-checked are the liveness properties
`QueueDrains`, `EverythingArrives`, `ConnectionIsFreed`, `ScreensCatchUp` and `JsReturns`, since
liveness under fairness is beyond this prover.

## 5. Not modelled, and what is left

Not in `SyncPush`: a request that is delivered after the device has given up on
it and after a newer one (a late duplicate); several tables and foreign keys; ids reused
by the application; rows that were there before sync was switched on, whose metadata the
backfill makes PENDING with no item in the queue (`SalveMetadataManager.cpp:103`), so that
`PendingMeansQueued` does not speak of them; a server that answers a POST with an object
without the primary key (`SyncOperationApplier.cpp:187`), which would have the local id recorded as the
server's. `retryCount`, `lastError` and `syncedAt` are left out: no decision
reads them. Token refresh is in `Lifecycle`, and a refresh that fails is a network
failure in `SyncPush`, as in the code.

Of the whole:

* **Cascade of ids to child tables** (`RelationCascadeRewriter.cpp`): registration's side of
  relations is in `SchemaRegistration`, the rewriting of foreign keys is not.
* **Push and pull composed** in one session, so that a pull meets pending edits: each
  phase is modelled with arbitrary application writes, but not with the other.
* **Order of schemas** in `triggerSyncAll`, and the **write trigger**'s throttle: they
  decide when a session starts, which the models leave open.
* **Transactions SQLite ends by itself**, on a full disk or an I/O error.
* **Studio agent and relay**: a development tool, which keeps no state of the database.
* **Pure functions** (JSON parser, JsonPath, URL templates, condition compiler): no state.
* **Platform layers**, generated bindings, SQLite and the vendored headers under
  `.clangd-headers/` and `cpp/third_party/`, tests, website and example application: no logic of this
  library. They are most of the repository's lines, so the models, which cover
  the engine, the hooks and the reference server, cover a small share of the total.

What is worth doing next: the composed session with a parent and a child table; an
abstract specification of the push phase (a row is dirty or clean, a session sends
what is dirty) with `SyncPush` refining it; the same for the pull phase and the query cache;
`IdentityCorrect`, `ServerRowsOwnedCorrect` and `PendingMeansQueuedCorrect` with application writes in the apply's window.
