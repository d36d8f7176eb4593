# Verification of the Kaminfeger field-service app and its backend

The repository holds an offline-first Flutter app for technicians
(`mobile/lib`) and a NestJS backend (`backend/src`). The app writes every change
to a local Drift/SQLite database together with an outbox entry; a
synchronisation run pulls changes of the server and pushes the outbox. The
backend stores several tenants' data in PostgreSQL through Prisma and exposes
REST endpoints, `POST /sync/push`, `GET /sync/pull`, file uploads, a disposition
portal and push notifications; a command imports the archive of the legacy
program Genesis.

This directory models the parts of that system in which order matters: several
handlers between awaits, a process that is killed between two writes, replies
that are lost and requests that are repeated, cursors and tokens that are older
than what they stand for. `*.tla` are the models, the `MC_*.tla` modules and
`*.cfg` files the instances TLC checks, the `*Proofs.tla` modules what TLAPS
proves for instances of every size.

    tlc -config OutboxSync_one_run.cfg MC_OutboxSync.tla
    tlapm OutboxSyncProofs.tla

## 1. The system

| Part | State it keeps | Operations | Hard behaviour | What makes it correct | Model |
|---|---|---|---|---|---|
| Local writes and outbox (`app_database.dart`, DAOs, `enqueueOutbox`) | entity rows with `sync_status`, `outbox_entries` | create, edit, delete, each with an enqueue; a pending update is merged | row read before the transaction that writes it; merge while a run holds the old payload | every unsynced row has an open entry; one pending update per row | `OutboxSync` |
| Synchronisation run (`sync_orchestrator.dart`, `outbox_processor.dart`) | nothing but the list of a run | pull, list, mark processing, push or upload, mark row, mark entry | overlapping runs, kill at an await, retry delay, limit of the list | life cycle of an entry, retry of every entry, done means accepted | `OutboxSync`, `OutboxLifecycle` |
| Pull and cursors (`pull_sync_service.dart`, `sync.service.ts`) | `sync_states` with a cursor per type | ask for a page, apply it with the new cursor, announce new orders | concurrent pulls, the clock of the cursor, late commits, change of tenant | no change is skipped, an order is announced once, the device catches up | `SyncPull`, `EntityNames` |
| Work order actions (`WorkOrderDao`, screens) | status, version, attachments, time entries | start, pause, resume, complete, sign, report | stale copies, second press of a button, signature without a transaction | one running time entry exactly while in progress; no attachment lost | `WorkOrderActions` |
| Recurring work orders (`createDueRecurringLocal`) | next service date of an installation, its orders | make the due orders, move the dates on | candidates read before the transaction, stale rows written back, months of different lengths | one order per term, no date without its order, dates follow the interval | `RecurringOrders`, `Calendar` |
| Stock, checklists, measurements, defects, photos | their rows | local create, update, delete | check outside the transaction that uses it | stock never negative | as local writes in `OutboxSync` |
| Login session on the device (`auth_providers.dart`, `secure_auth_repository.dart`) | session in memory, five keys in secure storage | login, restore, refresh, logout | late answers, partly written keys | memory and storage name the same account | not modelled |
| Server push (`sync.service.ts`, `entity-crud.service.ts`) | entity rows, `sync_outbox_entries`, `audit_logs` | lookup, version test, mutate, store verdict, audit | overlapping and repeated requests, kill between transactions | one verdict per entry, applied at most once, no stale write, tenants apart | `ServerPush` |
| Disposition portal (`disposition.service.ts`) | work orders | update of a work order | writes without a new version; two dispatchers | a stale entry is detected, the right assignee is told | actions of `ServerPush` and `WorkOrderPush` |
| Push notifications (`push.service.ts`, gateway, registration on the device) | device tokens | register, revoke, notify, revoke invalid | notification that nobody awaits, registration during a send | the assignee's devices are told, a token belongs to who is logged in | `WorkOrderPush` |
| Accounts (`auth.service.ts`, `tenancy.service.ts`, guards, permissions) | tenants, users, signed tokens | sign-up, login, refresh, guarded requests | tokens outlive what they say; refresh signs some awaits after it read | a right that was taken away ends | `Accounts` |
| Genesis importer (`genesis-importer.ts`, `prisma/genesis-import.ts`) | the imported tables, batches, records | read, map, upsert row by row | two systems describe one building; failure and kill half-way, repetition, next year's archive | references are right; a repetition completes | `GenesisMapping`, `GenesisImport`, `Genesis` |
| File uploads (`files.service.ts`) | upload status | init, uploaded, complete | lost, repeated and reordered calls | status never goes back | not modelled |
| Reports, health, screens, formatting, route optimizer, BLE parsing, generated code | none | pure functions, presentation | - | - | not modelled |

How they interact: screens call use cases and repositories, which call DAOs; a
DAO writes a row and its outbox entry; `SyncOrchestrator.syncNow` is called by a
five-minute timer, by the connectivity listener and by the status screen, with
no mutual exclusion; `PullSyncService` and the DAOs write the same rows. On the
server, push requests, REST calls and the dispatcher write the same tables; a
write that assigns a work order starts a notification without awaiting it.
`ConflictResolver` has no caller in the run.

In this commit `PushSyncService` is built without a handler
(`sync_providers.dart:51`), so a push answers "accepted" without sending, and an
upload writes a placeholder address. `OutboxSync` therefore lets a push end in
each of the ways the interface allows (`Outcomes`), and `ServerPush` models the
contract of `docs/api.md` as the backend implements it; the two are not composed.

## 2. Modules

Each models one action per await or transaction, which is where the code can
switch to another handler.

### OutboxSync (with MC_OutboxSync)

Contents are numbers: 0 is what the server sent, and every local edit has three
numbers of its own, as the transaction of a report writes three contents.

| Model | Code |
|---|---|
| `rows`, `outbox` | entity tables reduced to content, deletion and `sync_status`; `outbox_entries` in the order of `created_at` |
| `editor`, `ReadForEdit`, `CommitEdit` | an edit method: `getById`, then the transaction with the row and `enqueueOutbox` |
| `CreateLocal`, `EnqueueOutbox` | create methods (a photo gets an `upload_file` entry in place of `create`); merging into a pending update; `rest` is what the same transaction inserts afterwards |
| `CreateReport` | `createGeneratedLocal`: the report, the order it is attached to, the update entry of the order and two entries of the report, `create` and `upload_file`, in one transaction |
| `SyncNow`, `PullPage`, `ApplyPage`, `PullFails` | `syncNow`; one page per entity type; a failing pull ends the run |
| `ListPending`, `MarkProcessing*`, `PushListedEntry`, `Upload*`, `SetEntitySyncStatus`, `ReadEntryToMark`, `Mark*`, `FinishRun` | the loop of `OutboxProcessor.process` |
| `DelayElapses`, `IsReady` | `RetryBackoffPolicy`, the delay being over or not |
| `Crash` | the app is killed: handlers and runs are gone, tables stay |

`accepted` and `late` are history variables: contents a push was accepted with,
and edits merged into an entry while some run had it listed. The abstract
specification `OutboxLifecycle` says what an entry goes through (pending or
failed, processing, then done, failed or conflict; done and conflict are final,
nothing is removed, and a transaction makes up to three entries); `OutboxSync`
implements it through the status column, as long as one run is active. Other
transactions with several entries are the start of an order and the recurring
orders, whose modules stand for the outbox by the status of a row, and the usage
of material, which is not modelled.

### SyncPull and EntityNames (with MC_SyncPull)

The server's pull and the device's pull together. A row's content is the number
of writes it has seen; `clock` is the server's time, so two writes of the same
millisecond have the same `updatedAt`. The types a pull has still to ask for are
a set, `left`; `Current` is the first of them in the order of the states.

| Model | Code |
|---|---|
| `rows`, `StartWrite`, `CommitWrite` | `EntityCrudService`: Prisma takes `updatedAt` before the statement that commits |
| `EnsureSyncStates`, `ReadStates` | `_ensureSyncStates` (the id of a state has no tenant in it), `watchForTenant(...).first`: all cursors are read before the first request |
| `Request`, `Query`, `Selected` | `SyncService.pull` takes its time, then queries by `updatedAt > cursor` |
| `ApplyPage`, `Applied`, `Notify` | the transaction with the page and the cursor; rows with unsent changes become conflicts; new orders are announced afterwards |
| `PullFails`, `Kill`, `EditLocally`, `PushEdit`, `Login` | lost replies, unknown types, kills, edits and their push, a login of another tenant |

`AfterQueries` is the one assumption on time: a write that begins after a query
has seen the rows takes a later millisecond. `EntityNames` is the table of
entity types and their aliases, so that a type of the device that the server
does not know ends the pull.

### WorkOrderActions (with MC_WorkOrderActions)

One order on the device. A handler has the step it is at and the row it has read.
`Tap` is guarded by the status shown (`canStart` ...) and by nothing else;
`ReadOrder` is the read before the transaction, `CommitStatus` the transaction of
`startLocal`, `pauseLocal`, `resumeLocal`, `completeLocal`. The signature has its
four awaits (`ReadOrder`, `ReadVersion`, `ReplaceOrder`, `EnqueueSignature`) and
goes on with the report as `SignatureScreen._save` does. `Pushed` and `Pull`
stand for the run of `OutboxSync`. An order pulled in progress is assumed to have
its start time and installations, otherwise `Validate` would refuse more.

### RecurringOrders and Calendar (with MC_RecurringOrders)

| Model | Code |
|---|---|
| `Calendar` | `_addMonths`, `_daysInMonth`, `_isAfterLocalDate`, `_isSameLocalDate`; a moment is a local date and hour, `UtcDate` the day `DateTime.tryParse` gives of a stored date |
| `ReadCandidates` | `watchDueRecurringCandidates(...).first`, outside the transaction |
| `BeginTransaction`, `AdvanceTerms`, `CommitPress` | the transaction of `createDueRecurringLocal`: the second look for an order, the loop of `_advanceRecurringInstallation` a round at a time, and the writes; the installation is written as it was read with the candidates |
| `ReadForNotes`, `WriteNotes` | `InstallationDao.updateNotesLocal`, which writes a whole row as well |
| `PushInstallation`, `PushOrder`, `Pull*` | `setEntitySyncStatus`, `_applyChange` |
| `NextDay`, `Kill` | the clock of the device, the end of the app |

`anchor`, and `due` and `kept` of an order, are history: the date the office has
set, the term an order was made for, and whether anyone has moved or cancelled it.

### ServerPush (with MC_ServerPush)

One action per Prisma call of `processPushEntry`; handlers of several requests
interleave, and `Crash` kills them all. An outbox id stands for the unique pair
(tenant, outbox id). `rev` and `by` of a record, `told` and `applied` are
history: the writes, their author, the answers clients received, how often an
entry was written. `MakeEntry` is the client (external). The two existence reads
of an update are merged, since rows are never removed; entries without an id and
REST writers are left out; `upload_file` takes the path of an update.

Two things about tenants are as the code has them. `TenantRecords` are the rows
of the entity `tenants`, whose only tenant condition is their id, and
`findTenantRecord` overwrites that id with the one it looks up: `Found` asks no
more of such a row. `Relinks` is what a payload has in the relation field
`tenant`, which `cleanWritePayload` lets through though it reserves the column
`tenantId`: an update moves the row (`TenantAfter`), a create fails, as Prisma
does not take relation and column together (`Uncreatable`). No client in the
repository sends the field; other relations and nested writes are left out.

### WorkOrderPush (with MC_WorkOrderPush)

One work order, the requests that assign it (`Begin` to `Reread`: the portal's
update, `create` and `update` of the entity), the notification each starts
(`NotifyRead`, `ReadTokens`, `Send`, `RevokeInvalid`, `AuditDelivery`:
`notifyNewWorkOrder` with each of its reads), and the tokens of the devices
(`Login`, `Logout`, `RefreshToken`, `RegisterDeviceToken`, `LoseRegistration`,
`RevokeDeviceToken`). `owed` is history: the devices that the present assignment
makes one expect to be told; a device whose token, user or registration changes
meanwhile leaves it, as does everybody when a gateway fails or the server is killed.

### Accounts (with MC_Accounts)

`Signup` (the transaction; `Sign` follows), `Login` and `Compare` (the password
takes its time), `Refresh`, `FindUser` and `Sign`, and `Serve`, a request that passes `TenantMiddleware`,
`JwtAuthGuard` and `PermissionGuard`, which believe the token. `SetAccount` and
`SetTenant` change what the token says in between. `ROLE_PERMISSIONS` is the
table of the source. `lost` and `served` are history: when a user last lost a
role, and how long ago that was when the last request was served with it.

### GenesisMapping, GenesisImport and Genesis (with MC_Genesis)

`GenesisMapping` is `readGenesisArchive` and `mapGenesisArchive` as operators:
the Maps the loops fill, in the order in which they fill them, and the drafts of
the seven tables. A cell is a string, the four columns of an address are one
cell, and columns that are only copied into a text are represented by one of
their kind. A Map that is only looked up is a function, and `Get` finds a set, so
that "no entry" is told apart from every value; the drafts are a sequence in
insertion order. A loop is `Each`: a recursive function of the rows so far, whose
step is `MapRow`, the body of that loop. `lower` and `slug` stand for
`toLowerCase` and the letters and digits of a code, and may make any two strings
the same. Ids are hashes of the key, taken to be different for different keys.
`sourceKeyFromParts` keeps the parts as a sequence; the code joins them with a
colon, so that two lists of parts with the same join, possible only when a column
has a colon in it, are one key there and two here.

`GenesisImport` is the command: the archives (`EntriesOf`: an entry once, a table
of a database once, `ArchiveAssumption`), the batch, the removal of old records,
an upsert at a time in the order of the tables, the records in chunks, the catch
clause, and the faults of `Faults`; `Refused` is what the keys of the schema
refuse. It writes `PlanOf`, what `GenesisMapping` makes of an archive.

`Genesis` says what that plan must say of the tables it was made of, with the
databases where `legacyRowMapKey` expects them (`FolderAssumption`). The code
does not promise this of every archive, and the properties say where it stops:

- `BuildingsAreOne`: a building of the wood-heating control without a number
  that the first system knows is found by its address, unless an `earlier` row
  brought the same unknown number: the number comes before the address, and may
  lead to that row's object.
- `InstallationsFollowTheirBuildings` asks for `NumbersAreUnique`: with one number
  at two addresses the last row of the number has the installations of both.
- `CustomerIsTheOwner` asks for `KeysFollowNumbers`: numbers that differ in their
  case alone, or one that is the address of a building without a number, have
  one key, and the later building takes the customer and the object of the
  other.

## 3. What TLC checks

| Run | Question and bounds |
|---|---|
| `outbox_one_run` | a work order and a report made of it, neither there at first, one run, two edits, pushes that are accepted or conflict, failing pulls and kills: `TypeOK`, `UnsyncedHasOpenEntry`, `DoneWasAccepted`, refinement of `OutboxLifecycle` |
| `outbox_two_runs` | two overlapping runs, two updates, pushes that are accepted or fail, no faults: `CoalescedOnce`, `UnsentContentIsQueued`, `ProcessingIsOwned`, and with fairness `EntriesAreAttempted` |
| `push_overlap` | two requests of two tenants, the row of one of them, kills, lost replies, dispatcher: `TypeOK`, `AnswersAgreeWithLog`, `AcceptedWasApplied`, `TenantsAreIsolated` (no payload names the relation) |
| `push_serial` | one request at a time, batches of up to two, an entry that names the relation `tenant`, lost replies, kills: `VerdictEndsWrites`, `NoStaleWrite`, `VersionCountsWrites` |
| `order_serial` | one handler, every button, seven presses, kills: `TypeOK`, `ClockMatchesStatus`, `AttachedStays`, `LocalChangeRaisesVersion`, `CompletedIsFinal` |
| `order_interleaved` | two handlers, three presses, pulls: `PendingIsQueued` |
| `pull_cursor` | an object and a work order, one pull at a time, lost replies, kills, edits, clock to 4: `TypeOK`, `NothingSkipped`, and with fairness `CatchesUp` |
| `recurring_presses` | two overlapping presses, notes, pages of the office, kills: `OneOrderPerTerm`, `TermsFollowTheInterval`, `TermsLeaveAnOrder`, and with fairness `PressEnds` |
| `work_order_push` | two technicians who share a device with two tokens, two requests one after the other whose notifications may be late, gateway failures, kills, lost registrations: `TypeOK`, `AssigneeIsTold`, `DeviceFollowsSession` |
| `accounts_rights` | two tenants with one address, changes of accounts and tenants between any two awaits: `RightsEnd` |
| `genesis_import` | the archives below, failing database, kills and repetitions: `NeverRefused`, `ImportedAsPlanned`, `BuildingsAreOne`, `InstallationsFollowTheirBuildings`, `AssignmentsResolve`, `CustomerIsTheOwner`, and with fairness `ImportsComplete` |

One run ends with a counterexample. `push_tenant_rows` states
`TenantRowsAreIsolated`, what `docs/security.md:21` says of all CRUD and sync
operations, for the rows of the entity `tenants`: an entry that one tenant pushes
for the row of another is applied to it (a finding in `PROJECT.json`).

Three configurations beside the runs pass; they have what the runs leave out:

| Configuration | What it adds |
|---|---|
| `OutboxSync_photo` | the properties of `outbox_one_run` for a work order and a photo, with every outcome of a push |
| `OutboxSync_two_faulty_runs` | `CoalescedOnce` and `UnsentContentIsQueued` with every outcome, failing pulls, kills and deletions in two runs |
| `SyncPull_two_pulls` | `AnnouncedOnce` with two overlapping pulls of one type, lost replies, kills and edits, clock to 5: both fetch the same new order, the slower one moves the cursor back, and it is announced at most once |

Where the code does not do what its documents say, a configuration that is kept
beside the runs ends with a counterexample; the runs show under which condition
the property does hold:

| Configuration | What happens | What it contradicts |
|---|---|---|
| `OutboxSync_crash_stuck` | killed between `markProcessing` and the final mark, the entry stays processing for ever | `docs/sync.md:3` |
| `OutboxSync_pull_overwrites` | a row edited during its push is set to synced, and the next pull replaces the unsent edit; with `NoMergedEditLost` as the property, an edit merged while its entry is pushed is done without being sent | `docs/sync.md:17` |
| `ServerPush_rejects_itself` | a request overlapping its own retry stores a conflict with itself | `docs/api.md:88` |
| `ServerPush_dispatch_overwritten` | the dispatcher raises no version, a stale entry is accepted over its change | `docs/security.md:32` |
| `WorkOrderActions_unqueued` | a kill between the row and the outbox entry of a signature: the order is pending for ever | `app.md:762` |
| `RecurringOrders_midnight` | a date at midnight UTC that a step into summer time moves to the day before in UTC: the order of that date is not found, and a second press makes another | `app.md:2265` |

Others show what concurrency, or an assumption that is dropped, adds to a
property that a run checks without it:

| Configuration | What happens |
|---|---|
| `OutboxSync_two_runs` with `Limit = 1` | with a list of one, an entry in its delay keeps a newer one out: `EntriesAreAttempted` is false |
| `ServerPush_crash_twice` | a kill before the outbox record; the retry writes again |
| `WorkOrderActions_signature_lost` | a stale copy of the row takes the signature off; with `CompletedIsFinal` as the property, it reopens a completed order; with the invariant `NothingRunsAtRest`, two presses make two time entries, and one is never closed |
| `SyncPull_overlap_skips` | the cursor of a pull ends beyond a change that a slower pull has put back |
| `SyncPull_slow_commit` | a write commits after a query, with an `updatedAt` before it |
| `SyncPull_tenant_switch` | a device comes back to its first tenant with the cursor of the second |
| `WorkOrderPush_overlap` | two handlers at once: each reads the other's assignee as its own previous one, and nobody is told |
| `WorkOrderPush_late_registration` | the registration of the user before arrives last |
| `RecurringOrders_late_change` | a page comes while a press is under way, and the press writes the old row back over the office's new date |

### Bounds and why they are enough

- `OutboxSync`, `WorkOrderActions`, `ServerPush`: `MaxEdits` and `MaxTaps` limit
  what the user does; between two user actions everything else runs on. `MaxRev`
  lets crashes and dispatcher writes stop once a record was written so often; a
  kill between the first write of an entry and its outbox record and a repetition
  by a second request still fit. `Limit = 2` is large enough for both rows and
  small enough to be met. A report makes three entries, more than the limit, so
  `outbox_one_run` leaves out the outcome "error", and `outbox_two_runs`, with its
  liveness, conflicts, faults and deletions (`EditOps`); the two configurations of the
  outbox above have them, and the theorems of section 4 hold with all of them.
- `SyncPull`: `MaxClock = 4` leaves room for a write before a pull, one between
  two pulls and one after them; the order is written twice, so that a change can
  meet an edit; the object once, so that one type is a page ahead of the other.
  In `SyncPull_two_pulls` there is one type, which is where they meet, and `MaxClock = 5`:
  the older cursor, a write, the newer one, and a write after it.
- `RecurringOrders`: the office's dates are 31 December and 30 January of a leap
  year, the days 31 January and 15 April, the intervals 0, 1 and 2 months: over
  the turn of the year, onto 29 February, and over three missed terms. Two
  presses overlap; `MaxOrders = 2` is what a second order for a term needs. The
  offsets are those of Zurich.
- `WorkOrderPush`: `MaxHandlers = 1` (requests one after the other, notifications
  as late as they like), `MaxInFlight = 1` and `MaxInactive = 1`; the two
  configurations above raise the first two.
- `Accounts`: `AccessTTL = 1`, `RefreshTTL = 2`, `MaxHandling = 1`, a clock to 5
  and two changes: a chain of two refreshes around a change and a tick after the
  last access token.
- `GenesisImport`: every combination of three lists of buildings of the chimney
  system, seven of the wood-heating system and four of installations (with and
  without numbers and references, wrong and repeated ones among them), and two successive
  archives with persons, tariffs and employees; two faults; `ChunkSize = 2`
  leaves full and partial chunks.

Deadlock is looked for wherever the model never stops. `CHECK_DEADLOCK FALSE`
stands where a bound of the instance ends it: the presses (`order_serial`), the
requests and tokens (`work_order_push`), the clock (`accounts_rights`), or the
days, dates and orders (`recurring_presses`).

### Fairness

- `OutboxSync!Fairness`: weak fairness of a run's own steps, as awaited calls
  return and the timer and the listener keep starting runs; weak fairness of
  `DelayElapses`, as time passes. Nothing is assumed of edits, crashes or pulls; in
  `outbox_two_runs` pulls do not fail and the app is not killed, as
  `EntriesAreAttempted` is false otherwise (`OutboxSync_crash_stuck`; a pull that
  always fails pushes nothing).
- `SyncPull!Fairness`: time passes, somebody logs in, statements commit, the
  timer starts pulls and they go on; strong fairness of applying a page of each
  type, as not every reply is lost and not every pull is killed. Writes, edits
  and their pushes may stop.
- `GenesisImport!LiveSpec`: the command goes on, and an operator starts it again
  for an archive whose batch is not completed, however often it fails; the
  number of faults is bounded.
- `RecurringOrders!Fairness`: an open transaction goes on; SQLite gives the
  database to those that wait for it in turn (strong fairness of
  `BeginTransaction`, which other transactions disable again and again).

## 4. What is proved

All theorems hold for every set of rows, types, runs, handlers, requests,
tenants, users, devices and installations, every choice of faults and every
value of the bounds, from the assumptions on the constants alone (`ConstantsAssumption`,
`PushAssumption`, `WorkOrderAssumption`, `PullAssumption`, `AccountsAssumption`,
`RecurringAssumption`, `OffsetAssumption`, `ImportAssumption`, and for the archives
`ArchiveAssumption`, `FolderAssumption`, `UndefinedAssumption`)
and what a theorem assumes by name. The inductive invariants were checked by TLC
on the instances of section 3 before they were proved.

`OutboxSyncProofs`
- `TypeCorrect`: `TypeOK` and `IdsInTable`, any number of runs. Ids must be part
  of the induction since a run indexes the table with what it has listed. What
  the handlers of the UI write is one lemma, `LocalWriteEffect`: one row with a
  pending entry of its content (`Writes`), and entries of rows with a file behind.
- `MergeTargetUnique`: at most one pending update entry per row, any number of
  runs. A merge keeps the entry's place and status, an append happens only
  without a pending update, and no write-back ever makes an entry pending.
- `NoOrphanedRow` (one run at a time): an unsynced row of a mapped type has an
  entry that is not done. Not inductive alone: when an entry is marked done, the
  row must be synced or have another open entry, which depends on what the run
  established two awaits earlier. `QueueInv` adds `RunOwnsItsEntries`.
- `EntriesFollowLifecycle` (one run at a time): `OutboxSync` implements
  `OutboxLifecycle`; initial states and every step are mapped through the status
  column, with the same invariant.
- `UnsentContentStays`: any number of runs and handlers, every fault. That the
  content of a row is in an open entry is not inductive: an overlapping run that
  has read the entry writes its status back some awaits later. `ContentInv` asks
  more of the entry that holds the content (`HeldBy`): every run that has it listed
  or at hand has this very content, and has not been answered "accepted" for it
  (`Keeps`). Only rows with a file are uploaded (`UploadsAreFiles`), the others
  are pushed.
- `DoneMeansAccepted` (one run): `DoneInv` adds to `QueueInv` that the run, at every
  step, has the content it listed, or one merged since, in its hands, and that a
  push that was answered "accepted" was one of that content
  (`RunsReadWhatTheyListed`).
- `ProcessingHasOwner` (`NoCrash`): any number of overlapping runs; inductive with
  `TypeInv`. With a kill it is false (`OutboxSync_crash_stuck`).

`SyncPullProofs`
- `OrdersAnnouncedOnce`: any number of overlapping pulls, every fault. An order is
  in the list of what is to be announced only if the device has just got it, and
  the device never loses a row.
- `CursorPassesNothing` (`OneTenantOnePull`): `NothingSkipped` is not inductive, as
  the page under way holds what neither the device nor a later cursor covers.
  `CursorInv` says of each step of the pull what the device may lack: what is
  newer than the stored cursor, or is in the page, or is newer than the time the
  page will bring.
- `PullTypeCorrect`: `TypeOK` with all its bounds, any number of pulls. `PullInv`
  holds times that are natural numbers and pages that name a row once; `Bounded`
  adds that no stored time is beyond the clock's bound.

`ServerPushProofs`
- `PushInv` is `TypeOK`, `EstablishedStays`, `AcceptedWasApplied` and
  `AnswersAgreeWithLog`. `Monotone` collects why what one handler established is
  not undone by another: made entries stay, verdicts are written once, counts
  grow, and without relation fields in payloads (`NoRelinks`) rows keep their
  tenant. Every action is shown to be monotone, and the
  promises of the handlers that do not move follow from that.
- `PushTypeCorrect`, `OneVerdict`, `AcceptedIsWritten`, `EstablishedIsStable` are
  parts of it; `TenantIsolation` is the action property that follows. It assumes `NoRelinks`,
  as a payload with the field moves a row, and is about the rows outside
  `TenantRecords`, as for those it is false (`push_tenant_rows`).
- `VerdictIsFinal` (`SingleHandler`): what a kill and a repetition leave is an entry
  without a verdict. `EntryUndecided` says that the entry at hand has none from its
  lookup until the handler stores one; with overlapping requests it is false, the
  second has looked the entry up before the first answers.
- `WritesRaiseVersion` and `StaleIsNeverWritten` (`SingleHandler`, `NoDispatch`):
  `VersionsCount` says that the version of a row counts its writes, and so does
  the base version of every entry, which is never ahead of the row;
  `ReadUpToDate`, that the version a handler has read is still the row's, and
  that an entry that passed the comparison is still not behind it.
  Equal versions then mean equal rows. With the dispatcher, which changes rows
  and keeps the version, both are false (`ServerPush_dispatch_overwritten`).

`WorkOrderActionsProofs`
- `OrderTypeCorrect` and, without kills, `ChangesAreQueued` (`PendingIsQueued`):
  any number of handlers. A handler that overwrites another one still makes its
  own outbox entry, so nothing local is left unsent.
- `AttachmentsStay` and `VersionsRise`: one handler at a time (`OneHandler`), with
  pulls, pushes and kills. The invariant is `CopyIsCurrent`: what was read before
  the transaction still agrees with the row when it is written back. With two
  handlers it is false (`WorkOrderActions_signature_lost`).
- `ClockFollowsStatus` and `CompletedOrdersStay`: one handler and no pull.
  `PressedIsEnabled` carries the guard of the button to the transaction, which
  does not test the status again; `RunningEntry` names the entry that runs, as a
  number of open entries alone does not say which one the closing finds.

`RecurringOrdersProofs`
- `AddMonthsLater`: adding months gives a moment of the calendar that many months
  later, at the same hour, on the same day or one of the last days of a month.
  `RecurringTypes` follows.
- `OneOrder` (the hours of the office's dates are those of the same day in UTC,
  `OfficeHours`): any number of presses, whatever else happens. `PressInv`: one
  transaction at a time, one plan per installation, and only where no order
  stands. `DaytimeInv`: the hour of a date never changes. `KeptInv`: an untouched
  order is open on the date it was made for, so the second look finds it.
- `DatesAreServed` (also `ChangesDuringPress = FALSE`): a date is held by a row, by
  rows read for notes and by the copies and plans of presses. `OpenInv` says that
  of all the dates held for an installation at most one has no order; a commit
  therefore serves that one and may overwrite any of the others.
- `DatesFollow` (`ChangesDuringPress = FALSE`): `FollowInv` extends
  `TermsFollowTheInterval` to every date that is held, and to intervals above
  zero in copies and plans.

`WorkOrderPushProofs`
- `NotificationTypes`: any number of everything.
- `TokenFollowsSession` (`MaxInFlight = 1`): a notification that has read its tokens
  may revoke one later. `SessionInv` says that a token is given to one device and
  never again, that what is about to be revoked is the token of no device, and
  that a registration under way is that of the user who is logged in.
- `TheAssigneeIsTold` (`MaxHandlers = 1`): `ToldInv` names for every device that is
  still owed the request or notification that will tell it (`WillTell`), at each
  of its steps.

`AccountsProofs`
- `AccountsTypeCorrect`, and `RightsRunOut`: for any life times and any chain of
  refreshes. `AccountsInv` bounds the expiry of every access token, and what a
  handler has read, by the time the role was last held.

`GenesisProofs`, first the mapping, for archives with any tables and rows
- The loops are recursive functions, so what they compute needs an induction over
  the rows, and the induction theorems of the library cannot be used, as they take
  the property as an operator. Their first-order form can: `SetInduction` says
  of a set of numbers that it is all of `Nat`, from `NatLessThanWellFounded` and
  `WFMin`; the set is that of the numbers of rows after which the property holds.
  `EachStep` gives the maps after each row of a loop (`Iterates`), and
  `FlattenStep` does the same for `FlattenSeq`.
- `PlansFit`: the plan of any archive has every source key and record key once,
  an id for each key, and references that are ids of other drafts. The invariant
  of the loops is `Sound`: the lists are drafts, the indexes lead to ids of drafts,
  and references do. It is the reference half that needs the indexes: an object id
  that an installation gets out of an index must still be that of a draft when
  the last loop has ended, though `set` replaces drafts.
- `BuildingsBecomeOne`, `InstallationsStandOnBuildings`,
  `AssignmentsFindTheirTariffs`, `OwnersBecomeCustomers`: the four properties of
  `Genesis`, as invariants of the import. Each loop has an invariant that says of
  the first n rows what they have left in the maps: `KfdMapped` (the object of
  each row, what the two indexes lead to, where the drafts come from), `FkMapped`
  (the indexes grow and keep what they had; a row with a known number or address
  gets that object), `FestMapped`, `TariffMapped` (the first entry of a code stays),
  `GivenMapped`. `Stays` says which maps a loop leaves alone, so that what one loop
  has established holds of the plan (`LoopsRemain`), and `EntityIs` that the
  legacy record of a row names what the loop has mapped it to. The owner needs two
  more arguments: owners come first in the sort of the contacts
  (`PrimaryIsOwner`), and the buildings of the control overwrite no customer of the
  first system, as the prefixes of their keys differ (`DraftsRemain`).

Then the import, from `PlansFit` alone
- `ImportInv` relates the tables to the place the import has reached: `RowsAreDrafts`
  (every row comes from a draft of some archive, and has its key and its id),
  `EmailsAreDrafts`, `PassedAreHeld` (every draft before the present place has its
  row, with the columns of the draft), `RecordsFollow` (the records of the batch
  are those of the chunks that were written), and `Shape`, the types.
- `ImportTypeCorrect` follows, and `CompletedMeansImported` (`ImportedAsPlanned`):
  any tenants and archives, after any failed attempts, kills and imports of other
  archives. A later upsert updates the row of its own key and no other, which
  needs that ids and source keys name the same drafts.
- `KeysNeverRefuse` (`NeverRefused`): the order of the tables has every referenced row
  written first. Two hypotheses: `SingleTenant`, as the ids are hashes of keys
  without the tenant, so that a second tenant with the same archive is refused;
  and `EmailsDiffer`, as an email is made of the letters and digits of an
  employee's code, and the mapping sees to no difference of those. Both are
  listed as hazards; TLC evaluates `EmailsDiffer` on the archives of the run.

Only model-checked are the liveness properties (`EntriesAreAttempted`,
`CatchesUp`, `ImportsComplete`, `PressEnds`), which the prover does not reach: they
need fairness and ENABLED. Every other property of the runs, the invariants, the
action properties and the refinement, is stated by a theorem.

## 5. Not modelled

- The session on the device, file uploads and material stock: their hazards are
  in `PROJECT.json`, with the lines; they are the next modules of the plan.
- Conflict resolver and network monitor: the first has no caller, the second only
  says when a run may start, and `OutboxSync` starts one at any time.
- Creating checklists from a template, service lines, deletion and manual time
  entries of a work order: local writes of the shape `OutboxSync` has.
- Pages and scripts of the disposition portal, screens, routing and theme,
  localisation, formatting (PDF, invoice, calendar), Bluetooth byte parsing, the
  route optimizer and the offline map: presentation and pure functions.
- Parsing in the importer (ZIP, MDB, dates, texts), password hashing, the profile
  of a tenant, list queries with paging and filters, configuration and generated
  code.

The environment (SQLite, PostgreSQL, Prisma, Drift) is taken to execute
transactions atomically, Drift to let statements of others wait for an open
transaction, and PostgreSQL to give single statements an order. `PROJECT.json`
lists the parts, and under `hazards` what can go wrong in the code, with the
property that covers it or what is missing.

## 6. Plan

1. `MaterialStock`: check and consumption, two screens, pulls, the unmapped type
   `material`; stock never negative, consumption and stock agree.
2. `AuthSession`: revision counter, late answers, five keys, kills; memory and
   storage name one account after a restart.
3. `FileUpload` with the status that no call looks at, and a signature whose save
   was left half done.
4. A composition of the outbox of a device with `ServerPush`: delivery in order
   of the entries of one row, end-to-end "an edit that is done is on the server".
5. `GenesisImport` beside the office: a repetition over rows that others have
   changed, and a second tenant with the same archive.
6. Proofs: the invariants of the modules above as they are written.
