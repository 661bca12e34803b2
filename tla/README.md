# Verification of the packing back end

TLA+ specifications of the parts of this NestJS/Prisma service in which several people and
several processes change the same rows: the audits of stock and of bills of material with their
background report, the import of ERP files, the work of desks, order import and handhelds on a
sales order, the issue and packing of its materials, files and places, dispatch on vehicles, the
archive, and master data. Each module is translated from the services it names; paths below are
relative to `src/src/modules/`.

- [1 The system](#1-the-system)
- [2 Modules and code](#2-modules-and-code)
- [3 What the runs check](#3-what-the-runs-check)
- [4 What was found](#4-what-was-found)
- [5 What is proved](#5-what-is-proved)
- [6 What is not modelled](#6-what-is-not-modelled)
- [7 Plan](#7-plan)

To check a run: `tlc -config MCSoArchive.cfg MCSoArchive.tla`. To check the proofs: `tlapm
BomAudit_proofs.tla`, and the same for every other module `..._proofs`.

## 1 The system

One Node.js process serves HTTP requests from web screens and handheld devices, and runs timers.
All lasting state is in PostgreSQL; files are on an SFTP server. Requests interleave at every
`await`, that is, at every database or SFTP call. Only what stands inside a `$transaction` is
atomic; only two services lock the row they decide on (`SELECT ... FOR UPDATE`), and audit
numbers are taken under an advisory lock (`audit/shared/audit-number.util.ts:34`).

| Component | State | Operations | Works with |
| --- | --- | --- | --- |
| BOM audit desk (`bom-audit.service`) | `BomAudit`, `BomAuditLocation`, `BomAuditMaterial` | upload an Excel file (one audit per operator in it), re-assign, delete | operators' handhelds |
| BOM audit handheld API (`bom-audit-mobile.service`) | the same rows, the handheld's offline copy | download (takes the audit), start, submit some or all locations | retries after lost answers |
| BOM reconciliation (`bom-reconciliation.service`) | decisions on the lines | decide one or many discrepancies, close | report |
| BOM report (`bom-audit-report.service`) | `reportPath`, `reportAttempts`, file on SFTP; `inFlight` and `retryRunning` in memory | generate in background, retry every ten minutes, download | SFTP, close |
| Issue and packing (`erp-material-data.service`) | `Issue_stage`, `Packing_stage` of each material row, status and stepper of the order | scan, enter a quantity, accept a group, accept all | efficiency, dispatch |
| Efficiency (`efficiency.service`) | `Efficiency_PP` | record that a stage is complete | called by the stages |
| Vehicle entry (`vehicle-entry.service`) | `VehicleEntry` | enter a vehicle at the gate, once a day | dispatch, archive |
| Dispatch (`dispatch.service`) | `Dispatch`, `Dispatch_SO` | create with a vehicle of today, change the vehicle, add and remove orders, delete | orders, entries, archive |
| Order archive (`so-archive.service`) | the `...Archive` tables | archive by hand or nightly, delete for good | dispatch, entries, import logs |
| ERP importer (`erp-material-importer.service`) | order materials, customers, files moved between folders; locks in memory | timer over the orders due today, bulk import of numbers, import by number, upload | orders, stages |
| Order import and reset (`sales-order.service`) | `SalesOrder`, stepper | bulk import, reset to the beginning | everything on the order |
| Order administration (`admin-order.service`) | the same, assignments | update with its stepper calls, bulk assignment, priorities, skipping the issue, Excel import, remove | handhelds, dispatch |
| Sales desk (`sales-crud.service`) | the same, labels, attachments, audit trail | create, update, delivery dates, print, attach, remove | printer, SFTP |
| User dashboard (`user-dashboard.service`) | counts, status, attachments; the handheld's offline copy | download, sync in one transaction, upload row by row, its own completion check | stages, desks |
| ERP material files, attachments (`erp-material-file`, `dispatch`, `vehicle-entry`) | rows or JSON lists of files; files on SFTP | upload, remove | SFTP |
| FG storage (`fg-storage`, `manual-fg-storage`) | places as JSON on the order, a stepper date | assign places | dispatch clears them, the desk and its Excel import write over them |
| Cycle count (`audit/cycle-count`, `audit/shared`) | uploaded stock, audits, the counter of audit numbers | upload, preview a plan, release it, delete an audit | shares the numbering with the BOM audits |
| Master data and users (`lookup`, `users`, `auth`) | eight lookup tables, `User` | create, rename, delete, bulk import, sign-up | orders refer to the rows; the importers make some |
| The rest | chat, reports, dashboards, APK versions, audit log | single-row changes and queries | |

### What is hard here

- *Check, then write.* Most handlers read in one query and write in another, and most
  conditional writes repeat only part of the condition (`download` repeats the status but not
  the operator; a scan repeats nothing; the archive relies on counts of the past).
- *Retries.* Handhelds submit again when an answer is lost, at any later time.
- *Work that outlives the request.* The report is generated after the response; a restart
  between the two loses it, and only the retry interval brings it back.
- *Results out of order.* A report that was started before the close may be saved after it.
- *Completion by several hands.* Whoever finishes the last material is expected to notice.
- *Cascades.* Deleting a dispatch takes links with it that were not there when it was read.
- *Stale forms and copies.* Desks write plans of up to ten calls, the Excel import writes back
  columns as it read them, and handhelds send absolute counts of copies made hours ago.
- *Two stores.* Files go to the SFTP server first and into the database afterwards, or the other
  way round when they are removed; nothing spans both.
- *Lists in a column.* Attachments and places are JSON, read, extended and written back whole.
- *Rows named from outside.* A handheld is checked for one order and then writes the rows whose
  IDs it sends, whichever order they are of; without IDs a code, and without an OBD a number,
  reaches rows of several orders.
- *Locks in memory.* The importer locks numbers in a set of its process, and only some paths
  take the lock.
- *Keys that are not quite keys.* Two orders of one sale order number (split by outbound
  delivery) share log rows and stepper clean-up. Most lookup tables have no unique name.

### What makes the parts correct

- The audit: its status follows what was counted, no two counts mix, what is uploaded stays,
  what is taken stays with its operator, it closes only when every discrepancy is decided.
- The report: it exists only of submitted audits, the last one saved shows the closed audit, and
  it is saved or given up whatever fails.
- The stages: nothing counted is lost, the overrun of a count is bounded, completion is noticed,
  status and stepper agree afterwards.
- The order: the stepper dates what the status says and nothing more, a request changes the
  columns it was asked to of the order it was asked for, counts change only to what a handheld
  sent for the row and are not taken back except by stale copies and shared codes.
- The importer: one import at a time works on a number, an archived file was stored, counts made
  since an import are not replaced by a bulk import, and the file of an order that stays due is
  imported or taken away.
- Files: what is recorded is on the server, a request takes from a list only what it removes or
  had not read, and the other losses are those the code means (the end of an order, a dispatch
  or an entry; places cleared or written over).
- Cycle counts: a number is given once and none is skipped, a plan is shared out whole, and all
  of it appears in one step.
- Master data: one row for a name, an administrator remains, a bulk import is whole.
- Dispatch and archive: an order that leaves its last vehicle is put right, an entry in use
  stays, the archive's references resolve, dispatched orders get archived.

## 2 Modules and code

| Module | Models | Extends or uses |
| --- | --- | --- |
| `AuditLifecycle` | abstract: what an audit promises, with no requests, handhelds or quantities | |
| `BomAudit` | desk, handheld API, reconciliation | implements `AuditLifecycle` (`LifecycleSpec`) |
| `BomReport` | report service | extends `AuditLifecycle`, adding the report's side of submit and close |
| `StageTracking` | issue and packing, efficiency record | |
| `Dispatch` | gate entry and dispatch | |
| `SoArchive` | archive and its nightly sweep | extends `Dispatch` |
| `ErpImport` | import of ERP files | |
| `OrderTable` | the tables that desks and handhelds share, and how a request works on them | |
| `OrderDesk` | administration, sales desk, order import and reset | extends `OrderTable` |
| `HandheldSync` | user dashboard | extends `OrderTable` |
| `OrderWork` | desks and handhelds together | extends `OrderDesk` and `HandheldSync` |
| `AuditBook` | abstract: what the release of cycle counts promises, with no transactions, locks or counters | |
| `CycleCount` | stock files, plans, audits, numbering | implements `AuditBook` (`BookSpec`) |
| `Attachments` | attached files of orders, dispatches and entries; places of finished goods | |
| `MasterData` | lookup tables and users | |
| `..._proofs` | theorems: of `BomAudit`, `StageTracking`, `SoArchive`, `ErpImport`, `OrderWork`, `CycleCount`, `MasterData`; of `BomReport` and `Attachments` in `ServerFiles_proofs` | extend the modules they are about |
| `MC...` | instances for TLC | extend the module they instantiate |

### Grain of the steps

A transaction is one step. A handler that locks the audit row and works in that transaction
(`submit`, `review`, `bulkReview`, `close`) is one step altogether. Everything else is split at
its database and SFTP calls: a step that keeps what was read in the request's record (`hand`,
`desk`, `req`, `job`), then steps that use it however old it is by then. Requests of that kind
are limited by the sets `Requests`, `Admins`, `Jobs`, `Clerks` and `Sweeps`.

The transactions run at PostgreSQL's default isolation, so two of them could still interleave
inside. Where that matters for a property it is modelled: the advisory lock of an audit number
is held to the end of the release (`CycleCount`), a handheld's sync computes on what it read and
commits in a second step, with the rows it wrote locked (`HandheldSync`), and a bulk import of
master data reads and commits apart (`MasterData`). The other transactions are taken as one step:
exact where the row is locked first, an abstraction for the longer ones of dispatch, archive and
importer.

Operators a mutant uses (a "version that ..." just before the real one) are not part of any
specification: they show that the properties notice such a change of the code.

### BomAudit

`status`, `operator`, `startedAt`, `submission` are columns of `BomAudit`; `upload` and
`lineStatus`, `decision` those of its locations and lines. `Create` makes all audits of one file
at once, as `saveAudit` does in one transaction. `sent` holds every submission a handheld has
made: `Submit` may process any of them any number of times, which is how loss, delay and
duplication of requests appear. A submission that is refused, or recognised as processed,
changes nothing. `LineResult` is the status `buildSubmitPlan` gives a line from its counted and
expected quantity. `Restart` ends every request that is between two calls. `takenBy` is history:
whose request took the audit.

### BomReport

`calls` counts `generateInBackground` calls on their way, `gen` is the generation in flight per
audit (the map `inFlight`) with what it has read so far: the audit row and the lines come from
queries of their own. `retryRunning`, `retryTodo`, `retryOn` are the running retry. SFTP may
fail at every attempt; database errors and restarts are bounded by `MaxFaults`.

### StageTracking

`count[s][m]` is `Issue_stage` or `Packing_stage` of a row. A scan picks the first row with room
and increments it later, without a condition (`ScanRead`, `ScanWrite`). After its write every
request reads the order's rows again and, if a stage is complete, goes through its writes one at
a time (`todo`): status, efficiency record, stepper. `missed` is history: orders changed by a
request that did not get to check them, because of a restart or because the row was another
order's.

### Dispatch and SoArchive

`links` are `Dispatch_SO` rows; `entryOf` is the vehicle entry of a dispatch; `today` tells
which rows were created on the current day, which is all the code compares dates for. `F105`
stands for every status before the dispatch. `removeDispatch` and the archive act on what they
read earlier: `req[r].orders`, `job[j].links`, `job[j].rows`. The material, chat and stepper
rows follow the order; the import's log rows are kept apart (`logs`, `logArchive`) because the
code finds them by sale order number. A write that the database would refuse is a step that
changes nothing (`ArchiveFails`, `PurgeFails`, the second disjuncts of the writes).

### ErpImport

`folder` are the three directories on the server, `locks` the set `activeImportLocks`, `job` the
imports on their way: a bulk import (`Sweeps`) with its list `todo` of what it read before it
locks anything, and a clerk's import by number or upload (`Clerks`; an upload takes no lock). A
bulk import is started by the timer (`Timers`, `TimerFires`; the timer does not wait for the
previous one) for the numbers that have an order due that day (`due`), or by a clerk for any
numbers (`StartBulk`). `DatesChange` is the turn of the day, or a delivery date moved. An order
may be without an OBD (`NoObd`): no file is named after it, so it finds none. A job goes through
`look`, `validate`, `customer`, `store`, `move`, `setAside`: finding the file, comparing its
rows with the order, finding or creating the customer in two calls, the transaction that
replaces the rows, and the move to `archive` or `error`. Each of these may fail (`LookFails`
...), and `Restart` forgets all locks and jobs. A file is what its rows say, its name and its
customer. `stored`, `replaced`, `by` and `delivered` are history.

### OrderTable, OrderDesk, HandheldSync, OrderWork

A handler of a desk reads, decides, and then makes its calls one after the other: what it decides
is a `plan` of writes, and each write is a step (`Write`) that may also be refused by the
database (`Possible`). An update by the administrators with a new status is a plan of up to ten
writes, a bulk assignment one write decided long before. A handheld downloads (`Download`, which
also scans offline) and sends absolute counts: `sync` in one transaction with the files put on
the server before it commits, `data` a material at a time, both followed by the completion check
of the dashboard, which is not that of `StageTracking`. `epoch` tells materials of one import
from those of the next, as their IDs do.

The server checks who may write to an order, not whose the materials are that it is sent. The
model lets a handheld send any rows there are: by ID, each row gets its own count; by code
(`Sources`), every row of that code which the order reaches gets the last count sent for it
(`Lasts`). An order with an OBD reaches its own rows; one without (`NoObd`) those of its number
(`Scope`, `Reached`), and its completion check takes any order of the number (`Found`).

History: `mixed` are orders whose requests overlapped or were cut short, or that a handheld's
request for another order can change (`Foreign`); a request's `moved` and `stale` say that its
order, or which materials, changed under it. The properties say what is true of all orders, and
what only of orders that are not mixed. `terms` stands for the columns that are only stored.

### CycleCount

`lock` is the advisory lock of the numbering, `counter` the table `AuditNoSequence`. A release
(`job`) takes a number for every operator under that lock and commits them all or none. Only a
month without a counter looks at the numbers in the table (`LastNumber`). A preview and its
release are two requests, with the plan carried by the browser; an answer may be lost, after
which the clerk releases again. `given` and `twice` are history. Bins are ranked and shared out
as the code does (`PartSize`: the ceiling).

To a clerk all this is one step, or none. `AuditBook` says so: a clerk has a plan, which is
released as audits with the next numbers of their month, or dropped. The mapping takes `plan`
from the releases (`job`), and `audits` and `given` as they are; a commit is the release, a
release refused at the limit of the month drops the plan, and every other step of a release
leaves the book alone.

### Attachments

Owners differ by kind: the sales desk probes the server for a free name, the ERP files look for
one among their rows, handhelds (`field`), dispatches and the gate write over a file of that
name; dispatches, the gate and places keep a JSON list that is read, extended and written back.
`place` are the places of finished goods, in a JSON column too. A request goes through its
calls (`step`), any of which may fail. An owner's records are those of its folder.

What else writes the lists: the removal and the archive of an order, a dispatch or an entry
take its rows and leave its files (`Drop`); of a folder that orders share (ERP files and
handhelds' files, by number) they take the rows that name the order. Deleting the archive, or a
dispatch, deletes folders with all that is in them (`Purge`, `Inside`). A dispatch clears the
places of an order (`ClearPlaces`); an update by the administrators and the Excel import write
over them or clear them (`OverwritePlaces`), without reading first. After the end of its owner
a request that is still running fails (`Lives`).

### MasterData

A behaviour is about one table (`kind`), whose differences are in `Tables`: whether it has a
unique key, what deleting a row does to orders, what a bulk import does for a name without an
id, and how others look for a name before they make a row. `excuses` is history: what has
happened that may leave two rows with one name. Orders and importers act in single steps here.

## 3 What the runs check

| Run | Instance | Shows |
| --- | --- | --- |
| `bom_audit` | one audit, two locations, three lines, two operators, two handheld requests, one desk, two submission ids, six payloads | `StatusMatchesUploads`, `ClosedIsSettled`, `OneCountPerLocation`, `UploadedLocked`, `TakenStaysWithOperator`; every behaviour is one of `AuditLifecycle` |
| `bom_report` | one audit, two locations, one line, three attempts, two faults | `FinalReportUnlessOverlap`, `ReportSavedOrGivenUp` |
| `stage_tracking` | one order, two rows of one code, quantities from -1 to 1, two requests | `OverrunBounded`, `CompletionSeen`, `StatusHasItsSteps` |
| `so_archive` | two orders, two dispatches, two entries of one vehicle, one dispatch request, one archive request | `StepperAgrees`, `EntryKept`, `UnloadedUnlessLate`, `ArchivedLinksResolve` |
| `so_archive_sweep` | two orders, one dispatch, the sweep and two more archive requests | `DispatchedIsArchived` |
| `erp_import` | two orders of one number with one of two OBDs or none, two files under one name (one says the other OBD, one customer has no address), one bulk import by the timer and one by a clerk, one other import or upload, one fault, one start by a clerk | `LockedByOne`, `ArchivedWasStored`, `CustomersBounded`, `SweepKeepsImported`, `WaitingFileHandled` |
| `orders` | an order with two materials of one code at every stage of its life; beside it a new one of its number without an OBD, or one of another number; one user, two requests | `StepperAgrees`, `DispatchedKept`, `OnlyAskedChanges`, `CountsFallOnlyStale`, `CompletionSeen` |
| `cycle_count` | three bins, two clerks, two operators, two months of two numbers, one audit from before the counters | `NumbersAccounted`; every behaviour is one of `AuditBook` |
| `attachments` | one owner of each kind, the handhelds' folder inside that of the ERP files, one name, two clerks, three requests, removals or overwritings | `RecordedFileIsThere`, `EntriesKept` |
| `master_data` | every table in turn, three spellings of two names, one order, six sheets, two clerks, four rows, three requests | `NamesDistinct`, `AdminRemains`, `BulkStoresNames` |
| `bom_download_race`, `so_archive_split` | that of `bom_audit`; two orders of one number | violated, see section 4 |

Type invariants (`TypeOK`, `ReportTypeOK`, `ArchiveTypeOK`, `ImportTypeOK`, `WorkTypeOK`,
`CountTypeOK`) go with the runs and also hold what is below a property's interest: that who has
taken a number has the lock, that a job of a step has the file it needs, that counts go with
their order, that a label is printed only once it is recorded.

### Why the bounds are enough to be interesting

- *Audit.* Two locations make partial uploads possible, and two ids let uploads overlap; the
  payloads produce each line status, a refused and an empty submission. Two handheld requests
  beside a desk give every race of download, start, re-assign and delete.
- *Report.* Three attempts and two faults let a restart fall between any two steps and leave
  room for recovery.
- *Stages.* Required quantities of one with two rows: the first overrun, and the move of a scan
  to the second row, both happen. Two orders do not fit into five minutes: a quantity entered
  for another order's row is covered by the theorems only, which hold for any number of orders.
- *Dispatch and archive.* Two orders may share a dispatch or be on two; two entries of one
  vehicle are two days, or a second entry after the first went to the archive.
- *Import.* Two orders of one number share a lock and can be corrected to the same OBD; a second
  file under one name is what a sweep with an old list meets. The timer, beside one import that
  a clerk starts, gives every pair of jobs but two of the timer's or two of clerks', which the
  theorems cover. The day may turn, or come back, at any step.
- *Orders.* Two requests are what a race needs, and every pair of the desks' and handhelds'
  handlers occurs, at every status. What matters of the second order is that it shares the
  number, so that what is sent for it by number reaches the rows of the first, or that its user
  may send IDs of the first one's rows. Two materials of one code make a code ambiguous.
- *Cycle counts.* Two numbers a month reach the limit, and two months its turn; two operators
  with three bins make unequal shares.
- *Files.* With one name every upload clashes. Three requests: two that overlap, and one that
  comes after them, or the end of the owner, or the desk. Four were checked once, with the same
  result, and take three minutes.
- *Master data.* Two spellings that are compared as one, and a name apart, make each way to a
  double row; the third request does something with it.
- `Dispatchable` and `Closable` say which orders are dispatched and which audits are ever closed
  in a run. `Dispatches`, `Entries`, `MaxRows` limit how many rows are created, `MaxFaults` the
  faults, `MaxRequests` and `MaxTries` the requests (in `Attachments` also the removals, archives
  and overwritings; in `ErpImport` what clerks start), `SubmissionIds` the submissions. No other
  counter is cut off, except that `reportAttempts` stops at `MaxAttempts`, above which the code
  does not tell values apart.

`Requests`, `Clerks` and `Operators` are symmetric in `stage_tracking`, `attachments`, `orders`
and `cycle_count`, which check no liveness. Deadlock is checked except in `bom_report`,
`orders`, `attachments` and `master_data`: there the system stops when every report is saved or
given up, or when the bounded number of requests is used up.

### Fairness

Three specifications assume any.

- `FairReportSpec`: weak fairness of each generation and of the retry. The event loop runs what
  is ready, and `@Interval` fires again and again. `DatabaseFails`, `LoseFailure` and
  `RestartServer` are not fair and bounded. Nobody has to submit, close or download.
- `FairArchiveSpec`: strong fairness of the sweep's `archive` of each number and weak fairness
  of finishing what is running. The sweep runs every night, lists all dispatched orders and
  tries each, going on after a failure, so an order that is dispatched again and again is tried
  again and again. Waiting three days before the first try is left out: an order that stays is
  tried later all the same.
- `FairImportSpec`: weak fairness of every import that is running (each awaits calls that
  return), of the timer, and of taking each order of a list. The timer runs every five minutes
  from seven to midnight, Indian time, and lists only the numbers with an order due that day
  (`autoProcessActiveFolder`): with none it lists nothing, and when the day turns it stops
  listing yesterday's. Nothing makes a day last or a date come, so `WaitingFileHandled` speaks
  of numbers that stay due and of orders that have an OBD. Failures and restarts are not fair
  and bounded; the ERP need not deliver, nor clerks import.

## 4 What was found

Two properties are violated:

- **`TakenByItsOperator`** (`bom_download_race`). `download` checks the operator in one query
  and takes the audit in another that checks the status only
  (`bom-audit-mobile.service.ts:84-95`). Re-assigned in between, the audit is `IN_PROGRESS` for
  an operator who has not downloaded it and, since it left `ASSIGNED`, it can be neither
  re-assigned nor deleted. It can still be downloaded and counted by its new operator.
- **`DispatchedIsArchived`** (`so_archive_split`). With two orders of one number, archiving the
  first copies the number's log rows with their ids and leaves them in place, because the other
  order remains. Archiving the other one copies the same ids again and fails on the key, every
  night, until the archive of the number is deleted.

Others hold only with exceptions that the properties name, and that nothing else leads there is
what they say:

- *Stages.* Two scans that read the same row with one piece missing both increment it;
  `OverrunBounded` shows the extent: fewer pieces too many than there are concurrent requests.
  Accepting a group for packing computes the limit of the issue and does not apply it.
- *Dispatch and archive.* An order put on a dispatch after a removal or an archive had read it
  goes with the dispatch and stays `Dispatched` without a vehicle (`UnloadedUnlessLate`). An
  order archived while a delete is running may lose its archived dispatch
  (`ArchivedLinksResolve`).
- *Import.* A file dropped over one whose import is running is archived unread
  (`ArchivedWasStored`). A bulk import replaces materials, and the counts made on them, when
  they came by an upload, or when their file could not be moved away (`SweepKeepsImported`). A
  customer without an address may be made by each of the imports that overlap: one for each
  number, and each upload (`CustomersBounded`). A file of an order whose date has passed, or
  that comes after its day, stays in the folder until a clerk imports it, and one of an order
  without an OBD until it gets one (`WaitingFileHandled`).
- *Orders.* Where requests overlap or are cut short, the stepper may not follow the status
  (`StepperAgrees`). A dispatched order can be taken back by a form, by a handheld with access
  by number or with an order of the number that has no OBD, and by a request that decided before
  it was dispatched (`DispatchedKept`); the Excel import writes back users and terms as it read
  them, and a handheld may set counts of orders it was not checked for, by their IDs
  (`user-dashboard.service.ts:518-522`) or, for an order without an OBD, by number and code
  (`524-530`), and so complete another order of the number (`OnlyAskedChanges`); a stale copy
  takes counts back, and of several rows with one code each gets the last count sent
  (`CountsFallOnlyStale`). That a row of an order got its counts through another one is not
  followed by that order's status (`CompletionSeen`).
- *Files.* Two uploads of one name to the ERP files, and any two to a JSON list, can lose one
  another; a place that is being assigned is lost to a desk's write, and the other way round
  (`RecordedFileIsThere`, `EntriesKept`).
- *Master data.* Two rows with one name come from requests that overlap, from a bulk import,
  which renames without looking, and from the Excel import, which looks for the exact spelling
  (`NamesDistinct`). The last administrator can be given another role (`AdminRemains`).

Met while modelling, and described here without a property, as the code does not say what was
meant:

- The completion of a stage writes `W105` or `F105` also over `Dispatched`
  (`erp-material-data.service.ts:592`). Taking an order off one of two vehicles reverts it to
  `F105` while it is on the other (`dispatch.service.ts:1402`).
- A reset leaves the places of finished goods and the order's place on a dispatch as they are.
- Archiving an order deletes its sales attachments with it (`ON DELETE CASCADE`) without an
  archived row, and the last order of a number takes the handhelds' file rows with it
  (`so-archive.service.ts:214`), of which only those with the order's id were archived: the files
  stay on the server without a record. Deleting an archive removes whole folders, and with them
  files that an order of the same number has put there since.
- After a clerk's bulk import has archived a file, a failing log entry makes it set aside whatever
  file has come under that name since.
- Sharing bins out by the ceiling can leave a selected operator without an audit: four bins and
  three operators make two audits. A release whose answer is lost, repeated, releases twice, and
  two open plans may hold the same bin. A number from before the counters can be used again if
  its audit is deleted before the first counter of the month is made.
- A handheld's sync puts its files on the server before it inserts them; its path is unique, so
  a sync repeated after a lost answer fails every time, having overwritten the file.
- Deleting a packing configuration or a printer clears the column of the orders that refer to it
  (`ON DELETE SET NULL` in migrations `20260127110825` and `20251201110040`), so the messages
  "Cannot delete ..." of these two never appear.
- A bulk import of master data swallows an aborted row, except that a failing barcode insert is
  reported.

## 5 What is proved

The theorems hold for every value of the constants that satisfies the named assumptions: each
module that is proved about declares one, on the shape of its constants (`BomAuditAssumption`,
`BomReportAssumption`, `StageTrackingAssumption`, `DispatchAssumption`, `ErpImportAssumption`,
`OrderTableAssumption`, `OrderWorkAssumption`, `CycleCountAssumption`, `AttachmentsAssumption`,
`MasterDataAssumption`).
The inductive invariants were put to TLC on the instances of the runs first.

- **`BomAudit_proofs`**: type correctness; `StatusMatchesUploads`; `OneCountPerLocation`;
  `ClosedIsSettled`; the action properties `UploadedLocked`, `StartTimeOnce`,
  `TakenStaysWithOperator`; and `ImplementsLifecycle`, the refinement of `AuditLifecycle`. The
  argument goes in that order: with types, the status is tied to the locations still missing, so
  that an upload can only touch a location that has none; then a line's status belongs to the
  submission on its location; a decision is only lost with an upload, which a submitted audit
  cannot have any more, so a closed one stays settled. Each step of `Next` maps to a step of the
  lifecycle or a stutter; the steps of download and start that move an audit from `ASSIGNED` map
  to `Take`, a processed submission to `Count`, a decision to `Settle`.
- **`ServerFiles_proofs`**, of `BomReport`: type correctness and `FinalReportUnlessOverlap`. The
  invariant of the latter (`FinalInv`) says that once an audit is closed with no generation
  overlapping the close, whatever a generation has read of it, has put on the server, or has
  saved is final; the three need one another, since a file is put from what was read and saved
  after it was put. The types need to know that whatever is generated, called for or waiting for
  a retry is of a submitted audit, and how many calls an audit has been given in each phase
  (`TypedInv`); that a retry's turns number its list from one, with none left out, is the lemma
  `Turns`.
- **`StageTracking_proofs`**: type correctness, `OverrunBounded`, `OnlySettingLowers`,
  `StatusHasItsSteps` and `CompletionSeen`. `OverrunBounded` is not inductive. The strengthening
  counts the scans on their way: a count plus the number of scans that have picked its row and
  not written yet stays below the required quantity plus the number of requests (`ScansFit`), and
  an entered quantity on its way is within the required one (`EntriesFit`). For
  `StatusHasItsSteps`, every step that a status calls for is in the stepper, or still to be
  written by the request that wrote the status, or owed by an order that was cut short
  (`StepsInv`). For `CompletionSeen`, every order that is complete and not yet issued is watched:
  some request that changed it has its check before it, and the last one to read finds it
  complete (`SeenInv`).
- **`SoArchive_proofs`**: type correctness, `StepperAgrees`, `EntryKept`, `UnloadedUnlessLate`,
  `ArchivedLinksResolve`. The invariant `ArchiveInv` adds to the types that a dispatch with an
  order on it is there (`LinksActive`) and has its entry, so what an archive request reads are
  rows, and that the rows a running delete has picked carry no other number among the links it
  read (`OwnNumberOnly`); without the latter the step that deletes them could take the dispatch
  of an order it had seen.
- **`ErpImport_proofs`**: type correctness, `LockedByOne`, `ArchivedWasStored`,
  `CustomersBounded`, `SweepKeepsImported`. A job holds a lock exactly in its steps between
  locking and unlocking, and no two jobs hold the same one (`JobInv`). For the archive, the file
  under the name a job is about to move is the job's own, which it has stored, unless it is gone
  or another was dropped over it (`ArchiveInv`); this rests on the lock. For the customers, rows
  that are there and jobs about to create one are together no more than can overlap: one import
  from the drive for each number, as each holds its lock, and one upload for each clerk
  (`CustomerInv`, `UploadsByClerks`).
  For the sweep, what is imported from the folder was delivered under the name it is imported by,
  once; while nothing fails, a file that was stored from there has left the folder, or the job
  that stored it is about to move it and still has the lock, so no job that looks for the file
  finds it again (`SweepInv`).
- **`OrderWork_proofs`**: type correctness, `CountsFallOnlyStale`, `DispatchedKept`,
  `OnlyAskedChanges`, `StepperAgrees`, `CompletionSeen`, that is, every property of the desks and
  handhelds. The types and the three action properties rest on `WorkInv`: every request's plan is
  one that its operation can make (`RequestOK`), and what it has read is still so unless it is
  noted that it has changed (`ReadOK`: counts have not grown above a handheld's copy, untouched
  columns of an Excel row are those of the table, an edit's order is not dispatched). For
  `OnlyAskedChanges` a handheld's counts come from its copy by ID or by code, and no further than
  the code reaches (`SentFor`). The other
  two are about orders on which no requests overlapped and that no handheld's request for another
  order can change (`ForeignMixed`), and rest on `SettledInv`: there is one
  request on such an order at most, what is left of its plan leads to a stepper that fits the
  status it leads to (`Led`), and a handheld whose write completes a stage still has the status
  in its plan (`Sees`); with no request left, the order fits already. This is why `StepperAgrees`
  is not inductive: between the writes of a plan it does not hold.
- **`CycleCount_proofs`**: type correctness, `NumbersAccounted` and `ReleasesAreAtomic`, the
  refinement of `AuditBook`. The numbers a release has taken are those next after what the
  counter and the table have (`TakenOK`), and a counter has given out all up to its value
  (`Counted`); since who has taken one has the lock, no other release moves the counter
  (`NumbersInv`). For the plan, the groups of a running release split its bins among different
  operators (`PlansInv`), which is a fact about the sharing out (`GroupsSplit`): the ranks number
  the bins of a plan from one (`RankNumbers`), parts of the rounded-up size hold all of them
  (`Division`, `Quotient`), and the parts with a bin are the first ones (`PartsFilled`), so that
  no number is taken for an audit without bins. For the refinement, the numbers of one release
  differ (`BookInv`); with the invariants above, those it commits are later than all given or in
  force and leave none out (`InOrder`), its audits share out the plan, and so its commit is one
  release of the book (`CommitReleases`).
- **`ServerFiles_proofs`**, of `Attachments`: `EntriesKept`: what a request is about to write is
  what it read with its own entry, or without the names it removes (`RequestsInv`); the steps of
  nobody's request are the ends of owners and the writes over places, and each leaves what the
  property lists.
  `RecordedFileIsThere`: files on the server are all different, as every upload brings a new one;
  a name is always left, since there are more numbers to add to it than requests (`FreeName`, by
  the pigeonhole principle); the request that is alone on an owner knows that its name is not
  recorded, that its file is under it once it was put, and that the list is as it read it; and a
  file that is recorded but not on the server has a removal on its way that will take the record
  (`FilesInv`). The rows that an ending owner leaves are fewer of the same, and a purged folder
  holds none of the sales desk's files, by the assumption on `Inside`, and is not judged further.
- **`MasterData_proofs`**: `NamesDistinct`, `AdminRemains` and `BulkStoresNames`, for any tables,
  spellings, sheets and numbers of requests. The invariant (`MasterInv`) adds to the types that
  what a request has found is still so unless it was overtaken (`ReadOK`): no other row has the
  name it is about to write, an administrator would be left without the one it removes, and the
  items it is about to make are those it would make now. A sheet may have any length. Its
  renamings are therefore stated by what they come to (of several items with one id the last one
  stays, `RenamedIs`), and the rows it makes get distinct ids because its places are ranked
  (`PlacesRanked`). `BulkStoresNames` then goes item by item (`BulkStoresItem`), and only the
  import's own write can end it with a change (`BulkEnds`).

Two definitions were wrong in a way that only the proofs showed, as TLC takes the first arm of a
`CASE` that applies and the semantics any: the initial counts of an order (`OrderWork!CountsOf`)
and what an import is counted as (`ErpImport!Kind`). Three others (`BomReport!RetryTick`,
`CycleCount!Groups`, the sheets of `MasterData`) are written without filtering or folding a
sequence, whose definitions are recursive.

Only model-checked: the liveness properties (`ReportSavedOrGivenUp`, `DispatchedIsArchived`,
`WaitingFileHandled`), which need fairness. Every other property of a passing run is a theorem.

## 6 What is not modelled

Parsing of Excel and ERP files, percentages and averages, report layout; access rights beyond
the owner of an audit or order; login, tokens and passwords; order chat and notifications;
read-only dashboards and reports, among them the material movement report and the query behind
the reconciliation; APK versions; the audit-log triggers of the database; the system
configuration. `PROJECT.json` lists each part with the reason. Of the modelled services, these
operations are left out: `updateRemarks` and `updateMapping` of the materials (a changed mapping
changes what a scan matches), LR numbers and PDFs of a dispatch, places given by hand
(`manual-fg-storage`), `syncMaterialBarcodes`, and the copy of a customer's address to its orders.

An order appears in three modules with the operations that each is about: `StageTracking` (the
scans), `Dispatch` and `SoArchive` (its end), `OrderWork` (desks and handhelds). What one of them
does is to the others a change of status, which `StageTracking` and `OrderWork` have as a step of
their own where the other side could come between.

## 7 Plan

Done, in this order: audit lifecycle, BOM audit, report, stages, dispatch, archive; then the
importer, the order desks with the handhelds and their composition, cycle counts, files, master
data; proofs about all of them (eight modules), of every safety and action property that the
runs check. Next:

1. An abstract specification of an order's life (imported, issued, packed, dispatched, archived)
   that `OrderWork`, `StageTracking` and `SoArchive` implement as far as the code does.
2. Changes of the mapping while scans are on their way, as further actions of `StageTracking`.
3. Places given by hand beside those of `fg-storage`.
