# HomeNAS in TLA+

HomeNAS is one C++ process (Drogon) that serves files over HTTP, records what
happens in an audit database, derives alerts from it with detection rules, and
backs the files up. This directory models the parts of it whose correctness
depends on the order in which threads, SQLite calls, shutdown and crashes meet,
checks the models with TLC and proves their safety properties with TLAPS.

    tlc -workers 2 -config EventWriterFaults.cfg MCEventWriter.tla
    tlapm EventWriterProofs.tla

`PROJECT.json` lists every run with its expected outcome, the source lines each
definition stands for, the hazards and the findings.

## 1. Inventory

| Part | Code (`src/`) | State it keeps | Operations | Talks to |
|---|---|---|---|---|
| Audit pipeline | `backend/services/EventRecorder.*`, `EventWriter.*`, `EventTypes.h`, `db/schema_events.sql` | bounded queue, `running_`, `droppedEvents_`, one SQLite connection, `nas_events` | `emit`, `enqueue`, `runLoop`, `flushBatch`, `init`, `shutdown` | called by every controller; calls the analyzer after each flush |
| Detection rules | `EventAnalyzer.*`, `AlertTypes.h` | read connection to `events.db`, `lastFired_` (memory only) | `analyze`, eleven rule functions, cooldown | reads `nas_events`, calls `AlertWriter` on the writer thread |
| Alert store | `AlertWriter.*`, `db/schema_alerts.sql` | connection to `alerts.db`, migration guard | `init` (schema, migration of `nas_events`), `writeAlert`, `shutdown` | writer thread, main thread |
| Backup and drift | `SyncManager.*`, `SyncTypes.h`, `controllers/SyncController.*` | four atomic flags, `status_` under `stateMutex_`, `sync_runs` and `sync_log` in `sync.db`, two file trees | `requestSync`, `pauseSync`, `resumeSync`, `cancelSync`, `runLoop`, `performRun`, `checkHash`, `shutdown` | Drogon threads, worker thread, main thread |
| Process | `main.cpp`, `systemd/nas-backend.service` | order of `init`s, signal handlers | `gracefulShutdown` | all services; systemd restarts it |
| Authentication | `AuthController.*`, `filters/JwtFilter.*` | none (stateless tokens) | `login`, `logout`, `doFilter` | emits events |
| Files | `FilesystemController.*`, `UploadController.*` | the tree under `nas_root` | `list`, `get`, `remove`, `mkdir`, `rename`, `upload` | concurrent handlers on one tree; emit events |
| Reading the databases | `EventsController.*`, `AlertsController.*` | none / status of an alert | list, get, export, summary; `update` | `events.db`, `alerts.db` |
| Web UI, sync portal | `webui/app.js`, `sync-portal/app.js` | token, section, polling timers | login, navigation, polling | the HTTP API |
| Installation | `setup.sh`, `build_deploy.sh`, `nginx/`, `check_file-op-curl.sh` | – | provisioning | the operating system |

What is hard in it, and what would make it right:

* **Audit pipeline.** Many producers, one consumer, a bounded queue, wakeups that
  can be missed, results of SQLite calls that nobody looks at, a transaction that
  may stay open, a shutdown split over two threads, a crash anywhere. It is right
  if rows are in the order of acceptance, no row is doubled or vanishes, committed
  rows never change, nothing accepted before shutdown is lost while the database
  works, memory stays bounded, and shutdown ends.
* **Backup runs.** Four flags written one by one by any number of threads and read
  by the worker at eight places; a pause, a cancel, a request and a shutdown may
  meet anywhere in a run. It is right if what a run records and shows is what it
  did, if a cancel holds, if nothing is deleted from the backup by a run that did
  not see all files, if drift between runs is told, and if requests and shutdown end.
* **Detection rules.** Windows over timestamps compared as strings, rules that
  shadow each other, a cooldown that does not survive a restart. Right if a rule
  fires exactly when its documented condition holds, at most once per cooldown.
* **Start.** The writer thread runs before the column its `INSERT` names exists.
* **Copying.** `needsCopy` trusts size and mtime; a crash between the copy and the
  mirrored mtime, a change during a copy, a missing root. Right if after a
  completed run and no further change the backup equals the tree, and if deletions
  are mirrored only for files that are really gone.
* **Handlers.** Handlers race on one path; `remove_all` and `create_directories`
  work entry by entry and may fail half-way; the event comes after the change. Right
  if the audit events account for every change.
* **Reading.** Pages by `OFFSET` over a table that grows, rows that enter after their
  timestamp, two writers of `alerts.db` that do not wait for each other. Right if a
  walk misses nothing, a report of the past is final and an answer is true.

## 2. Plan

| Module | Subject | State |
|---|---|---|
| `AuditLog` | what the audit pipeline promises | done |
| `EventWriter` | the pipeline, shutdown, crash, restart; refines `AuditLog` | done |
| `EventWriterProofs` | its inductive invariant and five theorems | done |
| `EventWriterDelivery` | shutdown, transactions, memory, and that it refines `AuditLog` | done |
| `SyncManager` | control and life of backup runs, drift | done |
| `SyncManagerProofs` | its inductive invariant and seven theorems | done |
| `FileTree` | trees of files, used by the next and by `Files` | done |
| `BackupEngine` | the walk, `needsCopy`, the copy and its mtime, `mirrorDeletions`, crash | done |
| `BackupEngineProofs` | copies stay, completed runs converge, only orphans are removed | done |
| `EventAnalyzer` | every rule with its window and cooldown, restarts, the migration at start | done |
| `Induction` | induction on numbers, for the proofs | done |
| `EventAnalyzerProofs` | cooldowns, the migration, and that no attack is overlooked | done |
| `Files` | concurrent handlers on one tree and the events they record | done |
| `FilesProofs` | every change is told, the log replays | done |
| `Reports` | the queries of the dashboard, the status of alerts, the lock of `alerts.db` | done |
| `ReportsProofs` | answers, reports and pages | done |
| `Cron` | `cronFieldMatches` and `cronMatches` against a reference | left |

Every invariant and action property that a passing run checks is also a theorem; liveness
stays with TLC (section 5). Left for later: `Cron`; and the four hazards no property covers, the
analyzer closed under the writer thread (`main.cpp:68`), the alert lost to a lock
(`AlertWriter.cpp:171`), the baseline taken after a run (`SyncManager.cpp:700`) and the type
of a removal's event (`FilesystemController.cpp:143`): the models contain them, and nothing
in the repository promises otherwise. No module here
reaches a `RECURSIVE` operator, and each action is an operator of its own.

## 3. The models

### EventWriter and AuditLog

`AuditLog` is the promise: accepted events wait in order, the oldest move to the end
of the log, some may be given up, the log only grows.

`EventWriter` is the code. A step is what another thread can observe: one critical
section of `queueMutex_`, one access to an atomic, one SQLite call.

| Code | Model |
|---|---|
| `emit` evaluates the timestamp, then `enqueue` takes the lock | `Emit(t)`, `Enqueue(t)`, between them `inHand[t]` |
| `runLoop`: test, `wait_for`, drain of a batch, final drain | `Idle`, `Drain`, `Timeout`, `FinalDrain` (`pc`) |
| `notify_one`, `notify_all` | `Notified`: reach the writer only while it is blocked |
| `flushBatch`: `BEGIN`, prepare, one step per row, `COMMIT` | `Begin`, `Prepare`, `Insert`, `Commit`, each with its ignored failures |
| the connection | `inTxn`, `txn`, `nas_events`: open transaction and committed rows |
| `EventAnalyzer::analyze` | `Analyze`: returns at once when its connection is closed |
| `gracefulShutdown` and the three `shutdown`s | `Signal` ... `Exit` (`mainPc`) |
| systemd | `Crash`, `Restart` |

`Faulty` names the SQLite calls that may fail. The failures modelled are those SQLite
documents: a step that fails and leaves the transaction, a step that fails and rolls
it back, a `COMMIT` that leaves the transaction open or rolls it back. `wait_for` with
a true predicate does not block; with a false one the writer holds the mutex until it
blocks (`dozing`), so `enqueue` cannot notify in between, `shutdown()` (which takes no
mutex) can. The main thread closes the analyzer's connection under the feet of the
rules: that is a data race, and a fault of the process is one of its outcomes.

### SyncManager

A step is one write of a flag by a Drogon thread, one test of the worker, or one
critical section of `stateMutex_` or `dbMutex_`.

| Code | Model |
|---|---|
| `running_`, `syncRequested_`, `paused_`, `cancelRequested_` | `flags` |
| the bodies of the four control calls | `RequestSync` ... `CancelSync`: sequences of writes, performed one by one (`SetFlag`) |
| `runLoop`, `maybeRunScheduled` | `Rest`, `Schedule`, `Consume` |
| `performRun` | `Clear`, `Begin`, `Scan` (an entry each), copy loop, `MirrorTest`, `Mirror`, `Finish`, `Persist`, `Publish`, `Rebaseline` |
| `waitWhilePaused` | `PauseTest`, `Pausing`, `LeavePause`, `Resume`, `StopTest`: it reads the flags four times |
| `checkHash` | `NotYet` (the interval), `TakeHash` (the walk), `Compare` (under the lock; `Remembered`) |
| `shutdown` | `Stop`, `CancelAll`, `Join`, `CloseDb` |
| `computeStorageHash` | `Computed`: a walk that broke off gives the hash of a part (`Cut`), or what the last was |
| `loadLastRun` | `LoadLastRun` in `Restart`; where it fails nothing is shown (`unread`) |
| the users of `nas_storage` | `Change`: through HomeNAS or from outside, or the disk comes and goes |

Abstractions. A file is a number and a copy works or fails; what it does to the bytes
is `BackupEngine`'s. The contents of `nas_storage` are a version number, so equal
hashes mean equal contents since the last look. `wait_for` returns after its timeout
with or without a notification, so a wait is a step that is always possible and
notifications are left out. The two reads in `running_ && !cancelRequested_` are one
step: both flags can only matter in the order in which they are read when they change
in between, and a stop seen by the second read is a stop a step later.
The tree has `NumFiles` files whenever it is walked; an entry `is_regular_file` cannot look at
is a file less, so a walk cut short (`cutShort`), and a file `fs::relative` cannot name is
behind the loop without a copy or an error. `sync_log`, percent, ETA and counters of bytes
are left out. `usable` stands for a configured `backup_root` that `init` accepted.

### BackupEngine and FileTree

What `SyncManager` leaves out: the bytes. `FileTree` has paths as sequences of names
and what a file system keeps true of them; its trees are also those of `Files`.

| Code | Model |
|---|---|
| `performRun`: the walk | `Scan`: an entry each (`Wanted`), broken off by a cancel or by an error nobody looks at |
| what is under `.nas-meta` | `Excluded` |
| `is_regular_file`, `fs::relative`, `exists` and the calls of `needsCopy` that fail | fault `"stat"`; `misread`, the paths they could not look at |
| `needsCopy`, `sha256File` | `NeedsCopy`, `Differs`: not a file, other size, other mtime and other contents |
| `create_directories`, `copy_file` | `WithParents`, `Open` (truncates), `CopyBytes` |
| `last_write_time` | `MirrorMtime`: the mtime of the source as it is by then |
| `mirrorDeletions` | `MirrorTest`, `FindOrphans` (`IsOrphan`), `RemoveOrphan` |
| the end of `performRun` | `Finish`, `Outcome` |
| `cancelSync`, `requestSync` | `Cancel`, `TakeBack` |
| users of `nas_storage`, inside HomeNAS and outside | `Write`, `Delete`, `MkDir`, `Rename`, `Mount` |

Abstractions. The contents of a file are the number of the write that made them, and
so is its mtime; a copy that a write tore is 0. The walk takes entries in one order,
since changes come in any. `needsCopy` is one step: with one change in between, its
answer is that of before or after the change. The files of a first tree are of different
writes (`Numbered`), like all that follow. The flags of `SyncManager` are reduced
to the cancel, the only one that changes what is copied.

### EventAnalyzer

The writer thread commits a batch and hands it to `analyze`; the rules count committed
rows. Thresholds, windows and cooldowns are those of the code.

| Code | Model |
|---|---|
| `kRules` of each `check...` | `BruteForce`, `MassDelete`, `Traversal`, `Download`, `BF005` ... `DX003` |
| `countEvents` and the other queries | `Count` over `IsFailure`, `IsDelete`, ... and `Since`, `Until`: the total of the `Weights` of the rows |
| `shouldFire`, `markFired` | `ShouldFire`, `MarkFired` on `lastFired` |
| the loops over `kRules` | `Escalate`: lowest rule first, stop at the first that `Applies` (`FirstOf`) |
| `analyze` | `Analyze`, `Fired` |
| `flushBatch` | `Flush`: lost when the column of its `INSERT` is missing |
| `AlertWriter::init`, `applyEventsMigration`, `EventAnalyzer::init` | `Start` |
| the guard `_migration_guard` | `AlreadyApplied`: asked for in the wrong database, so never; `marked` |
| a database from before | `OldRows`: rows without the column, whose failed logins name `Nobody` |

Abstractions. Events that differ in nothing come as a *burst* of n: they would walk
through the table of rules one after the other, and `Escalate` says what n of them fire.
A timestamp is a number of seconds; the comparison of `...T..Z` strings with those of
`datetime()` is that of their dates (`Since`, `Until`), which is what it comes to.
The order in which connections open at start, while the writer thread already runs,
is one step. Without `alerts.db` the migration of `events.db` is not tried.

### Files

| Code | Model |
|---|---|
| `safePath` refuses | `Refuse` |
| `remove` | `TestKind`, `FindEntries`, `RemoveEntry` (an entry each) |
| `mkdir` | `FindMissing`, `MakeDirectory` (a directory each) |
| `rename` | `DoRename` (one call), `RenameType` |
| `upload` | `TestDestination`, `Save`: nobody looks at the result; over a directory it leaves the tree as it is |
| `get` | `TestFile` |
| `EventRecorder::emit`, the answer | `Emit`, `Recorded` |

Which path `safePath` refuses is left open: any may be. A request for several files
is several uploads. `Replayed` is the tree that the log describes, event after event from the
first tree (`After`, in which an upload over a directory changes nothing). `lapsed` says that a
call failed of its own accord, which the code has no way to foresee; what fails because of
the tree it meets is no lapse. The queue behind `emit` is `EventWriter`'s; the log here is in the
order of the calls. Links and the root itself are left out; `list` changes nothing.

### Reports

| Code | Model |
|---|---|
| the `WHERE` of each query | `Matches`, `Found` |
| `ORDER BY id DESC LIMIT ? OFFSET ?` | `Page`, `Limit`: the ids whose `Place`, the number of newer ones found, is on the page |
| both `list`s, asked page after page by a client | `StartWalk`, `NextPage` |
| `exportCsv`, `EventsController::summary` by type and by actor | `Report` of `Items` (rows, or `Group`s), in the order `Precedes`, to the limit in `Limits` |
| their loops over `sqlite3_step` | `IsRead`: the beginning of the list, as far as the step that failed |
| `AlertsController::update` | `AskPatch` (a client sends it), `BeginUpdate` (the lock, or not), `Update` (commit and release), `Ok`, `Answer` (later) |
| `AlertWriter::writeAlert` | `FireAlert` (the lock, or not), `InsertAlert` |
| `emit`, `flushBatch` | `Stamp`, `Enqueue`, `Flush` |

A `SELECT` reads one snapshot and is one step. A failing `sqlite3_step` ends the rows
early, with status 200, in pages and in reports alike. Between the release of the lock and
the answer other clients and `AlertWriter` go on, so `changes` holds what is done and not yet
told; `last` has, for each alert, the changes answered ok which no later one has replaced: a
change *replaces* those its client could know of when it sent it. A database that cannot be
opened is an answer 500 that changes nothing, and is left out, as is the quoting of CSV.
`AlertsController::summary`, which changes nothing and reads the same way as the groups by
type, is left out too.

## 4. The runs

Passing runs:

| Run | Asks | Bounds | Shows |
|---|---|---|---|
| `writer_faults` | `TypeOK`, `AcceptanceOrder`, `ExactlyOnce`, `Owned`, `AppendOnly` | 2 threads, queue 2, batch 2, 3 events, every call faulty, crashes, 2 starts | no failure doubles, reorders or loses track of a row, and committed rows stay |
| `writer_clean` | `ThreadOrder`, `DrainedBeforeExit`, `DurableAtRest`, `BacklogBound`, `AnalyzesCommitted` | 2 threads, queue 2, batch 1, 4 events, clock 0..1, 2 starts | what the final drain saves, what rests in a transaction, how much memory holds, what the rules see |
| `writer_live` | `ImplementsAuditLog`, `ShutdownEnds` | 2 threads, queue 2, batch 2, 2 events, faulty statements, crashes, 2 starts | the pipeline implements `AuditLog` with its fairness: no missed wakeup is final, every event is stored or given up; with `DrainedBeforeExit` of `writer_clean`, that is: stored |
| `sync_control` | `TypeOK`, `StateTellsRun`, `PartialExplained`, `CancelSticks`, `NoPartialMirror`, `PausedIsStill`, `LastRunIsLastRow` | 2 callers, 3 calls, 2 files, 2 starts, crashes; open, load, walk, copy, delete and insert may fail | what a run records, shows and deletes under every order of the calls, and that panel and table agree through a restart |
| `sync_live` | `RequestServed`, `ShutdownEnds`, `DriftTold` | a scheduled run, 1 caller, 2 calls, 1 file, 1 change, walks of the hash may break off | requests are taken up; shutdown ends although it may be paused or its cancel taken back; a change between two runs is reported in the end, wherever it falls in a check |
| `backup_mirror` | `TypeOK`, `MirrorConverges`, `GoodStays`, `RemovesOrphansOnly` | a directory, a file in it and a file `.nas-meta` beside it, 2 sizes, 2 changes, 2 runs, every call faulty, cancels, crashes | what a quiet run repairs, that no run spoils or removes a good copy, and that what belongs to HomeNAS is never copied |
| `detect_rules` | `TypeOK`, `CooldownHolds`, `EventsStored`, `BurstNoticed`, `BurstEscalates`, `LoginAttackNoticed` | 3 of 7 kinds of bursts, one or two in a batch, pauses of 100 and 300 s across a midnight, a table with old rows, with and without the column, 2 starts; `alerts.db` and `ALTER TABLE` may fail at each | no burst the tables describe is overlooked, none is told twice in a cooldown; one start at which nothing fails makes good the migration, before or after one that fails |
| `files` | `TypeOK`, `LogReplays`, `EveryChangeTold` | 2 threads, 3 requests of 5 kinds on 4 paths, removals and uploads may fail half-way | what the events say of the tree |
| `reports` | `TypeOK`, `PagesCover`, `WindowFinal`, `LastAnswerHolds` | 2 threads, 3 rows, 3 changes of status, 4 of both, pages of 1 and 2, 1 actor at most, 2 seconds, failing steps | what a reader gets while others write, and that what is answered about an alert is true of it, or was replaced |

Why the bounds are enough. A queue of 2 is full, half full and empty; a batch of 2
with 3 events leaves a rest, a batch of 1 with 4 events makes the final drain larger
than a batch; 2 threads race for the lock and for the last place; 2 starts put a
restart behind every crash. A request, a cancel and a pause by 2 callers (3 calls)
are every pair of calls inside each other's flag writes and one before or after; 2
files are a first, a middle and a last test of the copy loop. Two changes are one
before or in the first run and one in or after it; two runs are the one that spoils and
the one that repairs. In `backup_mirror` any of the three names may become a
file or a directory; two files side by side that are both to be backed up are left to the
proofs, for which the tree is any. In `sync_live` the run is there without a request, so that
both calls meet it, one of them after the cancel of the shutdown; a change falls
before, during or after the walk of the hash. The clock of that run stays in the minute the schedule
names: a minute handled is not due again, a later one is due like the first. The bursts reach every threshold of the tables but the highest
of deletions and downloads, alone or added up, and 300 s is the longest of the
cooldowns they start. Three requests on two threads are a pair that overlaps and one
before, after or into it; 3 rows in pages of 2 are a full page and a rest, and in pages
of 1 several shifts; 3 changes of status are a pair whose answers cross and one that
replaces either or both; with two changes in progress there may be two rows that come in
between. Every bound (`MaxEvents`, `MaxClock`, `MaxStarts`, `MaxCalls`,
`MaxChanges`, `MaxMinute`, `MaxRuns`, `MaxBursts`, `MaxTime`, `MaxRequests`, `MaxRows`,
`MaxPatches`, `MaxMade`, and the names of `Fits`) only guards actions of the surroundings.
Deadlock checking is off in all runs: the process really stops after its last start,
or its bounded surroundings do.

What some properties except, because the code does: `MirrorConverges` a copy that a
change overtook (`raced`, the finding of `backup_race`), a run with a walk cut short, and a
path one of the run's calls could not look at (`misread`: the code takes it for absent or
passes over it, in silence); `GoodStays` and `RemovesOrphansOnly` such a path, too;
`LogReplays` overlapping requests and calls that fail of their own accord; `PagesCover` a
status that leaves the filter during the walk and a page cut by an error;
`LastRunIsLastRow` a row that could not be written or read; `DriftTold` ends its promise
where a run begins, which takes a new baseline; `DurableAtRest` and `AnalyzesCommitted`
calls that fail. Each exception is a history variable or a state that says precisely when it applies, and the case
is reached in the run. `WindowFinal` needs none: of a report that a failing step cut it says
that what was read is the beginning of what there is.

Runs that show what the code does against what a comment or a document says (each
checks one property and ends in a counterexample; the quotes are in `PROJECT.json`):

| Run | Property | The code |
|---|---|---|
| `sync_cancel` | `CancelAbandons` | a request takes back the cancel of the run that is breaking off |
| `detect_window` | `AlertMeansBurst` | a window of 60 seconds counts events of the whole UTC day |
| `backup_race` | `ChangedCopied` | a file written while it is copied keeps its old bytes in the backup under the new mtime, in the next run as well |

Further consequences of the code that the models contain and no run of its own shows.

* Pipeline: ids of `nas_events` do not follow the timestamps of different threads
  (stamped before the lock); the rules run on a batch whose `COMMIT` failed; an event
  accepted after the final drain vanishes uncounted; batches flushed after
  `EventAnalyzer::shutdown` are never analyzed; `alerts.db` is closed by the main thread
  while rules may write to it.
* Backup runs: a pause made while nothing runs holds the next run; after a cancel that
  was taken back the panel may show *paused* while files are copied; a cancelled run
  ends in *idle*, shown as up to date; `hash_mismatch` also follows an upload through
  HomeNAS; the baseline taken after a run hides drift from before it.
* Copying: an unmounted root, or an `exists` that fails, empties the backup where deletions
  are mirrored; a file that `is_regular_file` or `fs::relative` cannot look at is not
  backed up by a run that is recorded as completed; a file in the place of a directory fails
  every run until somebody clears it.
* Rules: the second condition of BF-004 changes nothing; MD-005 and DX-003 look for
  deletions and downloads *after* a login that was committed a moment ago, so they
  hardly ever fire; BF-005 does not see failures of the login's own second; rules are
  tested lowest first, where a comment says that only the highest applies; failed
  deletions and downloads of a burst count. The guard of the migration is kept in
  `alerts.db` (`AlertWriter.cpp:43`) and looked up and marked in `events.db`, so `ALTER TABLE` is
  tried at every start, against `docs/devlog.md:141` and the comment at `AlertWriter.cpp:121`; if
  the mark were read, one failed `ALTER TABLE` would be the last. An `events.db` without the column, fresh or
  old, refuses every batch until a start opens `alerts.db` and its `ALTER TABLE` works.
* Files: an upload that failed and the removal of a path that is not there are recorded
  as successes; a removal that failed half-way is recorded as a failure; a download is
  recorded before the file is opened.
* Reading: an alert that fires while a client changes a status is lost, with its
  cooldown running; a change that finds `alerts.db` locked is answered 404; of two clients
  the one answered last need not be the one whose status stays; an export, a summary or a page
  may be cut and is answered 200; the totals of a summary are those of the groups that
  were read, by actor of the first ten (fifty at most); the web
  client's `source_ip` filter of the timeline is not one that `/api/events` knows.

### Fairness

`EventWriter!FairSpec`: weak fairness of the writer thread, of the steps of
`gracefulShutdown` after its first, and of `Enqueue(t)` for each thread. The threads
are ordinary OS threads, the writer's wait ends after 250 ms at the latest, and a
mutex is held only for a few statements. `SyncManager!FairSpec`: weak fairness of the
worker (its waits end after 5 s and 1 s), of shutdown after its first step and of each
caller that is inside a call. `DriftTold` also needs strong fairness of a check of the hash
that walks to its end: a worker that comes to `checkHash` again and again finds the interval
elapsed at some time, since the clock goes on, and its walk does not break off every time. No fairness makes a request, a signal, a crash, a
change, a restart or the passing of time happen.

## 5. The proofs

Each theorem holds for every value of the constants that the named assumptions of its
module allow: sizes and bounds are numbers, faults are among the calls of the model,
trees are well formed. Nothing is assumed beyond that. A theorem about a property that a
run checks has the same statement as the run; the parts of each inductive invariant hold in
all states of the run, too, as TLC found.

`EventWriterProofs` proves, for every set of threads, queue and batch size, set of
faulty calls and bound:

| Theorem | States |
|---|---|
| `TypeCorrect` | `Spec => []TypeOK` |
| `OrderKept` | `Spec => []AcceptanceOrder` |
| `OncePerEvent` | `Spec => []ExactlyOnce` |
| `OwnedByWriter` | `Spec => []Owned` |
| `RowsStay` | `Spec => AppendOnly` |

`AcceptanceOrder` and `ExactlyOnce` are not inductive: they say nothing of which part
of a batch is still to be inserted when. The invariant is

    IInv == TypeOK /\ Stages /\ AcceptanceOrder /\ ExactlyOnce

where `Stages` relates the two program counters and the connection: a writer that
flushes has an open database and a process; `todo` and the transaction are empty where
the code says they are; the main thread reaches `close` only behind the join, so no
`CloseDb` pulls the connection from under a flush. The argument about the data is made
once, on `Pipeline == nas_events \o txn \o todo \o queue`: every step either *keeps* it
(an event moves from one part to the next), *grows* it by the next number at its end
(`Enqueue`), or *shrinks* it by elements that become `lost` (failures, rollbacks,
crash, exit). Each of the three preserves order and uniqueness; each action is shown
to be one of the three. `AppendOnly` follows from the same classification, since the
committed rows are the front of the pipeline.

`EventWriterDelivery` adds, with the same constants:

| Theorem | States |
|---|---|
| `DrainTakesAll` | `Spec => []DrainedBeforeExit` |
| `RestsDurably` | `Spec => []DurableAtRest` |
| `RulesSeeRows` | `Spec => []AnalyzesCommitted` |
| `BacklogBounded` | `Spec => []BacklogBound` |
| `ThreadsInOrder` | `Spec => []ThreadOrder` |
| `RefinesAuditLog` | `Spec => Log!Spec`: the refinement, but for its fairness |

Four parts are added to `IInv`. `Draining` says how far a shutdown has come where the final
drain runs: the drain takes whatever is queued, so what can be left over is what was
accepted after it (`late`). `BatchOnTheWay` ties the batch handed to the rules to the
transaction: where no call fails, each event of the batch being flushed is still to be
inserted, in the transaction, or a row. `Bounded` has queue and batch apart: what is
still to be inserted is at most a batch, in the final drain a whole queue. `Stamped` has
the order of a thread's timestamps along the whole pipeline, its event in hand included:
`ThreadOrder` itself speaks of committed rows only, which a step reaches from the middle
of the pipeline. For the refinement, each of *keeps*, *grows* and *shrinks* is mapped to
steps of `AuditLog`: an insert or the start of a flush is a stutter, `Commit` stores the
front of what is on its way, and what is lost is one contiguous stretch of it, so that
one `GiveUp(m, n)` takes it.

`SyncManagerProofs` proves, for every number of files and callers, every schedule and
every combination of faults, changes, crashes and restarts:

| Theorem | States |
|---|---|
| `TypeCorrect` | `Spec => []TypeOK` |
| `PanelTellsRun` | `Spec => []StateTellsRun` |
| `CancelHolds` | `Spec => []CancelSticks` |
| `CompletedIsExplained` | `Spec => []PartialExplained` |
| `BackupKept` | `Spec => []NoPartialMirror` |
| `PausedStays` | `Spec => []PausedIsStill` |
| `PanelTellsRow` | `Spec => []LastRunIsLastRow` |

from the named assumptions of `SyncManager`. The outcomes speak of the moment a run is
recorded or has removed files; what makes them true was decided many steps before, by
threads that went on writing the flags. The invariant carries it along: `Counted` (a
file is left behind the head of the copy loop), `CancelHeld` (the flag of a cancel is
up as long as the run goes on, or was taken back), `StopKept` (a walk or a loop that
ended early was told to stop, and the stop is still there at every later test, or was
taken back), `MirrorLast`, `OffIsOver` (no process, no run: a restart keeps the state
variable), `RowFirst` (between the row and the panel the row is ahead), `PauseKept` (past
`waitWhilePaused`, which reads the flags again after its loop, a panel that still says
*paused* means that the run was told to stop, or that a request took that back). Lemmas
`FlagWriters`, `RunWriters` and `ShownWriters` say which steps write which variables,
so that each part is proved over the few steps that concern it; `FlagsHold` is the one
place that looks at what a caller writes.

`BackupEngineProofs` proves, for every set of paths and trees, every combination of faults
and any number of changes, crashes and runs:

| Theorem | States |
|---|---|
| `TypeCorrect` | `Spec => []TypeOK` |
| `OrphansOnly` | `Spec => RemovesOrphansOnly` |
| `GoodCopiesStay` | `Spec => GoodStays` |
| `RunsConverge` | `Spec => []MirrorConverges` |

All but `TypeCorrect` except the paths that a call of the run could not look at (`misread`).
`OrphansOnly`: the list of what is to be removed is made entry by entry while users go on
changing the tree, and is worked off without another look. What makes that safe is
`SteadyThere` (a path no change touched since the run began is still a file of a mounted
tree) and `SteadyKept` (no such path is on the list, unless a call could not look at it). Only `FindOrphans` puts paths on the
list and only `RemoveOrphan` takes files out of the backup; of every other step it is shown
that a file of the backup stays a file (`FilesStay`), also while it is overwritten.

`TypeCorrect` includes that both trees remain trees, whatever fails half-way: no file comes
to lie under a file (`Placed`). `GoodCopiesStay` is about what `needsCopy` believes. It
compares sizes and mtimes, so a copy must not carry the mtime of a file whose contents it
does not have. `Copies` says that, but for copies that a change overtook (`raced`);
`CopyInHand` says it of the copy in progress. `RunsConverge` follows a run that can still
complete: of the files it is to back up (`Due`: outside `.nas-meta`, and looked at) the scan
loses none (`Scanned`), the loop leaves none behind it that is not
good (`Handled`, `AllSettled`), and the mirror finds whatever is missing in the tree
(`OrphansFound`); `NoMeta` keeps `.nas-meta` out of the scan, the loop and the backup. At the end of
such a run both trees agree, which is `MirrorConverges`.

`EventAnalyzerProofs` proves, for every set of bursts, addresses and pauses, every fault
and every bound:

| Theorem | States |
|---|---|
| `TypeCorrect` | `Spec => []TypeOK` |
| `CooldownKept` | `Spec => []CooldownHolds` |
| `MigrationIsMadeGood` | `Spec => EventsStored` |
| `NoBurstOverlooked` | `Spec => BurstNoticed` |
| `EveryRuleReached` | `Spec => BurstEscalates` |
| `LoginAttacksNoticed` | `Spec => LoginAttackNoticed` |

Its invariant says where rows, marks and alerts stand: `AlertsMarked` (every alert of this
life has a mark at least as young: that is what keeps a rule quiet during its cooldown,
and it survives the marks of other rules and keys that come and go), `Tailing` (the batch
at work is the end of the table), `Migrated` (a start at which nothing failed has left the
column: whatever the marks of the migration say, and however later starts fail).
The three promises about attacks are about arithmetic on sequences: what a query counts
is at least what the tables of thresholds describe (`TablesCount`, from
`MoreFailures` and its siblings: a sum over the rows is at least the sum over those of
the burst), and a table one of whose rules applies fires one, or has one in its cooldown
(`OneFires`, `AllFire`).

`FilesProofs` proves, for every set of paths, threads, trees and faults:

| Theorem | States |
|---|---|
| `TypeCorrect` | `Spec => []TypeOK` |
| `ChangesTold` | `Spec => []EveryChangeTold` |
| `LogIsHistory` | `Spec => []LogReplays` |

`Told` strengthens `EveryChangeTold` to states in the middle of requests: a path that differs
from the first tree is named by the log, or will be named by the event of a request at
work; `Shape` keeps what a request has still to do at its path: below it for a removal, above
it for `mkdir`. For
`LogReplays`, while requests come one at a time and no call fails, `Stands` says for each
stage of the one request how the tree differs from the tree the log describes, and
`Emit` closes the difference.

`ReportsProofs` proves, for any number of rows, threads, changes and seconds:

| Theorem | States |
|---|---|
| `TypeCorrect` | `Spec => []TypeOK` |
| `AnswersHold` | `Spec => []LastAnswerHolds` |
| `WindowIsFinal` | `Spec => []WindowFinal` |
| `PagesCovered` | `Spec => []PagesCover` |

`LastAnswerHolds` says that an alert's status was told, or is about to be; that is not
inductive, since a change may forget the one that stands. `StatusTold` adds
that no change made since was sent after its answer (`Stands`), for which changes must be
told apart (`Numbers`); `Fresh` speaks of ids that have no row yet, of which a client may ask all
the same, and `LockTypes` says that who holds the lock does what he took it for. `WindowFinal`
needs the events that are on their way: `ReportHolds` says that of a settled window none is in
the queue or in the hand of a thread, so that what is appended leaves the rows found, the
groups made of them and their order as they were. `PagesCover` is about places in a list that grows at its head while it
is read: `Ahead` says that each row that was there at the beginning was got or has a place
at or behind the next offset. It holds because places only grow, have no gap, and
a page shorter than its limit is the last one.

`Induction` is what makes these arguments about data possible. The library's induction
theorems take an operator as a parameter, which the provers cannot instantiate. Its
theorem on well-founded relations takes a set: `SetInduction` (a set of numbers that
holds 0, and n + 1 with each n, holds all), `LeastNumber` and `StepByStep` follow from it,
and a property of numbers is used as the set of numbers that have it.

Only model-checked: the liveness properties, which are `ImplementsAuditLog` as far as it is
the fairness of `AuditLog` (its safety part is `RefinesAuditLog`), `RequestServed`, `DriftTold`,
and `ShutdownEnds` of both modules. Fairness and `ENABLED` are out of TLAPS's reach.

## 6. What is not modelled

* The loss of power: a crash is the death of the process, the file system and SQLite's
  journal survive it.
* A wall clock that is set back.
* SQLite beyond transactions and the write lock of `alerts.db`: `SQLITE_BUSY` elsewhere
  is one of the failures of a call, checkpoints are left out.
* `cronMatches`, which `SyncManager` takes as a set of minutes, `sync_log`, and the
  progress a run shows.
* `AuthController` and `JwtFilter`: they keep no state; what they emit is an event like
  any other (`EventAnalyzer` has the kinds). Tokens and HMAC are computations over bytes.
* The order of Drogon's beginning advice and its listeners, which decides whether a
  request can come before `AlertWriter::init`.
* The comparison of `backup_root` and `nas_root` at start: `BackupEngine` has two
  disjoint trees.
* The lookups `get` of one row, `AlertsController::summary` and `list` of a directory, which
  change nothing.
* The web UI, the sync portal (a page over one JSON object), markup, and the
  installation scripts.
