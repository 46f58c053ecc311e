# A formal model of the music server

TLA+ specifications of the parts of the server where several goroutines,
processes, tables and files have to agree: TLC checks them on small instances,
TLAPS proves the main safety properties for every value of the constants.
`PROJECT.json` maps every definition to the source lines it stands for, and lists
the runs, the mutants that show each property can fail, the theorems and the
hazards of the code.

    tlc -workers 2 -config MCTaskQueue.cfg MCTaskQueue     # one run
    tlapm TaskQueueProofs.tla                              # one proof module

## The system

The server scans music libraries into an SQLite database and serves them to
clients. What happens in the background, and how the parts meet:

| Part | Code | Module |
|---|---|---|
| Scan/maintenance lock, database analysis | `scanner/controller.go`, `db/optimize.go`, `persistence/` | `ScanMaintenance` |
| Library scan: start, resume, import, end | `scanner/scanner.go`, `phase_1_folders.go`, `walk_dir_tree.go`, `folder_entry.go` | `LibraryScan` |
| File system watcher | `scanner/watcher.go`, `core/storage/local/watcher.go` | `Watcher` |
| Artwork queue and worker | `core/artwork/worker.go`, `processor.go`, `housekeeping.go` | `ArtworkQueue` |
| Artwork image store and prune | `core/artwork/image_store.go`, `prune.go`, `processor.go` | `ArtworkStore` |
| Provider circuit breaker | `core/artwork/gate.go` | `ArtworkBreaker` |
| Plugin task queues | `plugins/host_taskqueue.go` | `TaskQueue` |
| Buffered scrobblers | `core/scrobbler/buffered_scrobbler.go`, part of `play_tracker.go` | `BufferedScrobbler` |
| Scan phase 2 (moved tracks), missing files | `scanner/phase_2_missing_tracks.go`, `core/maintenance.go` | `MovedTracks` |
| Play sessions | `core/scrobbler/play_tracker.go` | `PlaySessions` |
| Report and now-playing workers | `core/scrobbler/playbackreport_worker.go`, `nowplaying_worker.go` | `TrackerWorkers`, `ReportQueue` |
| Event broker | `server/events/sse.go` | `EventBroker` |
| Plugin scheduler | `plugins/host_scheduler.go` | `PluginScheduler` |
| Transcoding cache and limiter | `utils/cache/file_caches.go`, `spread_fs.go`, `core/stream/limiter.go` | `TranscodeCache` |
| Request throttle, plugin manager and key-value store, jukebox, quick connect, scan phases 3 and 4 | `server/`, `plugins/`, `core/`, `scanner/` | not modelled |
| APIs, authentication, streaming, agents, playlists, SQL, UI, ... | `server/`, `core/`, `persistence/`, `ui/` | not modelled |

The scan lock is what lets the modules be separate: `ScanMaintenance` shows that
scans never overlap each other or a maintenance job, so `LibraryScan` has one scan
at a time, and `Watcher` sees another scan as a refused call. A scan requests
artwork; `ArtworkQueue` decides when an item is resolved and recorded, and calls
the providers through `ArtworkBreaker`; `ArtworkStore` has the bytes and the rows
of what was resolved. The plugin manager loads and unloads plugins under the feet
of `TaskQueue`, `BufferedScrobbler` and `PluginScheduler`. Clients report what they
play to `PlaySessions`, which queues reports and updates for `TrackerWorkers` and
scrobbles for `BufferedScrobbler`. Everything in the server publishes to
`EventBroker`.

`PROJECT.json` has the same inventory with the main files of each part and the reason for each
one that is left out.

## Conventions

* A component module has the state as VARIABLES, one action per operation or per
  step between two points at which others may run, `Spec`, and the properties at
  the end. Names follow the source. `MC<name>.tla` and its `.cfg` files hold the
  instances; `<name>Proofs.tla` the theorems. `ArtworkProofs` is about `ArtworkStore`
  and `ArtworkBreaker`, whose specification is called `BreakerSpec` for that reason;
  `ScanProofs` is about `LockAndMoves` and `ServicesProofs` about `Services`.
* `LockAndMoves` and `Services` put components that do not share state side by side: a
  behaviour picks one of them and runs it with all its interleavings, while the others
  stay as they began. A property of one component is unchanged in the sum, and TLC's
  coverage of the two sums shows every action of every part taken.
* Data is abstract: a folder's content is a version number, an image a hash, a
  task or a play a model value. Control is not: every early return and error path
  that changes what happens next is an action or a disjunct.
* Variables called *history* in the declarations exist for the properties only.
* `Max...` constants that say *bound* limit the exploration: faults, crashes,
  edits, scans, clock. Proofs hold for every value of them.
* Definitions right before a mapped one with nearly its name (`Unregister`,
  `UnregisterAny`) are the mutants: a plausible mistake in the same lines.
* A leaf of a proof cites `Zenon` where first-order reasoning about functions and sets
  is enough; the others, with arithmetic, sequences or records, go to the SMT solver.
* `Events` in `LibraryScan` is the set of things the environment may do in an
  instance. What a passing run leaves out is said under *Deviations*.

## The modules

### ScanMaintenance
`running` and `mux` are the flag and mutex of `scanner/controller.go`; `pc` says
where every scan and job is; `pending`, `failures`, `sinceAttempt` and
`sinceAnalyze` are the properties that `db/optimize.go` stores. Actions:
`ScanRefused`, `LockScan`, `AcquireMux`, `MarkBeforeScan`, `Import`,
`ScanSucceeds`, `ScanFails`, `Unlock`, `ClearRunning` for a scan; `TryLock`,
`CheckRunning`, `RunJob`, `Release` for the jobs; `BeginAnalyze` and its outcomes;
`Tick` and a crash. A scan started from the command line is another process with a
lock of its own and is not covered.

### LibraryScan
The file system (`exists`, `content`), the folder and track tables (`row`, `hash`,
`tracks`, `modTime`, `trackPid`, `fresh`), the library row (`started`,
`fullScanInProgress`, `everScanned`, `scannedPid`, `pid`) and the running scan.
`StartScan`, `BeginLibrary`, `ResumeLibrary`, `CreateJobs` are `scanner.go`;
`LoadDir` to `PersistFolder` take one folder through phase 1, several at a time;
`Finalize` marks what was not seen as missing; `UpdateLibraries` ends the scan.
Phases 2 to 4 appear as something that may fail. `CreateJobs` leaves out libraries that
cannot be opened, in a quick scan ("badlib") or in a full one ("badfull"). `owed` records
the folders a full scan was requested for until their tags have been read again.

### MovedTracks
Phase 2, and the two operations of `core/maintenance.go` that touch the same rows from
another process. `media` is the media_file table: the file an ID stands for, and
whether it is missing. A file is named by the ID it was imported with, `tags` is what
`Equals` compares. `Produce` reads the group of a library; `ProcessMissing` and
`ProcessCrossLibrary` are the two stages, which work side by side on what was read;
`Claim`, `MoveMatched` and `MoveFails` are `moveMatched`, `Finalize` with the purge ends
the phase, and `Again` is the next scan after a failure or a crash at any point.
`RemapMissingFile` and `Remap` are the two halves of a manual remap, `DeleteMissing` the
deletion. `contested` records the files that two movers were after at the same time,
which no transaction checks. `LockAndMoves` puts the module beside `ScanMaintenance`,
under the names of `PhaseTwo`: the phase starts from the rows any first phase may leave.

### Watcher
`libraryWatchers` is the registry, `state`/`cancelled` the goroutine and context of
each instance; `pending`, `notified`, `targets`/`armed` and `request` are the four
places a change passes on its way to a scan. Channels have no capacity here. The scan
itself is reduced to what the watcher depends on: it visits folders (`Visit`), passes over
those it cannot read (`PassOver`), and ends (`ScanEnds`) or fails (`ScanFails`); `own` says
that it is the watcher's. `lost` records the folders that were cut off on the way by one of
four causes, which `LossHasCause` names.

### ArtworkQueue
`row`, `ver`, `failed` are a line of item_artwork; `queued`, `ready`, `attempts` one
of artwork_queue; `job` is how far `Worker.process` is. The comparison of
`retry_at` that guards the worker's writes is the flag `unchanged`: every write of
`retry_at` stores a new time, so equal means untouched. Giving up has three steps, each
with its error path: the row is read (a read error counts as no image, job "misread"), an
absent state is written, and the failure is recorded on the row (`unrecorded` when that
write fails).

### ArtworkStore
The files of the store, the rows and the steps of `persist` (`Lock`,
`PlaceBytes`, `PutImage`, `PutItemArtwork`) and of `prune`, each a step of its own
with failures and restarts between any two. The sweep goes on past a file that it cannot
remove, and succeeds when its walk is cut short by something that has vanished
(`WalkCutShort`); `unswept` records what it left for either reason.

### ArtworkBreaker
`allow()` and `record()` of a provider's breaker under a lock, with any number of
calls in between them. `episodeStart`, `probes` and `notBefore` are history.

### TaskQueue
The tasks table, `stage[t]` for the worker that holds `t`, and the service: up,
closing or down. `Dequeue`, `Wait`, `CallbackReturns`, `completeTask`,
`handleTaskFailure` and `WriteFails` are `processTask`; shutdown, its time-out, a
crash and the reset of stale rows at the next start are actions too.

### BufferedScrobbler
`buffer` is the table; each loop has its `pc` and the locals of `run`,
`processQueue` and `processUserQueue`. A loop that was stopped goes on until it
notices, possibly beside its successor. The plugin is unloaded, removed (which
discards its rows) and loaded again, and the play tracker replaces loops when it
refreshes its map. Deleting a user or a track deletes its buffered plays through the
foreign keys of the table (`on delete cascade`); users and tracks stay here.

### PlaySessions
`playMap` has the session of each client. A call of `ReportPlayback` is a goroutine
(`at`, `args`) that checks or loads, writes the session, queues its report and announces
in separate steps, so calls of one client overtake each other. `Expire` and
`OnExpiration` are the cache's eviction and its callback.

### TrackerWorkers and ReportQueue
The report queue with its signal of capacity one and its worker, and the map of
now-playing updates with its own. `ReportQueue` is what they promise, a queue handled in
order; `Ideal == INSTANCE ReportQueue WITH queue <- prBatch \o prQueue` is the refinement
mapping: what the worker has taken and not sent, then what waits.

### EventBroker
The channels of `sse.go` with their capacities, `listen()` as one action per case of its
select, and every stream from its arrival to its departure. `panicked` is a write to a
closed channel.

### PluginScheduler
Schedules are numbered; `schedules` says which one an ID stands for. A firing looks the
ID up, calls the plugin without the lock and, of a one-time schedule, deletes the ID.
`mistaken` records the schedules that a firing of an earlier one with the same ID called
or deleted.

### TranscodeCache
An entry per miss with its writer, readers and removal; the data file, the marker of a
complete one and the migration sentinel, which survive a crash; the slots of the
limiter. `fscache` is external: `Unregister` and `Unused` are what the code relies on. An
entry whose file could not be closed ("unclosed") is whole and marked, ends cleanly for its
readers, and is invalidated.

## The runs

| Run | Instance | Shows |
|---|---|---|
| `artwork_breaker` | 3 callers, threshold 2, 2 recoveries, 3 episodes, 6 ticks | late answers never close the breaker; a provider's back-off is honoured by every call |
| `scan_maintenance` | `ScanMaintenance`: 2 scans, an analysis check, another job, 2 faults. `MovedTracks`: 2 libraries, 3 old tracks and 2 new ones, 1 error or restart, 1 remap | exclusion, no leaked flag, no lost or starved analysis request, accepted scans start; a file keeps one track; claims of annotations are honoured |
| `library_scan_files` | 1 library, 2 folders, 2 versions, 1 fault | what quick scans skip is current; nothing visible is marked missing |
| `library_scan_full` | 2 libraries, 3 folders, 2 PIDs, 2 faults | an interrupted full scan is remembered and finished, also when quick scans cannot open a library; the recorded PID was applied |
| `library_scan_selective` | 1 library, 2 folders | *violated*: a selective scan ends an interrupted full scan |
| `watcher` | 2 libraries of a folder, 2 instances, 2 changes | the registry and the goroutines agree; a change is forgotten only for one of four causes, and is scanned otherwise |
| `artwork_queue` | 1 item of either kind, 3 versions, 5 events | requests survive a busy worker; what leaves the queue answers its last request; the queue drains |
| `artwork_store` | 2 items, 2 images | every recorded image can be served; prune reclaims every stray file that it can remove and reaches |
| `task_queue` | 2 tasks, 2 queues asking for 2 of 3 workers, 1 retry, 3 faults | budget, exact attempt accounting, finished tasks stay so, every task ends |
| `buffered_scrobbler` | 2 users, 3 plays, 2 loops, 1 fault | nothing lost, duplicates only with a cause, backoff kept, every play leaves the buffer |
| `services` | 2 calls and 3 reports of a client; 2 players, 3 reports and updates; 2 streams, 3 events; 1 ID, 2 schedules; 1 key, 2 entries, 2 users, 1 fault | late reports leave the session alone and its end is reported; reports are handled in order (refinement) and the latest update is sent; publishers do not wait for ever; schedules keep their ID and are served; complete files are whole, slots add up, failed entries go |
| `broker_departure` | the broker of `services` | *violated*: a departure overtakes its arrival, and the stream stays registered |

Why the bounds suffice. Each property is about one item, folder, task, play or
episode and those that interfere with it, and the instances hold one of each
interfering party: two scans and two jobs for the lock, a folder and its child for
what is hidden below a folder, a second library for the flags that are kept per
library, an item sharing an image with another for prune, an old loop beside its
successor for scrobbles, and a schedule made again under its ID. Two stages, a
second run and a remap are all the movers of a track, and two new files leave them a
choice. Three reports are the least with a track, its late stop and the next track.
The artwork queue keeps its items apart (every action but a drain is about one item,
and a drain takes a batch larger than any instance), so one item with many events
says more than two with few. Three versions are the least with an image, its removal
and another image. Two loops and one fault reach every overlap of a stopped loop
with the next; the scrobbler was also run with two new plays (938,000 states), and
with two plays and two faults (2.0 million), too long to keep. Faults are counted
together so that every combination up to the bound occurs. Deadlock is checked
except where the system comes to rest: a drained artwork queue, an emptied scrobble
buffer, and services without requests.

### Fairness
* `ScanMaintenance`: goroutines run and cron fires; a mutex waited for is granted
  (`sync.Mutex` has a starvation mode), and the analysis check, which uses TryLock,
  sometimes finds it free (strong fairness).
* `LibraryScan`: a running scan goes on; scans are started again and again by the
  schedule, at start-up after an interruption, and by the watcher. Failures are
  bounded by `MaxFaults`.
* `Watcher`: goroutines run, the timer fires, scans end. The trigger is retried
  after each busy check; strong fairness says it meets a gap between scans.
* `ArtworkQueue`: the worker's pools run, time passes, scans end, the periodic check
  enqueues what is missing, `Refresh` returns.
* `TaskQueue`: the plugin is loaded again and creates its queues, callbacks return,
  workers poll; `ORDER BY` takes the oldest due task, so none is passed over
  for ever (strong fairness of `Dequeue`).
* `BufferedScrobbler`: loops step, timers fire, the plugin comes back, someone
  reports to the tracker. Go's select does not ignore a ready `ctx.Done()` for ever
  (strong fairness of `LoopEnds`).
* `Services`: the goroutines of the running service do not all stop (weak fairness of
  `Progress`, which leaves out what clients and plugins do). The bounds leave a behaviour
  finitely many such steps, so this is as much as fairness to each goroutine.
* `ArtworkBreaker`, `ArtworkStore` and `MovedTracks` have safety properties only.

### Deviations
Two runs are expected to fail, because the code does not do what the repository
says (quotes in `PROJECT.json`):

* **A selective scan forgets an interrupted full scan.** It resumes the library and
  its end, `ScanEnd`, clears `full_scan_in_progress` for all of it.
* **The event broker registers a stream that has left.** Arrival and departure travel
  through two channels, and `listen()` may take the departure first: it closes the
  channel, then registers it and sends it the server-start event in the same branch, which
  panics. `PanicHasCause` shows that there is no other way to a write on a closed channel.

`library_scan_full` leaves the event of the first one out ("partial"). It is not the only
way to forget a full scan, since `ScanEnd` clears the flag of every library that the scan
covered, whatever it left out. Switching on further events of `LibraryScan` reproduces what
the hazards list describes; the passing runs leave these out where they break the property:

* "badfull": a full scan that cannot open a library clears its flag all the same. The
  library is kept from having its PID recorded (`failedLibs`), not from `ScanEnd`
  (`FullScanRemembered`; it is allowed in `library_scan_files`);
* "vanish", "delete" and "tagerror": a folder that cannot be listed, that goes and comes
  back during the scan, or whose tags cannot be read is skipped by a full scan that then
  counts as finished (`FullScanRemembered`);
* "upgrade": a full scan over an interrupted quick one is never flagged as full
  (`FullScanRemembered`);
* "revert": a full scan for a new PID configuration is no longer due when the old one
  returns (`FullScanRemembered`);
* `NewLibs` not empty: an interrupted first scan resumes after a change of PID
  (`PIDApplied`); the same property fails when a folder is deleted during the scan
  and comes back ("delete"), when tags cannot be read ("tagerror"), when a folder
  cannot be listed ("vanish"), and when the PID is changed back in the middle of a scan
  ("revert");
* "race" in `LibraryScan`: a file edited between the reading of its tags and of its
  time is taken for imported (`SkippedIsImported`); so is one whose tags cannot be read
  ("tagerror");
* a plugin's scrobble whose wake signal goes to a loop that was just replaced waits
  for the next play or restart: `EveryPlayAnswered` excepts it by name
  (`stranded`), as `EveryTaskEnds` excepts results that could not be written.

Other exceptions are part of the statement of a property, each a variable or a place in
the code that records exactly the steps that cause it. What they excuse does happen; the
property shows that nothing else does:

* `LossHasCause`: the watcher is stopped with the event in hand, the scanner's status
  cannot be read when the timer fires, another scan gets in between the trigger and the
  call, or the scan that the watcher started fails or passes over the folder. The targets
  are cleared before the scan (`watcher.go:100`) and its error is only logged (110);
* `SettledIsCurrent`: the worker gave the item up and could not write the failure down,
  which it only logs (`worker.go:313`) before it deletes the queue row (284);
* `ServedArtKept`: the item's row could not be read when the worker gave up.
  `hasResolvedArtwork` (`worker.go:323`) takes the error for having no image, so the image
  is replaced by an absent state although the comment at 273 says "Art already being
  served is kept";
* `PruneReclaims`: a file could not be removed, or the walk was cut short before it
  (`image_store.go:144`, 155); the next prune tries again;
* `OneRowPerFile`: two movers were after the same row, or a row got another file between
  the read and the transaction (a remap from the command line during a scan, or the two
  stages over a file of another library);
* `ScheduleIsKept`: an ID was made again while a firing of the schedule before ran;
* `CompleteIsWhole`: a file was written over a stale marker or adopted by the migration;
* `EndReported`: calls of the client overtook each other.

## The proofs

Assumptions are the named ASSUMEs of the component modules: functions have their
domains, markers are not members of the sets they mark, thresholds are natural
numbers (positive where the code has a positive constant). TLC evaluates them in
every run. Each theorem about an invariant follows the same three steps: the
initial states satisfy an inductive invariant, every action keeps it (one step per
action), and it implies the property.

| Module | Theorem | Inductive invariant and why it is needed |
|---|---|---|
| `ArtworkProofs` | `BreakerTypes`, `EpisodeInvariant`, `ClosesOnlyAfterWindows`, `BackoffIsHonoured` | `EpisodeInv`: answers counted plus probes in flight do not exceed the probes admitted, and each probe used up a window. Closing needs `breakerRecoveries` answers, hence as many windows. Needs a lemma on the size of a finite set. |
| | `TypeCorrect`, `ImagesServable`, `PruneReclaimsAll` | What an acquisition has written stays until it commits, because prune excludes it and the sweep knows the current rows; the type of an image is fixed by the decoders. A prune that has swept keeps, of the files before its cutoff, only those a row spoke for, and no row goes before the prune ends; the files it gave up on are excepted (`Swept`). |
| `LibraryScanProofs` | `TypeCorrect`, `BaseHolds` | `Base`: versions never exceed the content's, a folder is at one stage of the pipeline, the walk enters a folder only from above, and what is left of a tree is walked as a whole. |
| | `SkippedAreImported` | `ImportInv`: at every stage, a hash that describes the current files comes with the tags of these files or is about to. |
| | `MissingOnlyUnseen` | `SeenInv`: a folder that the walk has yet to find is below one that it is yet to list, or it was hidden or absent at some moment of the scan. |
| | `FullScanIsRemembered` | `FlagInv`: the flag of a library, the kind of its job and the folders ahead of the walk agree, from the request over the preparation to the end; a folder that is owed and not ahead of the walk waits for a PID rescan. Rests on `SoundInv`: folders stay, a full scan reads what it processes, and configurations only advance. |
| | `PIDIsApplied` | `PidInv`, on top of `SoundInv`: a rescan for one is full and reads every folder in it, and what it has persisted is of the configuration its job carries or of a later one that the next scan will notice. |
| `ScanProofs` | `TypeCorrect`, `SectionsExclusive`, `OneScanAtATime`, `RequestNeverLost` | Flag and mutex agree with the control points (`LockInv`); `StaleIsPending` adds that nothing heavy is imported during an analysis, which the exclusion gives. |
| | `FilesKeptOnce` | `MovesInv`: a planned move, and a group of the first stage, still find the file they read in its row, unless the file is contested; a new row holds its own file or is gone, and a row that is not missing holds a file that exists. |
| | `ClaimsAreHonoured` | `ClaimsInv`: a move that has not claimed its album does not reassign it, so a plan dropped by a restart takes no claim with it. |
| `WatcherProofs` | `OneWatcherPerLibrary`, `NoChangeForgotten` | Unused instances are unknown to the registry; a goroutine that does not wait has no request, and without a scan nothing is left to visit, nor is a scan the watcher's own. All four causes of a loss are in the specification, so neither theorem has a condition. |
| `ArtworkQueueProofs` | `TypeCorrect`, `RequestsKept`, `RequestsAnswered`, `ArtKept` | What the worker resolved for a row it still holds is as new as the last request; a request during the work makes the row a new one. Of the items that the worker settles absent, those whose row it could read have no image. |
| `TaskQueueProofs` | `TypeCorrect`, `AttemptsAddUp`, `HeldTasksRun`, `RetriesKept`, `FinishedKept`, `BudgetKept` | The attempts of each task add up at every stage of its worker, and a held task is running; a step changes one task only (`OneTask`) or resets tasks that nobody holds. The workers of all queues are one finite set, `Pool`, whose size the new queue's share keeps within the budget. |
| `BufferedScrobblerProofs` | `TypeCorrect`, `AcceptedKept`, `AnsweredOnce`, `WindowKept`, `WaitsAreHonoured` | Only the loop in the tracker's map is live; a play that no loop lost is held by the live loop alone, and was answered only if it is about to be deleted. `WaitInv`: the wait a pass has collected so far covers every delay asked for in it, and only the end of a pass sets the timer. |
| `ServicesProofs` | `ReportsHandledInOrder` | The safety part of the refinement of `ReportQueue`, for any number of reports: the batch is empty unless the worker sends (`BatchOK`), so taking the queue over is a stutter of the ideal queue. |
| | `UpdatesInOrder` | The safety half of `LatestSent`: an update that waits is no older than the one being sent, nor that than the last one sent (`SentInv`). |
| | `SessionsTypeCorrect`, `SessionsKept` | What a call carries fits the place where it is; only four actions write a session. |
| | `CompleteEntriesAreWhole`, `CleanEndsAreWhole`, `SlotsWithinLimits` | A writer past its copy has written the whole file (`WholeInv`), and only the entry in the file is marked; every slot has an owner, counted with the theorems on finite sets. |
| | `PanicsHaveCause` | A closed channel belongs to a stream that is no client, unless its departure came first. |
| | `SchedulesKept` | An ID stands for a schedule of that ID that is not being stopped; a firing that deletes is of a one-time schedule that is no longer set. |
| | `ServicesImplementEach`, `TypesKept` | Each step of the sum is a step of one service and a stutter of the others, so the specification of each service follows and with it all of the above. The types rest on `ReadersInv`: the reader of a request stays open until the request has its transcoder, and a writer that fails or marks has a key. |

Assumptions beyond the named ASSUMEs are in the statements of the theorems: bounds are
natural numbers, an ID exists, `Anonymous` is a user and `NoKey` no key; `MovesConstants`
says that creation times are numbers and that the markers `NoRow` and `NoMove` are neither
rows nor moves. `ScrobblerAssumption` says that the powers of two of the backoff are
positive numbers, which the provers do not know. `LibraryScanAssumption` says that the
folders of a library form trees below its roots; `Subtree` is the least set of folders
with a root that is closed under `Children`, so that the proofs need no induction.

Three theorems about `LibraryScan` exclude events, as the runs do (see *Deviations*):
`SkippedAreImported` "race" and "tagerror"; `FullScanIsRemembered` "partial", "upgrade",
"badfull", "vanish", "delete", "tagerror" and "revert"; `PIDIsApplied` "delete",
"tagerror", "vanish", "revert" and libraries that no scan has finished. None of these
can be left out: TLC finds the property violated as soon as one is allowed.
`MissingOnlyUnseen` excludes nothing.

Only model-checked: all liveness properties (the prover has no fairness, so the fair part
of `ReportsInOrder` and of `LatestSent` as well). Every invariant and every action property
that a passing run checks is also a theorem.

Proved and in no run: the type invariants of `ArtworkBreaker`, `LibraryScan`,
`ScanMaintenance`, `ArtworkQueue`, `ArtworkStore`, `TaskQueue` and `BufferedScrobbler`,
`EpisodeInv`, `Base`, `HolderInSection`, `ServedArtKept`, `HeldIsRunning`,
`RetriesHonoured`, `FinishedStays`, `NoHammering`, `RegisteredIsLive`, `CleanEndIsWhole`
and `PanicHasCause`.

## What is not modelled

Request handlers without shared state, network clients, SQL generation, pure
conversions (tags, criteria, formats), image and audio processing, and the web
interface: see the components in `PROJECT.json`. In the modelled parts: which paths
the watcher ignores and the capacity of its channels, priorities of artwork,
temporary files, real time (delays are "passed or not", or small numbers), which
scrobblers a report goes to, the names and sizes of cached files, statistics and
garbage collection after a change of tracks, and scan phases 3 and 4.

Left out with a hazard of their own: the jukebox, whose device is used by requests and by
the track switcher without a lock (what a race leaves behind depends on the mpv process
it drives); a throttled request that times out as a token becomes free
(`throttle_backlog.go:105`), where the channels bound the tokens by themselves; two
writes that pass the storage limit together (`host_kvstore.go:154`); requests that expire
at the limit (`quickconnect.go:95`), all under one mutex; the plugin manager's own locks
and directory watcher.

Known and left out of the modules: a view's request lost with the row of an older resolution
(`artwork_queue_repository.go:53`); a decoder added by an upgrade (`prune.go:52`); a
callback that outlives a timed out `Close` (`host_taskqueue.go:577`); the overflow of
`BackoffMs << (attempt-1)` (`host_taskqueue.go:475`); two plugins of one name around
`Discard` (`manager_sync.go:118`); the goroutine of a storage blocked on a full
channel (`local/watcher.go:41`).

## Next

* `LibraryScan` followed by `MovedTracks` in one behaviour; today the second starts from any
  rows the first may leave, which is more, but does not carry `fresh` folders over.
* The plugin manager (`plugins/manager*.go`): load and unload against running calls, as
  the environment of `TaskQueue`, `BufferedScrobbler` and `PluginScheduler`.
* `BufferedScrobbler` and `TaskQueue` as implementations of an at-least-once queue.
* Theorems: the safety part of an at-least-once queue as the abstract specification of
  `BufferedScrobbler` and `TaskQueue`.
