# Verification of ct-mapreduce

ct-mapreduce downloads Certificate Transparency logs and files the certificates it finds by
expiration hour and issuer. This directory holds TLA+ models of its core, TLC runs that check them
on small instances, and TLAPS proofs that hold for every value of the constants.

## 1. The system

| part | state | operations | talks to |
|---|---|---|---|
| `ct-fetch` (`cmd/ct-fetch/ct-fetch.go`) | one goroutine per log with `index`, `StartPos`, `EndPos` and two signal channels; the bounded `entryChan`; `NumThreads` workers; two wait groups | `SyncLog` (`NewLogWorker`, `Run`, `downloadCTRangeToChannel`), `saveState`, `insertCTWorker`, `Stop`, main's wait sequence | the logs over HTTP, `FilesystemDatabase` |
| log position | `CertificateLog.MaxEntry` in Redis and in a state file | `SaveLogState`, `GetLogState` | Redis, disk |
| `FilesystemDatabase.Store` | an LRU-like cache of `KnownCertificates` objects, a map of `IssuerMetadata` objects | `Store`, `GetKnownCertificates`, `GetIssuerMetadata`, `markDirty` | both objects, the backend |
| `KnownCertificates` | `expirySet`; the Redis set `serials::<hour>::<issuer>` | `WasUnknown`, `setExpiryFlag`, `Known`, `Count` | Redis |
| `IssuerMetadata` | what it has seen (dates, CRLs, names) under a lock; the Redis sets `crl::`, `issuer::` | `Accumulate`, `addCRL`, `addIssuerDN`, listings | Redis |
| `Coordinator` | `identifier`, `isLeader`; the keys `leader-<name>`, `started-<id>` | `AwaitLeader`, `AwaitStart`, `SendStart`, two renewal goroutines | Redis |
| backends | files (`LocalDiskBackend`), nothing (`NoopBackend`), memory (`MockBackend`) | writes, listings | disk |
| remote caches | Redis (`RedisCache`), memory (`MockRemoteCache`) | sets, expiry, `TrySet`, log state, queues, scans | Redis |
| `storage-statistics` | the list of issuers with their hours, totals | `GetIssuerAndDatesFromCache`, `Count`, `Known`, `Issuers`, `CRLs` | Redis, beside a running `ct-fetch` |
| start and health of `ct-fetch` | the settings in force; `lastUpdateTime` under a lock; a ticker per worker | `config.Init`, `GetConfiguredStorage`, `PrepareTelemetry`, `StartDatabaseThreads`, the report in `insertCTWorker`, the `/health` handler | environment, ini file, HTTP clients |
| `ExpDate` (`storage/types.go`) | none | from a time, to a name, from a name, `IsExpiredAt` | names of Redis keys and of directories |
| `ct-getcert`, `telemetry` | none that lasts | one request, output of metrics | the above |

What is hard about it:

* **Concurrency.** All downloaders and workers share one channel; main closes it; the workers
  register with the wait group that main waits on; several workers run `Store` for the same
  certificate (it is in several logs); `Accumulate` swaps a read lock for a write lock and back.
* **Failure.** The position is saved when an entry enters the channel, not when it is stored. The
  serial is put into Redis before the PEM file is written, and everything later trusts the serial.
  Redis requests are retried, so a lost reply makes an insert answer "already there".
* **Time.** Keys expire at an hour rounded down; the leader's key lives two minutes and is renewed
  every minute; a log answers 429, or with an old tree head; an expiration hour ends at one moment when
  it is made from a certificate and at another when it is read back from its name; a health report is
  sent only by a `Store` that finds a tick of its own thread's ticker waiting.
* **Signals.** Two channels per downloader: one that its goroutine registers when it first runs, one that
  exists only during a download, and paths on which neither is looked at.

`PROJECT.json` lists the hazards line by line with the properties that watch them.

## 2. Modules

| module | contents |
|---|---|
| `LogSync` | the `ct-fetch` process with its durable positions, over several starts |
| `AtLeastOnce` | what `LogSync` promises about entries and positions; `LogSync` implements it |
| `ExpDate` | expiration hours and their names, pure definitions |
| `CertStore` | `Store` as run by the workers of one process against Redis and the disk |
| `SerialStore` | what `Store` promises its callers; `CertStore` implements it |
| `Ingest` | `LogSync` composed with `SerialStore`: from the log to the disk |
| `Service` | start and configuration of `ct-fetch`, and its `/health` endpoint |
| `Coordinator` | leader election and the start signal, over a clock |
| `Statistics` | a run of `storage-statistics` beside a `ct-fetch` |
| `MCLogSync`, `MCCertStore`, `MCIngest`, `MCService`, `MCCoordinator`, `MCStatistics` | instances for TLC |
| `LogSyncProofs`, `LogSyncRedoProofs` | theorems of `LogSync`: coverage, refinement, shutdown; positions, repeated work and the size of a loss |
| `CertStoreProofs`, `CertStoreObjectProofs` | theorems of `CertStore`: serials, files, refinement; what the cached objects remember |
| `IngestProofs`, `ServiceProofs`, `CoordinatorProofs`, `StatisticsProofs` | theorems of the modules they are named after |

Definitions named `Mut...` are mutated forms of single definitions (a plausible slip each). Nothing
uses them; with one of them put in place of its original the property that guards it must fail, which
shows that the property depends on the code's behaviour.

### LogSync

An entry is `<<log, index>>`. `pc[l]` says where the goroutine of log `l` is:

| `pc` | code |
|---|---|
| `new` | the goroutine has been started and has not called `signal.Notify` |
| `sync` | `NewLogWorker` and the head of `Run` |
| `fetch`, `backoff`, `submit` | the two loops of `downloadCTRangeToChannel`: before `GetRawEntries`, in the sleep after a 429, at the current entry |
| `unhook` | `close(sigChan)` has run, `signal.Stop` has not (deferred calls run last in, first out) |
| `final` | `saveState` at the end of `Run` |
| `poll`, `leave`, `done` | main's goroutine between two syncs, in its deferred calls, finished |

`main` goes through `waiting`, `stopping` (the channel is closed), `stopped`, `leaving`, `exited`;
`thread[w]` is `new` until the worker has called `ThreadWaitGroup.Add(1)`. The steps are the points at
which goroutines meet: the channel, the signal channels and their registration (`Notify`), the wait
groups, the stored positions; the three cases of the `select` are the actions `Submit`, `SaveTick` and
`SignalCaught`. What lies between two such points, the reads of one `NewLogWorker` or the two writes of
one `saveState`, is one step, since only the goroutine of a log touches that log's position. `SaveState` covers `saveState`, `SaveLogState` and both stores: a Redis
error may or may not have had its effect, and a state file, opened with `O_TRUNC`, may become
unreadable. `NewLogWorker` reads the position from Redis, else from the file, else starts at 0, and
computes `EndPos` in arithmetic modulo `Word` (2^64). A signal reaches the channels that are registered
when it comes: not that of a downloader that is still `new` (`OuterNotified`), and the inner one only
during a download. A crash, and a signal that comes in the `unhook`
or `leave` window (the runtime then sends on a closed channel) or when nobody listens, end the
process; `Restart` begins the next one with the positions that were saved. The histories `handled`,
`failed` and `lost` say what became of each entry. `runForever` is chosen from `RunModes` at the first start.

`AtLeastOnce` forgets goroutines, channel and signals: entries are taken up in order, one that was taken
up leaves only by ending, and `resume`, the positions a later start may find, never lies beyond an entry
that was not taken up. The mapping takes `pending` to the pipeline, `ended` to `handled`, `failed` and
`lost` together, and `resume[l]` to the two stored positions.

Abstractions: which entries cannot be decoded by the downloader (`Erroneous`) or are discarded by the
worker (`Droppable`: expired, CA, filtered, no issuer) is fixed; `Store` is one step that succeeds or
fails (its inside is `CertStore`, and `Ingest` puts it back); a log never returns more entries than it was asked for; the polling
delay and the back-off are unordered in time.

### CertStore

`pc[t]` is the place of thread `t` inside `Store`; the table of actions follows the code from top to
bottom. Objects are numbers, so that two threads that miss in a cache at once really hold two
objects. Redis is the set `serials`, the keys that have an expiry (`hasTTL`) and `metadata`; the disk
is `dirs`, `pem` and `dirty`. `SetInsert`, `SetInsertRetried` and `SetInsertFails` are the three things
a caller can see of one `SADD`. `excused` records the certificates whose `Store` met a fault, `late`
those that were inserted when their hour had already begun: the properties say what can go missing, or
stay behind, only on account of one of them.

The lock of an `IssuerMetadata` object is a `sync.RWMutex`, and the model keeps its rule for waiting
writers. A call of `Lock` is two steps: at `lockdate`, `lockcrl` and `lockdn` the thread waits until no
other writer has announced itself (`NoWriter`), and the action `Lock` announces it; at `markdate`,
`markcrl` and `dn` it waits for the readers that are inside to leave (`CanLock`). From the announcement
on, `RLock` (the first read in `ReadSeen`, and the steps at `rlock` and `relock`) is not given to anybody.
The CRL loop is inside as a reader at `crls` and `addcrl` (`HoldsRLock`), across the Redis call, and
outside between its `RUnlock` and the next `RLock`.

A certificate has a `NotAfter` in units of which `Hour` and `Day` are given; its hour is what
`NewExpDateFromTime` makes of it, and goes by its `ID`, as in the Redis key and the directory. `ExpDate`
keeps the difference between the constructors: `lastGood` is just before the hour for one, just before
its end for the other, and `ListExpirationDates` parses the names of the directories and asks with the
calendar date of its argument, taken in the argument's own time zone and read as a day of UTC. `Zones`
are the offsets of the callers' zones from UTC.

`SerialStore` keeps of all this a set of known certificates, a set of stored ones and what each writer
has in hand; caches, locks, metadata and directories are gone. The mapping has a thread with
`certWasUnknown` before its PEM is written hold its certificate.

Abstractions: CRL distribution points with a scheme `addCRL` ignores are left out (they reach neither
Redis nor a property); one distinguished name per issuer; hours begin (`HourBegins`) in any order; `AllocateExpDateAndIssuer` creates the directory of the hour, as
`makeDirectoryIfNotExist` drops the last element of the path it is given.

### Ingest

`Ingest` extends `LogSync` and instantiates `SerialStore` with the workers as writers. Where `LogSync` has
one step for `Store`, here the answer of Redis (`WasUnknownTrue`, `WasUnknownFalse`, `ReplyLost`), the
writing (`WritePEM`) and the return (`StoreReturnsNil`, `StoreReturnsError`) are steps of their own that
conjoin an action of the store or of `LogSync`; the end of the process ends both. `CertOf` says which
certificate an entry holds: a certificate that is logged twice, or in two logs, is two entries. This is
where "the position was saved" and "the file is on disk" are related: a worker that finds the serial known
returns at once and counts its entry as handled on the word of a worker that is still writing.

### Service

`phase` follows `main` to `running` or to one of the exits: `Configure` applies the precedence of `confInt`
and `confString` to every combination of environment, file and default for `numThreads` and
`pollingDelayMean`, `Prepare` is `GetConfiguredStorage` and `PrepareTelemetry`, which go on or call `Fatal`.
Once running, every worker has a ticker with its own period, a channel of capacity one that drops what it
cannot hold, and a `Store` that may take any time. `StoreReturns` reports only if a tick waits; `Discard`
(the `continue`s of `insertCTWorker`) never does. `Health` is the status that the handler would answer with.
Ages stop at `MaxAge`; the theorems hold for every `MaxAge`, so no property rests on the bound. That
`numThreads` of zero or less is accepted is the code's behaviour: `/health` then answers 503 for ever.

### Coordinator

`Tick` moves every key one unit closer to its end and lets the goroutines' timers run. It is disabled
while a call or a renewal is `MaxDelay` units late: that is the only assumption on timing, and the
proof asks for `Punctual`, which compares delays, period and lives. An identifier is the process that
made it up. `MaxFailures` bounds the requests that fail, anywhere;
`missed` records for which key a renewal, or `SendStart`, was among them. The check for an existing start key in `AwaitLeader` is a step without a guard: the code
aborts on `err != nil && started`, and no client answers true together with an error.

### Statistics

`pc` follows `main`: `list` is the read loop of `GetIssuerAndDatesFromCache`, `issuers` and `dates` are the
two nested loops, `known` is the read loop of `Known`. `Insert` and `Expire` stand for the other processes.
A scan of Redis gives whatever is there from its begin to its end at least once; other elements, and
repeats, are up to it: `KeysScanned` waits for the keys of the serials in `stayed`, `SerialsScanned` for
`stay`. A failing scan closes the channel first and calls `glog.Fatalf` after that (`close` is deferred in
`KeysToChan` and `SetToChan`, `Fatalf` is in their caller), so the reader may go on with part of the list:
`dying` is that window, `Fatal` its end, and `main` may return before it. Totals of CRLs and names, and the
PEM files printed at verbosity 3, are left out: they decide nothing. Keys that do not parse are left out as
only `serialId` makes keys with this prefix. `Report` includes the log status; `GetLogState` never answers
with an error, see `LoadPos` in `LogSync`.

## 3. Runs

| run | instance | shows |
|---|---|---|
| `LogSyncFaults` | 1 log of up to 4 entries, 1 worker, capacity 1, both values of `runForever`, kills, failing Redis and disk, 2 starts | `KeepsPromise` (implements `AtLeastOnce`), `SavedCovered`, its inductive form `Covered`, `GapBound`, `TypeOK` |
| `LogSyncShutdown` | 2 logs, 2 workers, 2 entries each, limit 1, signals, stale heads, 2 starts | `SavedCovered`, `NoSendAfterClose`, `DrainedStop`, `NoRedo`, `PosNeverBack` |
| `LogSyncLive` | 2 logs of up to 2 and 1 entries, one undecodable, both values of `runForever`, stale heads, signals, fair | `Stops`, `EventuallyHandled` |
| `LogSyncExit` | 1 log, 2 workers | `ExitDrained` is violated |
| `CertStoreThreads` | 2 threads, 2 calls, the same 2 CRLs in opposite orders, every fault, zones -2, 0 and 2, fair | `KnownIsStored`, `MetaRecorded`, `DiskListing`, `ImplementsStore` (implements `SerialStore`), `StoreReturns` |
| `CertStoreHours` | 2 threads, 3 calls, 2 certificates of one hour, eviction, lost replies, kills, hours | `ReportedUntilExpiry`, `OneWriter`, `KeyExpires`, `ImplementsStore`, `TypeOK` |
| `CertStoreExpiry` | 2 threads, hours, no fault | `ReportedOnce` is violated |
| `IngestRun` | 1 log with 2 entries of one certificate, 2 workers, every fault, hours, 2 starts | `KnownKept`, `HandledIsKept`, `SavedIsKept` |
| `ServiceRun` | every configuration, up to 2 threads with periods 2 or 3, delays 0, 1 and 2, fair | `HealthyMeansStoring`, `UnhealthyMeansSilent`, their inductive form `HealthInv`, `BecomesHealthy`, `TypeOK` |
| `CoordinatorLeads` | 3 processes, one failing request anywhere, deaths, fair | `OneLeaderUnlessMissed`, its inductive form `KeyOutlives`, `NoFalseStart`, `StartReaches`, `TypeOK` |
| `CoordinatorMissed` | 3 processes, the code's proportions, one failing request | `AtMostOneLeader` is violated |
| `StatisticsRun` | 2 issuers, 3 keys, inserts, expiries, a repeated key, failing requests | `StayedReported`, `OvercountByRepeats`, `TypeOK` |

**Bounds.** `MaxTree`, `MaxRuns`, `MaxCalls`, `MaxDelay`, `MaxFailures`, `MaxRepeats` and `MaxAge` bound what is unbounded. Capacity 1 makes a
full channel the normal case; `BatchSpan` 1 asks for two entries at a time, so three entries need two
requests and a poll starts in the middle; the undecodable entry lies between ordinary ones. Two starts
are enough for a position to be written by one process and read by another. A pipeline of `LogSyncFaults`
holds two entries and its log has three that can be decoded, so that a process can lose the two that
`GapBound` allows and there is one left to lose. Signals and stale heads, which only multiply its states, are
in `LogSyncShutdown`, where `SavedCovered` is checked as well. In `LogSyncLive` the first log has an
undecodable entry and an ordinary one, which come in one answer or in two: a sync may fail between them, and
the next resumes in the middle. `LiveSpec` keeps the second log at one entry, enough to be blocked at the full
channel, or anywhere else, when a signal comes; the growth it leaves out is under no fairness. Three calls of
`Store` on two threads give a race and a later call that meets its result; `CertStoreThreads`, whose calls are
much longer for the CRLs and whose liveness does not go with symmetry, makes do with two. `Hour` 2 and `Day` 4
with validity ending at 4 and 5 put two certificates into one hour, the first of a day, where the date a
listing asks with is that of the hour itself; zones two units from UTC move a date across midnight either way.
In `IngestRun` both entries hold the same certificate, so that
each worker may be the one that relies on the other. In `ServiceRun` the evaluation time is 0, 2 or 4 and
the periods 2 and 3: a ticker may be slower than the evaluation time, as 15 to 30 seconds are with a
short `pollingDelayMean`, or faster. One failing request is enough to lose a leader key. Three processes give a leader, a
successor and a follower of either. `MaxRepeats` 1 lets the scan repeat one key, and a serial is inserted
at most once: both keep the lists finite, and the first repeat already gives the double count that
`OvercountByRepeats` excludes otherwise. Symmetry (workers, threads, processes) is used only where no
liveness property is checked.

**Fairness.** `Scheduling` is what the `ct-fetch` process owes itself: runnable goroutines run and requests
end (weak fairness; the HTTP client has a timeout of 10 seconds, the back-off is at most 5 minutes, the
polling delay is finite), a sender on the channel is served in turn (Go's channels queue their waiters), and
a `select` does not choose its timer for ever while another case is ready (Go chooses at random). The run
assumes nothing of the logs. `Stops` has its one condition on them written into it, and so has
`EventuallyHandled`: it speaks of the logs for which `LogAnswers` holds, those that, asked again and again,
sometimes answer with entries and with their current head, whatever the others do. Nothing is assumed about signals, growth of a log or the save ticker. `CertStore`:
runnable threads run; that a lock which is free is taken sooner or later needs no more than that, as a
writer that has announced itself is alone. `Coordinator`: a follower that sleeps looks again; renewals
need no assumption, time cannot pass them by. `Service`: time passes, a worker is given entries,
and does not discard all of them for ever (strong fairness of `StoreReturns`, as `Discard` competes with it);
without that the endpoint has nothing to report, and does say so. No run has an `Offset` above 0: the
proofs cover it.

**Disagreements the runs show.**

* `ExitDrained`: `ThreadWaitGroup.Add(1)` is called in the worker's goroutine (`ct-fetch.go:181`). If
  main gets to its `Wait` before a worker ran, it exits with entries in the channel, behind a saved
  position. `DrainedStop` is what remains true: once one worker has registered and finished, the
  pipeline is empty.
* `ReportedOnce`: the comment on `WasUnknown` promises that a serial is unknown once. Its key expires at
  `NotAfter` rounded down to the hour, so it is unknown again afterwards, with the certificate valid for
  up to an hour more. `ReportedUntilExpiry` is what remains true.
* `AtMostOneLeader`: a renewed key lives two periods, the goroutine only logs a failed renewal, and
  `isLeader` is never looked at again, so one failed renewal gives a second leader.
  `OneLeaderUnlessMissed` is what remains true.

Met while modelling, where no document of the repository says otherwise, or no run of its own:

* `README.md:22` says `numThreads` is a number of threads per CPU; `StartDatabaseThreads` starts that many
  altogether.
* A signal between the registrations of two downloaders (`ct-fetch.go:537`) ends the first and leaves the
  second polling, and with it the process, until another signal comes. `Stops` therefore asks that the
  signal has reached every downloader.
* A log that answers every request with 429, or with no entries, keeps its downloader in a loop that looks
  at no signal channel (`ct-fetch.go:416`). `Stops` therefore asks that every downloader comes out of it.
* Without worker threads (`numThreads` of zero or less is not refused) a downloader that has filled the channel
  blocks in its `select`. A signal that came while it was still in `NewLogWorker` waits in the outer channel,
  which is looked at only after the download, and the download never ends. `Stops` is checked with a worker.
* Redis drops a serials key when its hour begins; an object whose `expirySet` is true, still in the cache,
  lets the next `SADD` for that hour make the key again with no expiry, and it stays (`knowncertificates.go:44`).
  Certificates of such an hour do arrive: they are valid until `NotAfter`, up to an hour longer. `KeyExpires`
  names this case (`late`).
* `ListExpirationDates` takes the date of its argument in the argument's own time zone for one of UTC
  (`localdiskbackend.go:97`). A caller ahead of UTC is not told of hours whose certificates are still valid.
  No command calls it; its tests use UTC.

## 4. Proofs

All theorems quantify over every constant under the named assumptions of the modules
(`ConstantsAssumption`, `WorkersAssumption`, `ExpDateAssumption`, `StoreAssumption`, `ThreadsAssumption`,
`IngestAssumption`, `ServiceAssumption`, `CoordinatorAssumption`, `StatisticsAssumption`), which TLC
evaluates on every run. Those that speak of finiteness say what any program has: finitely many goroutines,
and finitely many certificates that a run of `storage-statistics` can meet.

Four safety properties hold only where the code can keep them, and their theorems say so:

| property | hypothesis | why |
|---|---|---|
| `PosNeverBack` | `Offset = 0`, `~RedisFails` | a failing load of the position goes on with the file, which may be older, or with 0; an offset, whichever way it moves, replaces the position that was read |
| `NoRedo` | the same, and `~MayCrash` | a process that is killed has taken up entries behind no saved position, and the next one takes them up again, as it should |
| `KeyExpires` | `~RedisFails` | an `EXPIREAT` that fails is logged, the hour is marked as done in `expirySet` all the same, and the key then stays |
| `OneLeaderUnlessMissed`, `KeyOutlives` | `Punctual` | a process that is paused for as long as its key lives loses it |

Nothing else is assumed: every other theorem holds with all faults at once.

| theorem | argument |
|---|---|
| `LogSyncProofs!TypeCorrect` | inductive by itself; `FitsInt64` keeps a stored position an int64 for any offset |
| `CoveredHolds`, `SavedCoveredHolds` | `SavedCovered` is not inductive: `saveState` stores `index`. `Covered` adds that `index` is covered wherever the goroutine is, and that an ended process holds nothing (so that a restart forgets nothing). `index` grows only past an entry that was skipped as undecodable or appended to the channel; entries only move on from the channel to a worker to `handled`, `failed` or `lost` |
| `KeepsPromiseHolds` | every action is a step of `AtLeastOnce` or a stutter under the mapping: `Covered` supplies the guard of `Take` and `Save`, `HoldsOne` (a worker has one entry) makes an end the end of one entry |
| `NoSendAfterCloseHolds`, `DrainedStopHolds` | `PoolInv`: a worker outside its range loop holds nothing, and one that has left the loop found the channel closed and empty, after which nobody sends |
| `KnownIsStoredHolds` | `StoredInv`: `certWasUnknown` is false until `SADD` has answered, and a thread that carries it comes to the dirty marker with its PEM written or a fault on record |
| `PosNeverBackHolds` (`LogSyncRedoProofs`) | `PosInv`: the position in Redis is at most the `index` of the downloader that read it. A stale tree head only makes a window empty |
| `NoRedoHolds` | `RedoInv`: what was taken up lies behind `Reached`, the `index` of a running downloader or else the position the next one would load. `Reached` never falls, and every way out of `Run` without a kill goes through `saveState`, which saves `index` because it fits an int64 (`TreeFits`) |
| `GapBoundHolds` | `LostInv`: each process that ended lost at most what its pipeline held, `Cap` entries and one per worker (`PipelineBound`); `Covered` says that whatever is missing behind a saved position is lost |
| `OneWriterHolds`, `ReportedUntilExpiryHolds` | `DedupInv`: a serial leaves its set only when its hour has begun, so one that was reported is still there, and the next `SADD` answers 0 |
| `ImplementsStoreHolds` | `WriterInv`: only a thread that was answered "unknown" gets to the metadata and the files, and it has a certificate; then each action maps to one of `SerialStore` or a stutter |
| `DiskListingHolds` | `FiledInv`: a PEM file lies in the directory of its hour, whichever write failed before; lemmas on `Truncate` bound the hour by `NotAfter` on one side and by the caller's date, read as UTC, on the other; the zone stays in the statement, since rounding to the day does not absorb it |
| `CertStoreObjectProofs!TypeCorrect` | not inductive by itself: that an object is a number up to `2 * MaxCalls` needs `AllocInv`, which counts the threads that may still allocate one, and `PlaceInv`, which says which fields are set where |
| `KeyExpiresHolds` | `KeyInv`: an object belongs to one key (`OneKey`), and one that is in `expirySet` belongs to a key that has its expiry or whose hour has begun. A thread that skips `ExpireAt` because the object says it is done is right because the thread that marked it had succeeded, or its certificate is in `late`; `EXPIREAT` after the hour deletes the key, so that nothing is left without an expiry |
| `MetaRecordedHolds` | `MetaInv`: what an `IssuerMetadata` object remembers is `Accounted`: in Redis, about to be put there by the thread that marked it, or on record as the work of a call that met a fault. `Accounted` only grows (`AccountsKept`), and what a thread has passed in its CRL loop is in it (`WorkedBy`) |
| `KnownKeptHolds`, `HandledIsKeptHolds`, `SavedIsKeptHolds` | `IngestIsLogSync`: without the store's variables every step is one of `LogSync`, so its invariants carry over. `IngestInv`: what a worker writes is its entry's certificate, and a worker that was answered relies on a certificate that is kept; what is kept stays kept (`KeptGrows`), since a file that is cut short is excused in the same step |
| `ImplementsParts` | `IngestIsLogSync` and `KeepsPromiseHolds` for the pipeline; `IngestStepOfStore` maps every step to one of `SerialStore` or a stutter, the end of a process to its `Crash`, with what the workers had in hand excused |
| `OneWriterEachHolds` | `InHandInv` of `SerialStore`: what is in hand is known until its hour begins, so nobody else is told that it is new. It is proved of `SerialStore` alone and carried to `Ingest` by `ImplementsParts` |
| `HealthInvHolds`, `HealthyMeansStoringHolds`, `UnhealthyMeansSilentHolds`, `ServiceProofs!TypeCorrect` | `ServiceInv`: `HealthInv` with the types and `Threads` as `numThreads` demands. A reporter whose channel is empty took its last tick at most `period - untilTick` ago; one with a tick waiting has stored nothing since it came, so the age exceeds `storeAge` by at most a period |
| `CoordinatorProofs!TypeCorrect` | inductive by itself |
| `KeyOutlivesHolds`, `OneLeaderHolds` | under `Punctual` and while no renewal has failed: the key of whoever leads, or is about to, outlives the latest moment of the step that extends it, so every other `SETNX` fails |
| `NoFalseStartHolds` | `StartKeysSent`: a start key that is there was sent by the process it is named after; it needs neither `Punctual` nor the absence of failures |
| `StatisticsProofs!TypeCorrect` | `TypeInv`: the list of an issuer is no longer than the hours scanned for it and the repeats |
| `StayedReportedHolds` | `StayInv`: unless a request failed, what has been there throughout is in the lists once the scan has ended, and its key is either still to come or counted and, with verbosity 2, printed |
| `OvercountByRepeatsHolds` | `OnceInv`: without a repeat the lists have no key twice, so the keys that were counted and those to come are disjoint, and the sum of their cardinalities is at most that of all serials ever there |

Every invariant and every safety property of the passing runs is stated by a theorem. Only model-checked
are the liveness properties, which rest on fairness and are outside what the proof system handles:
`Stops`, `EventuallyHandled`, `StoreReturns`, `StartReaches` and `BecomesHealthy`.

## 5. Not modelled

* The queue operations and `SetRemove` of the cache and `StoreKnownCertificateList`, which nothing calls; the
  reads `LoadCertificatePEM`, `ListIssuersForExpirationDate` and the two listings of serials.
* `MockRemoteCache`, `MockBackend`: used by tests only.
* `ct-getcert`, progress bars, the telemetry sinks and dumper: output without state.
* Settings other than `numThreads` and `pollingDelayMean`: they are constants of the modules, or decide nothing
  that a property speaks of. An `outputRefreshPeriod` that is not positive makes a ticker panic; a crash.
* How `Issuer`, `Serial` and `SPKI` are encoded: distinct ones have distinct names.
* The path `MarkDirty` writes to: it joins the day, not the hour, and leaves out the root directory.
  `dirty` records that the marker was written, not where.
* A limit close to 2^64: `EndPosOf` wraps as the code does, a window may then be empty, and the proved
  `SavedCovered` holds for it too, but no property says how much is downloaded.
* Two URLs that differ only in scheme share one position key; `Logs` are taken as distinct.

## 6. Plan

1. `OneWriter` and `ReportedUntilExpiry` of `CertStore` from `ImplementsStore` and theorems of `SerialStore`,
   in the place of invariants of their own.
2. `GapBound` with the certificates of `Ingest` in the place of the entries: how many certificates behind a
   saved position can be without a file.
3. Reads of the cache and the disk that only listings use, and the settings that decide nothing yet.
