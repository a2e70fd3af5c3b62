# TLA+ models of distbuild

These modules model the distributed build system under `src/`. A client
submits a build graph to a coordinator. The coordinator schedules the graph's
jobs onto workers that poll it with heartbeats. Workers download source files
from the coordinator and dependency artifacts from each other, run the jobs'
commands and keep the artifacts they produce. The coordinator streams each
job's status back to the client.

## The system's parts and how they interact

| Part | Source | State | Operations |
|---|---|---|---|
| Scheduler | `pkg/scheduler/scheduler.go`, `queue.go` | job registry `c.jobs` (PendingJob: spec, Finished channel, Result, isCloseFinished); ready channel; `c.artifacts` ring of at most 4 locations per job | ScheduleJob, PickJob, TryPickJob, OnJobComplete (two critical sections: jobsMu, then artifactsMu), LocateArtifact |
| Build service | `pkg/dist/build_service.go` | SyncMap of published builds; per-SignalBuild `finishedJobCount`, watchers | StartBuild (TopSort, publish under `hb.Happen`), SignalBuild (wait for deps, locate, schedule, start a watcher), watcher (count, status update, removeSourceFiles) |
| Heartbeat service | `pkg/dist/heartbeat_service.go` | none of its own | report FinishedJob and AddedArtifacts to the scheduler, PickJob, then FreeSlots-1 rounds of 4 TryPickJob attempts |
| Happens-before machine | `pkg/concurrency/hb.go` | per key: a channel and a counter | Happen, Before |
| Worker | `pkg/worker/*.go` | finished-job list, added artifacts, job-result cache, artifact cache, file cache | heartbeat loop, per-job goroutine: downloadArtifacts, downloadFiles, executeJob (Create, Get deps, run commands, commit or abort) |
| Status writer | `pkg/api/status_writer.go` | a started flag; a done channel closed by BuildFinished | Started, Updated |
| File cache handler | `pkg/filecache/handler.go`, `pkg/concurrency/key_lock.go` | per-ID key lock; singleflight for GET | PUT (remove and rewrite), GET |
| Client | `pkg/client/build.go`, `pkg/api/build_client.go`, `pkg/api/status_reader.go` | the errs channel of upload results; the status reader | StartBuild, one upload goroutine per missing file, receive the upload results, SignalBuild, listenBuild until EOF |
| Build handlers | `pkg/api/build_handler.go` | | /build: StartBuild, then wait on the writer's done channel; /signal: SignalBuild, 500 on error |

The parts interact through a few channels:
- Jobs reach workers only through the scheduler's ready channel, popped by heartbeats.
- Completion reaches SignalBuild and the watchers only through a PendingJob's Finished channel and its Result.
- Artifacts move between workers by the location that `LocateArtifact` returns. SignalBuild writes it into the JobSpec.

## Hard behaviours

- `OnJobComplete` is not atomic. A waiter woken by Finished can run before the location is recorded.
- The per-build job counter uses `Add` and `CompareAndSwap` as two separate atomic steps, in concurrent watchers.
- Two builds may share job IDs, and a worker may report a job the scheduler never scheduled (cache replay).
- Source files are deleted while other jobs may still need them.
- A heartbeat pops jobs and hands them over only in its response. Losing the response loses the jobs.
- Artifact and file caches are locked per ID and used concurrently by a worker's job goroutines.

## Modules

- **`Scheduler`** is the scheduler's state and operations.
  - `registered`, `finished`, `result`, `jobSpec`, `queue` and `locations` are the variables.
  - `completing` holds the OnJobComplete calls that are between their two critical sections.
  - `ScheduleJob`, `PopJob`, `OnJobCompleteClose`, `OnJobCompleteLocate` and `LocateArtifact` translate the methods.
  - `AppendLocation` is the append-and-evict of the ring.
- **`SchedulerClients`** extends `Scheduler` with callers that make any sequence of at most `MaxCalls` calls.
  - History variables record the pops, the jobs first heard of through a completion, and the order of reporters.
  - With these the scheduler's contract can be stated on its own.
- **`Distbuild`** extends `Scheduler` with the whole system: client, build service, watchers, heartbeat service and workers.
  - A build's `phase` runs idle → started → uploaded → signalled. `published` is the set of builds StartBuild has stored in the SyncMap.
  - `sigPos` is SignalBuild's position in the sorted jobs. `sigDeps` holds the deps it still has to wait for, and `sigArts` the artifact map it builds.
  - `watch` holds the watcher goroutines and `doneCount` is `finishedJobCount`.
  - `stream[b]` is the sequence of StatusUpdates written to the client.
  - `coordFiles` is the coordinator file cache.
  - `panicked` holds the builds whose `/signal` handler panicked. SignalBuild runs inside that handler (`build_handler.go:106`), and net/http recovers the panic: the request dies and its context is cancelled. The rest of that build's loop never runs (`Signalling`), and its waiting watchers may take `ctx.Done` (`WatchCancelled`). Everything else carries on. The heartbeat's "non schedule job finished" panic is not reachable, because a worker reports only jobs it was handed.
  - Per worker, `hb` is the heartbeat handler's program counter and the jobs it has picked.
  - `inflight` holds the FinishedJob reports not yet sent.
  - `running` holds the job goroutines.
  - `wArtifacts` and `wFiles` are the worker's caches, and `wResults` is its job-result cache.
  - A job goroutine ends in one of three steps:
    - `RunJobArtifactFetchFails`: an artifact download failed;
    - `RunJobFileFetchFails`: a file download failed;
    - `RunJobExecute`: the commands ran and the artifact was committed or aborted.
  - Downloads that succeed before a failure stay in the cache.
  - `TopSort` (build.TopSort, not under `src/`) is a recursive operator.
  - `WorkerCrash` is a worker process dying: `Run` returns on any heartbeat error and `bin/worker/main.go` calls `logger.Fatal`, or the host goes. Workers in `Crashable` may die at any step. The job goroutines, unreported results and jobResultCache go, and the jobs go into the history `lost`. The caches on disk stay, but the worker's artifact handler stops answering, so `FetchableArts` excludes a dead peer. The coordinator's handler of its heartbeat carries on: it finishes the reports, and then `HbCancel` (PickJob or TryPickJob sees the cancelled context) or `HbRespond` (the write to the dead connection fails) drops the popped jobs into `lost`. A crash gets no fairness.
- **`MCDistbuild`** instantiates `Distbuild`. Build b1 = {j1, j2} and build b2 = {j1, j3}. j2 and j3 depend on j1. The two builds share j1. There are two workers.

- **`HBPairing`** is the abstract promise of the happens-before machine for one key (spec §4.4), in counts.
  - `events` counts the Happen calls whose event has run, `blocked` the Before calls waiting, `passed` those returned.
  - A Before may return at once only when an unmatched event exists. A blocked Before is released by weak fairness once its event has run.
- **`HappensBefore`** is `hb.go` for one key, step by step.
  - `cnt` is the atomic counter, `chan` the channel `*wait` points to, and `closed` the channels closed so far.
  - Happen runs the event, then `Add(1)`, and closes the channel if the result is "nothing".
  - Before does `Add(-1)`. If the result is "waiting", it reads the pointer, blocks on that channel, and then installs a fresh channel.
  - `HB == INSTANCE HBPairing WITH ...` is the refinement mapping. `events` is the completed Happens plus those past their event, `blocked` the Befores between decision and return, and `passed` the completed Befores.
- **`ContentCache`** holds the locking contract of the artifact and file caches (spec §4.5) as operators on a store `[ID -> [committed, readers, writer]]`: Get, Create/Write, commit, abort and Remove. The cache code is not under `src/`, so this module is modelled from the spec.
- **`WorkerJobs`** is one worker running the jobs of one heartbeat response, one goroutine per job (`Worker.Run`, `runJob`).
  - A job's `pc` walks the code in order: the jobResultCache check (`StartCached`/`StartMiss`), `downloadArtifacts` (`ArtGet`, then `ArtCreate` and `ArtCommit` of `artifact.Download`), `downloadFiles` (`FileGet`, then `FileWrite` and `FileClose` of `Client.Download`) and `linkFiles` into the shared `os.TempDir()` (`LinkGet`, `LinkRemove`, `LinkCreate`). `os.Link` fails with EEXIST when another job linked the path between the Remove and the Link, and the job then fails.
  - `executeJob` continues with `OutputCreate` (Create of the output), `DepsLock` (read-lock the deps; panic if one is missing) and `RunCommands`. `RunCommands` ends in `CommandsSucceed` (unlock the deps, commit) or `CommandFails` (abort, with the read-locks left held).
  - `srcDir` is what each logical path of the shared source directory links to. `blind` holds the jobs whose commands ran while one of their paths did not hold their own file.
  - `Report` is the deferred `addJobResult`. `DeferredArgs` is the empty slice that `defer addArtifacts(ctx, addedArtifacts)` captured.
  - `exitCode` is -1 after commands, because `ExitCode()` is read before `Run`.
  - `PeerGet`/`PeerDone` are the artifact handler serving peers while jobs run.
- **`MCWorkerJobs`** declares the job, artifact, file and path model values and the deps and sources of the configurations.
- **`FileCacheHandler`** is the coordinator's `/file` handler for one ID.
  - A PUT takes the `KeyLocker` lock (`PutLock`, blocking while the channel is full), then `PutWrite`. On ErrExists it does `PutRemove` and writes again. It ends with `PutClose` (commit, 200) or `PutBodyFails` (abort, 500), then `PutUnlock`.
  - A GET calls `singleflight.Do` (`GetDo`). The leader runs `GetRead` and `GetSend`, and `FlightDone` hands its result to the waiters. Only the leader's response carries the file.
- **`BuildSession`** is one build seen from the client: `Client.Build` against the `/build` and `/signal` handlers, the status writer and SignalBuild's watchers.
  - Client: `cpc` walks `Build`. `ClientStart` decodes BuildStarted. `ClientCheck` stats one missing file (a missing one returns) and starts its upload goroutine. `ClientReceive` takes one value of `errs`. `ClientSignal` and `ClientSignalDone` are the /signal round trip. `ClientListen` is one `listenBuild` call and `ClientEOF` the final one. `Return` is a return from `Build` with the deferred `Close` of the response body (`closedR`).
  - Uploads: `Upload(f)` is `fileCacheClient.Upload`. `UploadSend(f)` is one send on `errs`, a sequence of capacity `|Files|`: a failed upload sends its error and then nil.
  - Server: `HandlerStart` is startBuildHandler up to `Started`; `HandlerReturn` is `<-done`. `stream` is what the response carries and `rd` what the client decoded. A watcher runs `JobFinish` (`Finished`, `Add(1)`), `WatcherCAS` and `WatcherWrite` (`Updated`, closing `done` on BuildFinished); `SignalReturn` is `wg.Wait`.
  - A write after the handler returned is undefined in net/http; `LateWrite` makes it lost or failed. A write after the client closed the body fails.
  - Scheduling and workers are abstracted to each job's result (`JobOutcomes`); Distbuild models them.

## Runs

| Run | What it checks |
|---|---|
| `scheduler_contract` (pass) | Any interleaving of 7 calls on 2 jobs and 2 workers. **TypeOK**: among other things, a closed Finished always belongs to a registered entry, even one lazily created by a completion. **DispatchedAtMostOnce**: a job is popped at most once, and never when its first call was a completion. **LocationsAreLatest**: the ring is exactly the last 4 reporters. Seven calls let one job be reported five times, one more than the ring holds. |
| `system_safety` (pass) | Both builds, with commands that can fail; a `/signal` handler may panic (see `locate_panic`) and the rest of the system goes on. **TypeOK**: the heartbeat handler never exceeds its slots or its attempts per slot. **DepsAvailableAtDispatch**: a dispatched job's deps are finished and present on the worker the spec names. **AtMostOneBuildFinished**: at most one BuildFinished per build. |
| `system_liveness` (pass) | **BuildSurvivesCrash**: under weak fairness of every goroutine, with worker w1 free to die at any step, a signalled build eventually writes BuildFinished unless its own `/signal` handler panicked or one of its jobs died with w1 (a job w1 ran, a result it had not reported, or a job its cancelled heartbeat had popped). A dead peer or a source deleted early only fails jobs. Every job also reads f1 and commands always succeed. Without the `lost` disjunct the property fails: w1 pops j1 and dies, its heartbeat handler returns `ctx.Err()`, and nothing re-dispatches j1. |
| `locate_panic` (violation) | **SignalNeverPanics** fails. SignalBuild wakes on j1's Finished between OnJobComplete's two critical sections, LocateArtifact returns nothing, and SignalBuild panics. net/http recovers it: the client's SignalBuild gets an error, the build's later jobs are never scheduled, and its `/build` handler waits for good. |
| `hb_pairing` (pass) | Two Happen goroutines and one Before goroutine, two calls each. **Pairing**: the machine implements `HBPairing` under the refinement mapping; its action and fairness parts are checked as a PROPERTY. **NeverPanics**: the close in Happen never hits a closed channel. |
| `worker_jobs` (pass) | Jobs j1 and j2 share the uncached dep a1 and the uncached source f1, and both link a source at path p1. a2 and f2 are already cached, j3 is answered from jobResultCache, and commands may fail to start. Peers read artifacts meanwhile. The download, Create and link races happen, and a job can lose one. **CommitMatchesResult**: a job's output is committed exactly when its result is success. **AllReported**: every job eventually reports, so `wg.Wait` returns. |
| `worker_shared_path` (violation) | **CommandsSeeOwnSources** fails when j1 and j2 place their own sources at the same path p1. One job's Remove and Link lands between the other's linking and its commands. |
| `filecache_handler` (pass) | Two PUTs and two GETs of one ID, on an absent or an already uploaded file. **UploadsSerialized**: no PUT ever meets another's write-lock, remove-and-rewrite included. **AllAnswered**: every request is eventually answered. |
| `filecache_singleflight` (violation) | **GetsServeContent** fails with two GETs in one singleflight call. The waiter answers 200 with an empty body, which a worker commits as the file. |
| `session` (pass) | Two missing files and two jobs; a file may be missing, uploads and jobs may fail, late writes are lost or fail. **UploadErrorsReported**: Build never returns nil when an upload failed, whatever order the err and nil values reach `errs` in. **ClientTerminates**: Build always returns. |
| `session_failed_build` (violation) | **ClientSeesFailure** fails with one job that fails. Its update carries JobFinished and BuildFailed; `listenBuild` takes the JobFinished case, then reads EOF, and Build returns nil. |
| `session_lost_update` (violation) | **ClientSawAllJobs** fails with two jobs. j1's watcher counts, j2's counts, wins the CAS and writes BuildFinished; the handler returns; j1's update is lost, and Build returns nil without it. |

### Bounds and why they are enough

- Two workers are the least for an artifact to move between workers and for two heartbeats to race.
- Two builds sharing one job exercise the registry's de-duplication and the per-build counter.
- A chain plus a sibling (j1 → j2, j1 → j3) gives a dep wait, a located artifact and two watchers per build.
- `FreeSlots = 2` gives one PickJob and one TryPickJob round. `TryPickAttempts = 4` is the code's constant.
- One crashable worker is enough for every place a crash can hit: a popped response, running tasks, unreported results and a dep's only replica. The other worker stays alive to run what remains.
- The safety run takes about 10 s with `Crashable = {}`: a dead peer makes jobs fail by design, so the safety run leaves crashes out. The liveness run takes about 2.5 minutes.
- HappensBefore: two Happens with one Before lets a Happen run ahead of its Before. The counter then rises above "nothing", and a later Before passes at once. Two calls per goroutine make the channel be renewed and then closed again, which the close-of-closed-channel check needs. One Before is the most `hb.go` handles correctly: with two overlapping Befores (a repeated /signal request) the second drives the counter to -1 and returns before any event, which violates Pairing.
- WorkerJobs: three jobs cover the three ways a goroutine starts (cached result, cached dep and file, dep and file downloaded). Two jobs that share one thing are the least that can race on it. One dep and one source per job suffices, because every loop treats its IDs independently.
- BuildSession: two files are the least for the values of two upload goroutines to interleave on `errs`, and for two failing uploads to overfill it. Two jobs are the least for the Add/CAS race; the violation runs use the smallest configuration that shows each trace.
- Two configurations violate a checked property but get no run of their own: two overlapping Befores in HappensBefore violate Pairing, and Distbuild with every job reading f1 makes a job fail its download because another job's watcher removed f1 (no dep failed). `PROJECT.json` records both as hazards (`hb.go:63`, `build_service.go:152`). Jobs of one worker that lose a download race to each other also fail although their dep exists (`download.go:70`); worker_jobs explores that, and checks only that they still report and commit correctly.
- FileCacheHandler: two PUTs make the second one remove and rewrite the first one's file. Two GETs make a singleflight call shared. Both initial states (absent, uploaded) are explored.

### Fairness

- Weak fairness is assumed for each goroutine: a client, a SignalBuild loop, each watcher, each worker's heartbeat loop and each job goroutine.
- Every one of them is a Go goroutine that the runtime eventually runs while it stays enabled.
- Network calls are modelled as steps that succeed or fail. Fairness is not assumed for any particular outcome.

- In WorkerJobs, each job goroutine and each peer download has weak fairness. A peer's unlock is deferred in its handler.
- In BuildSession, the client, each upload goroutine, each watcher, the /build handler and SignalBuild's `wg.Wait` have weak fairness. A blocked send on `errs` is enabled only while the buffer has room.
- In FileCacheHandler, each request goroutine has weak fairness. The key lock and the singleflight wait are blocking receives, so they are not fair choices. The model makes them enabled only when the channel or the call is free.

### Deadlock

- The WorkerJobs cfgs check for deadlock. A peer download is always possible, so the worker never stops.
- Every other cfg says `CHECK_DEADLOCK FALSE`. In BuildSession, Build may return while upload goroutines block on a full `errs` and the /build handler waits on `done` forever (hazards `client/build.go:103`, `build_handler.go:74`). In FileCacheHandler, the server goes idle once every request is answered.
- In `Distbuild`, once every build has finished, each worker's heartbeat blocks in PickJob forever. That is the code's idle state.
- In `SchedulerClients`, the driver stops after `MaxCalls` calls.

## Findings and hazards

`PROJECT.json` lists the findings of the violation runs and every hazard of the code, with the properties that cover it. Some bugs are reproduced by the models, but no run is spent on them, because a single-job unit test shows them:
- the read-locks a failed command leaks (`CommandFails` keeps `held`);
- ExitCode -1, and a nonzero exit reported as an error;
- the always-empty AddedArtifacts (`DeferredArgs`);
- Distbuild's early deletion of shared source files;
- a re-upload whose body fails destroying the earlier upload (FileCacheHandler: `PutRemove` then `PutBodyFails`).

## Not modelled, and the plan

1. **Worker restart**: bin/worker exits for good. A restarted worker with the same ID and its on-disk caches would only matter if a lost job were dispatched again, and nothing in the coordinator re-dispatches one (hazard `execute.go:32`).
2. **TopSort check**: TopSort checked against a reference definition (every order that respects Deps) over all small graphs.
3. **Status stream under cancellation**: the context cases of `listenBuild`, SignalBuild's watchers and the HTTP requests, and the racy `errs` appends of the watchers.

Left out for good:
- HTTP and JSON encoding;
- the CLI binaries and the logger;
- worker metrics;
- tarstream;
- command rendering.
