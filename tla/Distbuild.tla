----------------------------- MODULE Distbuild -----------------------------
(***************************************************************************)
(* The coordinator and its workers running builds end to end.             *)
(*                                                                         *)
(*  - client (pkg/client/build.go): StartBuild, upload of every missing   *)
(*    source file, SignalBuild;                                            *)
(*  - build service (pkg/dist/build_service.go): StartBuild publishes the *)
(*    build under hb.Happen; SignalBuild walks the topologically sorted    *)
(*    jobs, waits for each dep's Finished, locates its artifact, schedules *)
(*    the job and starts a watcher that streams its StatusUpdate;          *)
(*  - heartbeat service (pkg/dist/heartbeat_service.go): reports finished *)
(*    jobs to the scheduler, then PickJob and up to FreeSlots-1 TryPickJob *)
(*    rounds of TryPickAttempts attempts each;                             *)
(*  - worker (pkg/worker): heartbeat pull loop; each job of a response    *)
(*    downloads dep artifacts from peers and source files from the        *)
(*    coordinator, executes and commits its artifact.                      *)
(*                                                                         *)
(* Data is abstracted: a job result is Ok, ExecError (a command failed)    *)
(* or InfraError (a download or cache operation failed); both errors set   *)
(* JobResult.Error. A file or an artifact is present or absent in a cache. *)
(* SignalBuild's panic runs in the /signal handler, which net/http        *)
(* recovers: only that request dies, its context is cancelled, and the    *)
(* build is marked panicked.                                               *)
(***************************************************************************)
EXTENDS Scheduler, TLC

CONSTANTS
    Builds,          \* build IDs, one per client Build call
    Files,           \* source file IDs
    BuildJobs,       \* BuildJobs[b]: the job IDs of build b's graph
    Deps,            \* Deps[j]: job.Deps
    Inputs,          \* Inputs[j]: the source files job j reads
    Ok, ExecError, InfraError,  \* the members of Results
    ExecOutcomes,    \* what running a job's commands can return
    Crashable,       \* workers whose process may die
    FreeSlots,       \* HeartbeatRequest.FreeSlots (runtime.NumCPU())
    TryPickAttempts  \* the "4 попыток" of the TryPickJob loop

ASSUME Results = {Ok, ExecError, InfraError}
ASSUME ExecOutcomes \subseteq {Ok, ExecError} /\ ExecOutcomes # {}
ASSUME \A b \in Builds : \A j \in BuildJobs[b] : Deps[j] \subseteq BuildJobs[b]
ASSUME Crashable \subseteq Workers
ASSUME FreeSlots \in Nat \ {0} /\ TryPickAttempts \in Nat \ {0}

VARIABLES
    phase,       \* client side of a build: idle, started, uploaded, signalled
    published,   \* builds whose state StartBuild has published (hb.Happen)
    sigPos,      \* SignalBuild loop index into the sorted jobs
    sigDeps,     \* deps of the current job not yet waited for and located
    sigArts,     \* the artifacts map being built for the current job
    watch,       \* watch[b][j]: none, wait, counted, done (watcher goroutine)
    doneCount,   \* finishedJobCount of each SignalBuild
    stream,      \* StatusUpdates written to each build's status writer
    coordFiles,  \* committed entries of the coordinator's file cache
    panicked,    \* builds whose /signal handler panicked
    hb,          \* heartbeat handler in progress for each worker
    inflight,    \* workers waiting for their heartbeat response
    running,     \* jobs of the current response a worker has not finished
    wFinished,   \* workerState.FinishedJob
    wArtifacts,  \* committed entries of each worker's artifact cache
    wFiles,      \* committed entries of each worker's file cache
    wResults,    \* each worker's jobResultCache
    crashed,     \* workers whose process has died
    lost         \* history: jobs a dead worker took with it

coordVars == <<phase, published, sigPos, sigDeps, sigArts, watch, doneCount,
               stream, coordFiles, panicked>>
faultVars == <<crashed, lost>>
workerVars == <<hb, inflight, running, wFinished, wArtifacts, wFiles,
                wResults, faultVars>>
vars == <<schedVars, coordVars, workerVars>>

-----------------------------------------------------------------------------
(* build.TopSort: dependencies before dependents.                          *)

RECURSIVE TopSort(_)
TopSort(S) ==
    IF S = {} THEN <<>>
    ELSE LET j == CHOOSE x \in S : Deps[x] \cap S = {}
         IN <<j>> \o TopSort(S \ {j})

\* The sorted job list of each build (a constant, computed once).
SortedJobs == [b \in Builds |-> TopSort(BuildJobs[b])]

Order(b) == SortedJobs[b]

\* graph.SourceFiles: every file some job of the build reads.
BuildFiles(b) == UNION {Inputs[j] : j \in BuildJobs[b]}

\* The first job of the SignalBuild loop at position i, if any.
DepsAt(b, i) == IF i <= Len(Order(b)) THEN Deps[Order(b)[i]] ELSE {}

Update == [job : Jobs, failed : BOOLEAN, finished : BOOLEAN]

HbIdle == [pc |-> "idle", todo |-> <<>>, cur |-> CHOOSE j \in Jobs : TRUE,
           resp |-> {}, slots |-> 0, tries |-> 0]

Init ==
    /\ SchedInit
    /\ phase = [b \in Builds |-> "idle"]
    /\ published = {}
    /\ sigPos = [b \in Builds |-> 1]
    /\ sigDeps = [b \in Builds |-> DepsAt(b, 1)]
    /\ sigArts = [b \in Builds |-> EmptySpec]
    /\ watch = [b \in Builds |-> [j \in Jobs |-> "none"]]
    /\ doneCount = [b \in Builds |-> 0]
    /\ stream = [b \in Builds |-> <<>>]
    /\ coordFiles = {}
    /\ panicked = {}
    /\ hb = [w \in Workers |-> HbIdle]
    /\ inflight = {}
    /\ running = [w \in Workers |-> {}]
    /\ wFinished = [w \in Workers |-> <<>>]
    /\ wArtifacts = [w \in Workers |-> {}]
    /\ wFiles = [w \in Workers |-> {}]
    /\ wResults = [w \in Workers |-> {}]
    /\ crashed = {}
    /\ lost = {}

-----------------------------------------------------------------------------
(* Client and build service                                                *)

\* POST /build: StartBuild sends BuildStarted (every file is missing).
StartBuild(b) ==
    /\ phase[b] = "idle"
    /\ phase' = [phase EXCEPT ![b] = "started"]
    /\ UNCHANGED <<schedVars, published, sigPos, sigDeps, sigArts, watch,
                   doneCount, stream, coordFiles, panicked, workerVars>>

\* StartBuild sorts the jobs and publishes the build under hb.Happen.
PublishBuild(b) ==
    /\ phase[b] # "idle"
    /\ b \notin published
    /\ published' = published \cup {b}
    /\ UNCHANGED <<schedVars, phase, sigPos, sigDeps, sigArts, watch,
                   doneCount, stream, coordFiles, panicked, workerVars>>

\* The client PUTs every missing file; a PUT of a committed file removes
\* and rewrites it, so the file ends up committed either way.
UploadFiles(b) ==
    /\ phase[b] = "started"
    /\ coordFiles' = coordFiles \cup BuildFiles(b)
    /\ phase' = [phase EXCEPT ![b] = "uploaded"]
    /\ UNCHANGED <<schedVars, published, sigPos, sigDeps, sigArts, watch,
                   doneCount, stream, panicked, workerVars>>

\* POST /signal with UploadDone: hb.Before blocks until the build is
\* published, then the SignalBuild loop starts.
SignalBuild(b) ==
    /\ phase[b] = "uploaded"
    /\ b \in published
    /\ phase' = [phase EXCEPT ![b] = "signalled"]
    /\ UNCHANGED <<schedVars, published, sigPos, sigDeps, sigArts, watch,
                   doneCount, stream, coordFiles, panicked, workerVars>>

\* The SignalBuild loop of b is still running.
Signalling(b) == phase[b] = "signalled" /\ b \notin panicked

\* Wait on the dep's Finished, then LocateArtifact; a dep with no location
\* panics ("top sort does not work"): net/http recovers it, the /signal
\* request ends and the rest of the loop never runs.
SignalLocateDep(b, d) ==
    /\ Signalling(b)
    /\ d \in sigDeps[b]
    /\ d \in finished
    /\ IF LocateArtifact(d) = {}
       THEN /\ panicked' = panicked \cup {b}
            /\ UNCHANGED <<sigDeps, sigArts>>
       ELSE /\ \E w \in LocateArtifact(d) :
                   sigArts' = [sigArts EXCEPT ![b] = @ @@ (d :> w)]
            /\ sigDeps' = [sigDeps EXCEPT ![b] = @ \ {d}]
            /\ UNCHANGED panicked
    /\ UNCHANGED <<schedVars, phase, published, sigPos, watch, doneCount,
                   stream, coordFiles, workerVars>>

\* Mutant: the job is scheduled without waiting for its deps.
SignalScheduleJobNoWait(b) ==
    LET j == Order(b)[sigPos[b]]
    IN /\ Signalling(b)
       /\ sigPos[b] <= Len(Order(b))
       /\ ScheduleJob(j, sigArts[b])
       /\ watch' = [watch EXCEPT ![b][j] = "wait"]
       /\ sigPos' = [sigPos EXCEPT ![b] = @ + 1]
       /\ sigDeps' = [sigDeps EXCEPT ![b] = DepsAt(b, sigPos[b] + 1)]
       /\ sigArts' = [sigArts EXCEPT ![b] = EmptySpec]
       /\ UNCHANGED <<phase, published, doneCount, stream, coordFiles,
                      panicked, workerVars>>

\* All deps located: ScheduleJob and start the job's watcher.
SignalScheduleJob(b) ==
    LET j == Order(b)[sigPos[b]]
    IN /\ Signalling(b)
       /\ sigPos[b] <= Len(Order(b))
       /\ sigDeps[b] = {}
       /\ ScheduleJob(j, sigArts[b])
       /\ watch' = [watch EXCEPT ![b][j] = "wait"]
       /\ sigPos' = [sigPos EXCEPT ![b] = @ + 1]
       /\ sigDeps' = [sigDeps EXCEPT ![b] = DepsAt(b, sigPos[b] + 1)]
       /\ sigArts' = [sigArts EXCEPT ![b] = EmptySpec]
       /\ UNCHANGED <<phase, published, doneCount, stream, coordFiles,
                      panicked, workerVars>>

\* Mutant: the watcher does not count the finished job.
WatchFinishedNoCount(b, j) ==
    /\ watch[b][j] = "wait"
    /\ j \in finished
    /\ watch' = [watch EXCEPT ![b][j] = "counted"]
    /\ UNCHANGED <<schedVars, phase, published, sigPos, sigDeps, sigArts,
                   doneCount, stream, coordFiles, panicked, workerVars>>

\* Watcher: the /signal request's context is cancelled (its handler
\* panicked): the select may take ctx.Done, append ctx.Err() to errs and
\* return without an update, even when Finished is closed too.
WatchCancelled(b, j) ==
    /\ b \in panicked
    /\ watch[b][j] = "wait"
    /\ watch' = [watch EXCEPT ![b][j] = "done"]
    /\ UNCHANGED <<schedVars, phase, published, sigPos, sigDeps, sigArts,
                   doneCount, stream, coordFiles, panicked, workerVars>>

\* Watcher: Finished is closed; finishedJobCount.Add(1).
WatchFinished(b, j) ==
    /\ watch[b][j] = "wait"
    /\ j \in finished
    /\ watch' = [watch EXCEPT ![b][j] = "counted"]
    /\ doneCount' = [doneCount EXCEPT ![b] = @ + 1]
    /\ UNCHANGED <<schedVars, phase, published, sigPos, sigDeps, sigArts,
                   stream, coordFiles, panicked, workerVars>>

\* removeSourceFiles: Remove in map order, returning at the first file that
\* is not there; the files removed are any present ones when one is missing.
RemoveSourceFiles(fs) ==
    IF fs \subseteq coordFiles
    THEN coordFiles' = coordFiles \ fs
    ELSE \E gone \in SUBSET (fs \cap coordFiles) : coordFiles' = coordFiles \ gone

\* Mutant: finishedJobCount is compared with Load, without the reset.
WatchReportNoReset(b, j) ==
    LET last == doneCount[b] = Len(Order(b))
    IN /\ watch[b][j] = "counted"
       /\ stream' = [stream EXCEPT ![b] = Append(@,
                       [job |-> j, failed |-> result[j] # Ok, finished |-> last])]
       /\ watch' = [watch EXCEPT ![b][j] = "done"]
       /\ RemoveSourceFiles(Inputs[j])
       /\ UNCHANGED <<schedVars, phase, published, sigPos, sigDeps, sigArts,
                      doneCount, panicked, workerVars>>

\* Watcher: build the update (BuildFinished iff the CAS from len(jobs) to 0
\* succeeds), write it under the status writer's mutex, remove the job's
\* source files from the coordinator's cache.
WatchReport(b, j) ==
    LET last == doneCount[b] = Len(Order(b))
    IN /\ watch[b][j] = "counted"
       /\ stream' = [stream EXCEPT ![b] = Append(@,
                       [job |-> j, failed |-> result[j] # Ok, finished |-> last])]
       /\ doneCount' = [doneCount EXCEPT ![b] = IF last THEN 0 ELSE @]
       /\ watch' = [watch EXCEPT ![b][j] = "done"]
       /\ RemoveSourceFiles(Inputs[j])
       /\ UNCHANGED <<schedVars, phase, published, sigPos, sigDeps, sigArts,
                      panicked, workerVars>>

-----------------------------------------------------------------------------
(* Heartbeats                                                              *)

\* Worker loop: once every job of the last response is done, pull the
\* delta state into a request and send it.
SendHeartbeat(w) ==
    /\ w \notin crashed
    /\ w \notin inflight
    /\ running[w] = {}
    /\ inflight' = inflight \cup {w}
    /\ hb' = [hb EXCEPT ![w] = [HbIdle EXCEPT !.pc = "report",
                                              !.todo = wFinished[w]]]
    /\ wFinished' = [wFinished EXCEPT ![w] = <<>>]
    /\ UNCHANGED <<faultVars, schedVars, coordVars, running, wArtifacts, wFiles,
                   wResults>>

\* OnJobComplete for the next FinishedJob, first critical section. The
\* "non schedule job finished" panic after it is not reachable here: a
\* worker reports only jobs it was handed, which ScheduleJob registered.
HbReportJob(w) ==
    LET r == Head(hb[w].todo)
    IN /\ hb[w].pc = "report"
       /\ hb[w].todo # <<>>
       /\ <<w, r.id>> \notin completing
       /\ OnJobCompleteClose(w, r.id, r.res)
       /\ hb' = [hb EXCEPT ![w].pc = "locate", ![w].cur = r.id,
                           ![w].todo = Tail(@)]
       /\ UNCHANGED <<faultVars, phase, published, sigPos, sigDeps, sigArts, watch,
                      doneCount, stream, coordFiles, panicked, inflight,
                      running, wFinished, wArtifacts, wFiles, wResults>>

\* OnJobComplete, second critical section.
HbLocateJob(w) ==
    /\ hb[w].pc = "locate"
    /\ OnJobCompleteLocate(w, hb[w].cur)
    /\ hb' = [hb EXCEPT ![w].pc = "report"]
    /\ UNCHANGED <<faultVars, coordVars, inflight, running, wFinished, wArtifacts,
                   wFiles, wResults>>

\* Every report consumed (the AddedArtifacts list the worker sends is always
\* empty): PickJob blocks until the ready channel has an entry.
HbPickJob(w) ==
    /\ hb[w].pc = "report"
    /\ hb[w].todo = <<>>
    /\ PopJob
    /\ hb' = [hb EXCEPT ![w].pc = "fill", ![w].resp = {Head(queue)},
                        ![w].slots = FreeSlots - 1, ![w].tries = 0]
    /\ UNCHANGED <<faultVars, coordVars, inflight, running, wFinished, wArtifacts,
                   wFiles, wResults>>

\* Mutant: the attempts loop runs one attempt too many (`for range 4` read
\* as `for i := 0; i <= 4; i++`).
HbTryPickJobExtraAttempt(w) ==
    /\ hb[w].pc = "fill"
    /\ hb[w].slots > 0
    /\ \/ /\ PopJob
          /\ hb' = [hb EXCEPT ![w].resp = @ \cup {Head(queue)},
                              ![w].slots = @ - 1, ![w].tries = 0]
       \/ /\ queue = <<>>
          /\ LET spent == hb[w].tries = TryPickAttempts
             IN hb' = [hb EXCEPT ![w].slots = IF spent THEN @ - 1 ELSE @,
                                 ![w].tries = IF spent THEN 0 ELSE @ + 1]
          /\ UNCHANGED schedVars
    /\ UNCHANGED <<faultVars, coordVars, inflight, running, wFinished, wArtifacts,
                   wFiles, wResults>>

\* TryPickJob for a remaining slot: an entry fills the slot; an empty
\* channel uses up one attempt, and the slot once all attempts are used.
HbTryPickJob(w) ==
    /\ hb[w].pc = "fill"
    /\ hb[w].slots > 0
    /\ \/ /\ PopJob
          /\ hb' = [hb EXCEPT ![w].resp = @ \cup {Head(queue)},
                              ![w].slots = @ - 1, ![w].tries = 0]
       \/ /\ queue = <<>>
          /\ LET spent == hb[w].tries + 1 = TryPickAttempts
             IN hb' = [hb EXCEPT ![w].slots = IF spent THEN @ - 1 ELSE @,
                                 ![w].tries = IF spent THEN 0 ELSE @ + 1]
          /\ UNCHANGED schedVars
    /\ UNCHANGED <<faultVars, coordVars, inflight, running, wFinished, wArtifacts,
                   wFiles, wResults>>

(* PickJob, or TryPickJob for a slot, sees the request context cancelled *)
(* (the worker's connection is gone) and the handler returns ctx.Err():   *)
(* the jobs already popped into the response go nowhere.                   *)
HbCancel(w) ==
    /\ w \in crashed
    /\ \/ hb[w].pc = "report" /\ hb[w].todo = <<>>
       \/ hb[w].pc = "fill" /\ hb[w].slots > 0
    /\ lost' = lost \cup hb[w].resp
    /\ inflight' = inflight \ {w}
    /\ hb' = [hb EXCEPT ![w] = HbIdle]
    /\ UNCHANGED <<schedVars, coordVars, running, wFinished, wArtifacts,
                   wFiles, wResults, crashed>>

\* The response reaches the worker, which starts one task per job; to a
\* dead worker the write fails and the jobs are dropped.
HbRespond(w) ==
    /\ hb[w].pc = "fill"
    /\ hb[w].slots = 0
    /\ IF w \in crashed
       THEN lost' = lost \cup hb[w].resp /\ UNCHANGED running
       ELSE running' = [running EXCEPT ![w] = hb[w].resp] /\ UNCHANGED lost
    /\ inflight' = inflight \ {w}
    /\ hb' = [hb EXCEPT ![w] = HbIdle]
    /\ UNCHANGED <<schedVars, coordVars, wFinished, wArtifacts, wFiles,
                   wResults, crashed>>

(* The worker process dies: Run's heartbeat error ends in logger.Fatal, or *)
(* the host goes. Its job goroutines, the results not yet reported and    *)
(* the in-memory jobResultCache are gone; the caches on disk stay but its *)
(* artifact handler no longer answers. The coordinator's handler of its   *)
(* heartbeat, if one is running, carries on.                               *)
WorkerCrash(w) ==
    /\ w \in Crashable \ crashed
    /\ crashed' = crashed \cup {w}
    /\ lost' = lost \cup running[w]
                    \cup {wFinished[w][i].id : i \in DOMAIN wFinished[w]}
    /\ running' = [running EXCEPT ![w] = {}]
    /\ wFinished' = [wFinished EXCEPT ![w] = <<>>]
    /\ wResults' = [wResults EXCEPT ![w] = {}]
    /\ UNCHANGED <<schedVars, coordVars, hb, inflight, wArtifacts, wFiles>>

-----------------------------------------------------------------------------
(* Worker job tasks (runJob). A job in jobResultCache would short-circuit; *)
(* that cache only holds jobs this worker ran, and a job is dispatched at  *)
(* most once, so the hit branch is not reachable and not modelled.         *)

\* Deps not in the local artifact cache, and those of them the worker
\* named in the JobSpec holds and still serves.
NeedArts(w, j) == {d \in DOMAIN jobSpec[j] : d \notin wArtifacts[w]}
FetchableArts(w, j) ==
    {d \in NeedArts(w, j) : /\ jobSpec[j][d] \notin crashed
                           /\ d \in wArtifacts[jobSpec[j][d]]}
NeedFiles(w, j) == Inputs[j] \ wFiles[w]

\* Finish the task: addJobResult and wg.Done.
Finish(w, j, r) ==
    /\ wFinished' = [wFinished EXCEPT ![w] = Append(@, [id |-> j, res |-> r])]
    /\ running' = [running EXCEPT ![w] = @ \ {j}]

\* downloadArtifacts fails on a dep its peer does not hold; the deps
\* fetched before it (in map order) stay committed.
RunJobArtifactFetchFails(w, j) ==
    /\ j \in running[w]
    /\ FetchableArts(w, j) # NeedArts(w, j)
    /\ \E got \in SUBSET FetchableArts(w, j) :
           wArtifacts' = [wArtifacts EXCEPT ![w] = @ \cup got]
    /\ Finish(w, j, InfraError)
    /\ UNCHANGED <<faultVars, schedVars, coordVars, hb, inflight, wFiles, wResults>>

\* downloadFiles fails on a file the coordinator's cache no longer holds.
RunJobFileFetchFails(w, j) ==
    /\ j \in running[w]
    /\ FetchableArts(w, j) = NeedArts(w, j)
    /\ ~(NeedFiles(w, j) \subseteq coordFiles)
    /\ wArtifacts' = [wArtifacts EXCEPT ![w] = @ \cup NeedArts(w, j)]
    /\ \E got \in SUBSET (NeedFiles(w, j) \cap coordFiles) :
           wFiles' = [wFiles EXCEPT ![w] = @ \cup got]
    /\ Finish(w, j, InfraError)
    /\ UNCHANGED <<faultVars, schedVars, coordVars, hb, inflight, wResults>>

\* Every input fetched: executeJob creates the output artifact (ErrExists
\* if already committed), runs the commands, commits on success (and
\* stores the result in jobResultCache) or aborts on a failed command.
RunJobExecute(w, j) ==
    /\ j \in running[w]
    /\ FetchableArts(w, j) = NeedArts(w, j)
    /\ NeedFiles(w, j) \subseteq coordFiles
    /\ wFiles' = [wFiles EXCEPT ![w] = @ \cup NeedFiles(w, j)]
    /\ \E out \in ExecOutcomes :
          LET r == IF j \in wArtifacts[w] THEN InfraError ELSE out
          IN /\ wArtifacts' = [wArtifacts EXCEPT ![w] =
                                 @ \cup NeedArts(w, j) \cup
                                 (IF r = Ok THEN {j} ELSE {})]
             /\ wResults' = [wResults EXCEPT ![w] =
                               IF r = Ok THEN @ \cup {j} ELSE @]
             /\ Finish(w, j, r)
    /\ UNCHANGED <<faultVars, schedVars, coordVars, hb, inflight>>

-----------------------------------------------------------------------------

\* The steps of each goroutine of the system.
ClientSteps(b) == StartBuild(b) \/ UploadFiles(b) \/ SignalBuild(b)
BuildSteps(b) ==
    \/ PublishBuild(b) \/ SignalScheduleJob(b)
    \/ \E d \in Jobs : SignalLocateDep(b, d)
WatcherSteps(b, j) ==
    WatchFinished(b, j) \/ WatchReport(b, j) \/ WatchCancelled(b, j)
HeartbeatSteps(w) ==
    \/ SendHeartbeat(w) \/ HbReportJob(w) \/ HbLocateJob(w)
    \/ HbPickJob(w) \/ HbTryPickJob(w) \/ HbRespond(w) \/ HbCancel(w)
TaskSteps(w, j) ==
    \/ RunJobArtifactFetchFails(w, j)
    \/ RunJobFileFetchFails(w, j)
    \/ RunJobExecute(w, j)

Next ==
    \/ \E b \in Builds :
          \/ ClientSteps(b) \/ BuildSteps(b)
          \/ \E j \in Jobs : WatcherSteps(b, j)
    \/ \E w \in Workers :
          \/ HeartbeatSteps(w) \/ WorkerCrash(w)
          \/ \E j \in Jobs : TaskSteps(w, j)

\* Goroutines are scheduled by the Go runtime and every HTTP call returns:
\* a goroutine that can keep taking a step eventually takes one.
Fairness ==
    /\ \A b \in Builds :
          /\ WF_vars(ClientSteps(b)) /\ WF_vars(BuildSteps(b))
          /\ \A j \in Jobs : WF_vars(WatcherSteps(b, j))
    /\ \A w \in Workers :
          /\ WF_vars(HeartbeatSteps(w))
          /\ \A j \in Jobs : WF_vars(TaskSteps(w, j))

Spec == Init /\ [][Next]_vars /\ Fairness

-----------------------------------------------------------------------------

\* Type invariant: the heartbeat handler never holds more than FreeSlots - 1
\* slots to fill and never makes more than TryPickAttempts attempts per slot.
TypeOK ==
    /\ SchedTypeOK
    /\ phase \in [Builds -> {"idle", "started", "uploaded", "signalled"}]
    /\ published \subseteq Builds
    /\ sigPos \in [Builds -> Nat]
    /\ sigDeps \in [Builds -> SUBSET Jobs]
    /\ watch \in [Builds -> [Jobs -> {"none", "wait", "counted", "done"}]]
    /\ doneCount \in [Builds -> Nat]
    /\ stream \in [Builds -> Seq(Update)]
    /\ coordFiles \subseteq Files
    /\ panicked \subseteq Builds
    /\ hb \in [Workers -> [pc : {"idle", "report", "locate", "fill"},
                            todo : Seq([id : Jobs, res : Results]),
                            cur : Jobs, resp : SUBSET Jobs,
                            slots : 0..(FreeSlots - 1),
                            tries : 0..(TryPickAttempts - 1)]]
    /\ inflight \subseteq Workers
    /\ running \in [Workers -> SUBSET Jobs]
    /\ wFinished \in [Workers -> Seq([id : Jobs, res : Results])]
    /\ wArtifacts \in [Workers -> SUBSET Jobs]
    /\ wFiles \in [Workers -> SUBSET Files]
    /\ wResults \in [Workers -> SUBSET Jobs]
    /\ crashed \subseteq Crashable
    /\ lost \subseteq Jobs

\* Jobs handed to a worker and not yet run: in a response being filled or
\* in a task of the worker.
Dispatched(w) == running[w] \cup (IF hb[w].pc = "fill" THEN hb[w].resp ELSE {})

(***************************************************************************)
(* Happens-before between a dep and its dependents: when a job reaches a  *)
(* worker, every dep has finished and, unless the dep failed, the worker  *)
(* its JobSpec names for the dep holds the dep's committed artifact. This *)
(* relies on SignalBuild waiting on Finished, OnJobComplete recording the *)
(* reporter, and the worker committing before it reports.                  *)
(***************************************************************************)
DepsAvailableAtDispatch ==
    \A w \in Workers : \A j \in Dispatched(w) : \A d \in Deps[j] :
        /\ d \in finished
        /\ d \in DOMAIN jobSpec[j]
        /\ result[d] = Ok => d \in wArtifacts[jobSpec[j][d]]

\* The positions of build b's stream that carry BuildFinished.
FinishedAt(b) == {k \in DOMAIN stream[b] : stream[b][k].finished}

(***************************************************************************)
(* The finishedJobCount Add / CompareAndSwap pair marks exactly one       *)
(* update of a build with BuildFinished (a second one would close the     *)
(* status writer's done channel twice).                                    *)
(***************************************************************************)
AtMostOneBuildFinished == \A b \in Builds : Cardinality(FinishedAt(b)) <= 1

(***************************************************************************)
(* SignalBuild never finds a finished dep without a location, so the      *)
(* /signal handler never panics with "top sort does not work" and leaves  *)
(* the rest of its build unscheduled.                                      *)
(***************************************************************************)
SignalNeverPanics == panicked = {}

(***************************************************************************)
(* A dead worker stalls a build only by taking one of the build's jobs    *)
(* with it (a job it was running, a result it had not reported, or a job *)
(* its cancelled heartbeat had popped): a dead peer holding a dep makes   *)
(* the download fail and the build end with BuildFailed (spec §8,         *)
(* scenario 4), and the dead worker's heartbeat handler never wedges the  *)
(* scheduler for the live workers. The other way a build stalls is its   *)
(* own /signal handler panicking (SignalNeverPanics).                      *)
(***************************************************************************)
BuildSurvivesCrash ==
    \A b \in Builds :
        phase[b] = "signalled" ~>
            (FinishedAt(b) # {} \/ b \in panicked \/ lost \cap BuildJobs[b] # {})

=============================================================================
