--------------------------- MODULE BuildSession ---------------------------
(***************************************************************************)
(* One build as the client sees it (pkg/client/build.go) against the       *)
(* coordinator's /build and /signal handlers (pkg/api/build_handler.go),   *)
(* the streaming status writer (pkg/api/status_writer.go) and the          *)
(* SignalBuild watchers that write to it (pkg/dist/build_service.go).      *)
(*                                                                         *)
(* The client starts the build and reads BuildStarted, uploads every       *)
(* missing file in its own goroutine (each sends its error, then nil, on a *)
(* channel of capacity |MissingFiles|), receives |MissingFiles| values,    *)
(* calls SignalBuild, which returns only after every watcher has written   *)
(* its update, then reads the status stream until EOF. The /build handler  *)
(* returns once the update carrying BuildFinished closed the writer's done *)
(* channel, which ends the stream. Scheduling and workers are abstracted   *)
(* to each job's Finished channel closing with some result (Distbuild     *)
(* models them).                                                           *)
(***************************************************************************)
EXTENDS Naturals, Sequences, FiniteSets

CONSTANTS
    Files,           \* the graph's source files, all in MissingFiles
    Jobs,            \* the graph's jobs, one watcher each
    LocalOutcomes,   \* os.Stat of a source on the client: "ok", "missing"
    UploadOutcomes,  \* Client.Upload: "ok", or "fail" (transport, non-200)
    JobOutcomes,     \* a job's result: "ok", or "error" (Result.Error set)
    LateWrite        \* a write after the handler returned: "lost", "error"

ASSUME LocalOutcomes \subseteq {"ok", "missing"} /\ "ok" \in LocalOutcomes
ASSUME UploadOutcomes \subseteq {"ok", "fail"} /\ UploadOutcomes # {}
ASSUME JobOutcomes \subseteq {"ok", "error"} /\ JobOutcomes # {}
ASSUME LateWrite \subseteq {"lost", "error"} /\ LateWrite # {}

\* make(chan error, len(started.MissingFiles))
Capacity == Cardinality(Files)

StartedMsg == [job |-> "none", failed |-> FALSE, finished |-> FALSE]

VARIABLES
    cpc,        \* where Client.Build is
    todoF,      \* missing files the loop has not reached yet
    upc,        \* each upload goroutine
    failedUp,   \* files whose upload failed
    errs,       \* the buffered errs channel
    got,        \* values received from errs
    cres,       \* what Build returned: "none", "ok", "error"
    stream,     \* the messages written to the /build response
    rd,         \* messages the client's decoder has read
    seenJobs,   \* jobs whose JobFinished the client read
    seenFailed, \* jobs whose JobFinished carried an error
    closedR,    \* the client closed the response body
    hpc,        \* the /build handler
    done,       \* the status writer's done channel is closed
    spc,        \* the /signal request: "none", "running", "returned"
    sigErr,     \* SignalBuild collected an error
    wpc,        \* each job's watcher goroutine
    res,        \* each job's result
    cnt,        \* finishedJobCount
    fin         \* the watcher that won the CompareAndSwap

vars == <<cpc, todoF, upc, failedUp, errs, got, cres, stream, rd, seenJobs,
          seenFailed, closedR, hpc, done, spc, sigErr, wpc, res, cnt, fin>>

clientVars == <<cpc, todoF, got, cres, rd, seenJobs, seenFailed, closedR>>
uploadVars == <<upc, failedUp, errs>>
serverVars == <<stream, hpc, done, spc, sigErr, wpc, res, cnt, fin>>

\* NewStatusWriter: nothing written, done open.
Init ==
    /\ cpc = "start" /\ todoF = {} /\ got = 0 /\ cres = "none"
    /\ rd = 0 /\ seenJobs = {} /\ seenFailed = {} /\ closedR = FALSE
    /\ upc = [f \in Files |-> "none"] /\ failedUp = {} /\ errs = <<>>
    /\ stream = <<>> /\ hpc = "start" /\ done = FALSE
    /\ spc = "none" /\ sigErr = FALSE
    /\ wpc = [j \in Jobs |-> "wait"] /\ res = [j \in Jobs |-> "none"]
    /\ cnt = 0 /\ fin = {}

\* send: json.Encode of the message to the response, then Flush.
Send(m) == stream' = Append(stream, m)

\* Started: the first (and only) BuildStarted message.
Started == Send(StartedMsg)

\* Updated: send under the writer's mutex, and close done on BuildFinished.
Updated(upd) ==
    /\ Send(upd)
    /\ done' = (done \/ upd.finished)

\* Next: decode the next message of the response.
NextUpdate == stream[rd + 1]

-----------------------------------------------------------------------------
(* The coordinator's /build handler                                        *)

\* StartBuild: sw.Started sends BuildStarted, the build is published under
\* hb.Happen and StartBuild returns nil; the handler then waits on done.
HandlerStart ==
    /\ hpc = "start"
    /\ Started
    /\ hpc' = "wait"
    /\ UNCHANGED <<clientVars, uploadVars, done, spc, sigErr, wpc, res, cnt, fin>>

\* <-done returns and the handler returns, ending the response (EOF).
HandlerReturn ==
    /\ hpc = "wait"
    /\ done
    /\ hpc' = "return"
    /\ UNCHANGED <<clientVars, uploadVars, stream, done, spc, sigErr, wpc,
                   res, cnt, fin>>

-----------------------------------------------------------------------------
(* Client.Build                                                            *)

\* Build returns; the deferred statusReader.Close closes the response body.
Return(r) ==
    /\ cres' = r
    /\ cpc' = "done"
    /\ closedR' = TRUE

\* BuildClient.StartBuild: the response is 200 and BuildStarted decodes.
ClientStart ==
    /\ cpc = "start"
    /\ Len(stream) >= 1
    /\ rd' = 1
    /\ todoF' = Files
    /\ cpc' = "files"
    /\ UNCHANGED <<got, cres, seenJobs, seenFailed, closedR, uploadVars,
                   serverVars>>

\* For each missing file: os.Stat; a missing file returns at once, leaving
\* the goroutines already started; otherwise an upload goroutine starts.
ClientCheck ==
    /\ cpc = "files"
    /\ \E f \in todoF, l \in LocalOutcomes :
         IF l = "missing"
         THEN Return("error") /\ UNCHANGED <<todoF, upc>>
         ELSE /\ upc' = [upc EXCEPT ![f] = "upload"]
              /\ todoF' = todoF \ {f}
              /\ UNCHANGED <<cpc, cres, closedR>>
    /\ UNCHANGED <<got, rd, seenJobs, seenFailed, failedUp, errs, serverVars>>

ClientUploadsStarted ==
    /\ cpc = "files"
    /\ todoF = {}
    /\ cpc' = "collect"
    /\ UNCHANGED <<todoF, got, cres, rd, seenJobs, seenFailed, closedR,
                   uploadVars, serverVars>>

\* for range len(MissingFiles): <-errs; a non-nil error returns it.
ClientReceive ==
    /\ cpc = "collect"
    /\ got < Capacity
    /\ errs # <<>>
    /\ errs' = Tail(errs)
    /\ got' = got + 1
    /\ IF Head(errs) = "err"
       THEN Return("error")
       ELSE UNCHANGED <<cpc, cres, closedR>>
    /\ UNCHANGED <<todoF, rd, seenJobs, seenFailed, upc, failedUp, serverVars>>

\* Mutant: the receive loop stops one value early.
ClientSignalEarly ==
    /\ cpc = "collect"
    /\ got + 1 >= Capacity
    /\ cpc' = "signal"
    /\ spc' = "running"
    /\ UNCHANGED <<todoF, got, cres, rd, seenJobs, seenFailed, closedR,
                   uploadVars, stream, hpc, done, sigErr, wpc, res, cnt, fin>>

\* Every value received: BuildClient.SignalBuild with UploadDone; the
\* /signal handler runs SignalBuild, which schedules the jobs.
ClientSignal ==
    /\ cpc = "collect"
    /\ got = Capacity
    /\ cpc' = "signal"
    /\ spc' = "running"
    /\ UNCHANGED <<todoF, got, cres, rd, seenJobs, seenFailed, closedR,
                   uploadVars, stream, hpc, done, sigErr, wpc, res, cnt, fin>>

\* The /signal response: 500 if SignalBuild returned an error.
ClientSignalDone ==
    /\ cpc = "signal"
    /\ spc = "returned"
    /\ IF sigErr
       THEN Return("error")
       ELSE cpc' = "listen" /\ UNCHANGED <<cres, closedR>>
    /\ UNCHANGED <<todoF, got, rd, seenJobs, seenFailed, uploadVars, serverVars>>

(* listenBuild: Next decodes one update. The JobFinished case is tested    *)
(* first: it calls OnJobFailed or OnJobFinished, OnJobStderr, OnJobStdout *)
(* and returns nil, so BuildFailed and BuildFinished are only looked at   *)
(* in updates without JobFinished.                                         *)
ClientListen ==
    /\ cpc = "listen"
    /\ rd < Len(stream)
    /\ LET m == NextUpdate
       IN /\ seenJobs' = seenJobs \cup {m.job}
          /\ seenFailed' = IF m.failed THEN seenFailed \cup {m.job}
                           ELSE seenFailed
    /\ rd' = rd + 1
    /\ UNCHANGED <<cpc, todoF, got, cres, closedR, uploadVars, serverVars>>

\* Mutant: io.EOF is taken for nil and the loop keeps listening.
ClientEOFIgnored ==
    /\ cpc = "listen"
    /\ rd = Len(stream)
    /\ hpc = "return"
    /\ UNCHANGED vars

\* Next returns io.EOF once the handler has returned: Build returns nil.
ClientEOF ==
    /\ cpc = "listen"
    /\ rd = Len(stream)
    /\ hpc = "return"
    /\ Return("ok")
    /\ UNCHANGED <<todoF, got, rd, seenJobs, seenFailed, uploadVars, serverVars>>

-----------------------------------------------------------------------------
(* Upload goroutines                                                       *)

\* fileCacheClient.Upload: PUT of the file.
Upload(f) ==
    /\ upc[f] = "upload"
    /\ \E o \in UploadOutcomes :
         /\ upc' = [upc EXCEPT ![f] = IF o = "ok" THEN "sendNil" ELSE "sendErr"]
         /\ failedUp' = IF o = "ok" THEN failedUp ELSE failedUp \cup {f}
    /\ UNCHANGED <<errs, clientVars, serverVars>>

\* errs <- err, then errs <- nil; each send blocks while the buffer is full.
UploadSend(f) ==
    /\ upc[f] \in {"sendErr", "sendNil"}
    /\ Len(errs) < Capacity
    /\ errs' = Append(errs, IF upc[f] = "sendErr" THEN "err" ELSE "nil")
    /\ upc' = [upc EXCEPT ![f] = IF @ = "sendErr" THEN "sendNil" ELSE "exit"]
    /\ UNCHANGED <<failedUp, clientVars, serverVars>>

-----------------------------------------------------------------------------
(* SignalBuild's watchers and their status updates                         *)

\* <-pending.Finished, then finishedJobCount.Add(1).
JobFinish(j) ==
    /\ spc = "running"
    /\ wpc[j] = "wait"
    /\ \E o \in JobOutcomes : res' = [res EXCEPT ![j] = o]
    /\ cnt' = cnt + 1
    /\ wpc' = [wpc EXCEPT ![j] = "cas"]
    /\ UNCHANGED <<clientVars, uploadVars, stream, hpc, done, spc, sigErr, fin>>

\* The update gets BuildFailed if the job failed, and BuildFinished if
\* CompareAndSwap(len(jobs), 0) succeeds.
WatcherCAS(j) ==
    /\ wpc[j] = "cas"
    /\ IF cnt = Cardinality(Jobs)
       THEN cnt' = 0 /\ fin' = fin \cup {j}
       ELSE UNCHANGED <<cnt, fin>>
    /\ wpc' = [wpc EXCEPT ![j] = "write"]
    /\ UNCHANGED <<clientVars, uploadVars, stream, hpc, done, spc, sigErr, res>>

(* sw.Updated(&update). A closed connection fails the write, and the     *)
(* watcher appends the error to errs and returns. Using the               *)
(* ResponseWriter after the handler returned is undefined in net/http:    *)
(* the write is lost or fails.                                             *)
WatcherWrite(j) ==
    /\ wpc[j] = "write"
    /\ LET upd == [job |-> j, failed |-> res[j] = "error", finished |-> j \in fin]
       IN IF hpc # "return" /\ ~closedR
          THEN Updated(upd) /\ UNCHANGED sigErr
          ELSE /\ \E w \in IF closedR THEN {"error"} ELSE LateWrite :
                    sigErr' = (sigErr \/ w = "error")
               /\ UNCHANGED <<stream, done>>
    /\ wpc' = [wpc EXCEPT ![j] = "done"]
    /\ UNCHANGED <<clientVars, uploadVars, hpc, spc, res, cnt, fin>>

\* wg.Wait, then the first collected error, if any, is returned.
SignalReturn ==
    /\ spc = "running"
    /\ \A j \in Jobs : wpc[j] = "done"
    /\ spc' = "returned"
    /\ UNCHANGED <<clientVars, uploadVars, stream, hpc, done, sigErr, wpc,
                   res, cnt, fin>>

-----------------------------------------------------------------------------

Next ==
    \/ HandlerStart \/ HandlerReturn
    \/ ClientStart \/ ClientCheck \/ ClientUploadsStarted \/ ClientReceive
    \/ ClientSignal \/ ClientSignalDone \/ ClientListen \/ ClientEOF
    \/ \E f \in Files : Upload(f) \/ UploadSend(f)
    \/ \E j \in Jobs : JobFinish(j) \/ WatcherCAS(j) \/ WatcherWrite(j)
    \/ SignalReturn

ClientSteps ==
    \/ ClientStart \/ ClientCheck \/ ClientUploadsStarted \/ ClientReceive
    \/ ClientSignal \/ ClientSignalDone \/ ClientListen \/ ClientEOF

\* Every goroutine (client, uploaders, handlers, watchers) is eventually
\* run while it can; a finished job's Finished channel is eventually closed.
Fairness ==
    /\ WF_vars(ClientSteps)
    /\ WF_vars(HandlerStart \/ HandlerReturn)
    /\ WF_vars(SignalReturn)
    /\ \A f \in Files : WF_vars(Upload(f) \/ UploadSend(f))
    /\ \A j \in Jobs : WF_vars(JobFinish(j) \/ WatcherCAS(j) \/ WatcherWrite(j))

Spec == Init /\ [][Next]_vars /\ Fairness

-----------------------------------------------------------------------------

(***************************************************************************)
(* Build reports a failed upload: it never returns nil when one of the    *)
(* upload goroutines failed, whatever order their err and nil values     *)
(* reach the errs channel in.                                              *)
(***************************************************************************)
UploadErrorsReported == cres = "ok" => failedUp = {}

(***************************************************************************)
(* Client.Build eventually returns: no receive, SignalBuild call or       *)
(* stream read waits forever.                                              *)
(***************************************************************************)
ClientTerminates == <>(cpc = "done")

(***************************************************************************)
(* Spec §7: a build in which a job failed ends, for the client, in        *)
(* BuildFailed: Build does not return nil after it read a failed job.     *)
(***************************************************************************)
ClientSeesFailure == cres = "ok" => seenFailed = {}

(***************************************************************************)
(* Build returns nil only after the client read every job's JobFinished   *)
(* (spec §5: BuildFinished follows all JobFinished).                       *)
(***************************************************************************)
ClientSawAllJobs == cres = "ok" => seenJobs = Jobs

=============================================================================
