----------------------------- MODULE WorkerJobs -----------------------------
(***************************************************************************)
(* One worker running the jobs of one heartbeat response concurrently      *)
(* (Worker.Run starts a goroutine per job and waits for all of them).      *)
(* Each goroutine runs runJob: the job-result cache check,                *)
(* downloadArtifacts and downloadFiles into the worker's artifact and file *)
(* caches, then executeJob: linkFiles of every source into the shared     *)
(* source directory (os.TempDir()), Create of the output artifact, read-  *)
(* locks on the deps, the commands, then unlock and commit or abort. The  *)
(* worker's artifact handler serves peers concurrently.                   *)
(*                                                                         *)
(* Peers and the coordinator always answer; what can fail is the caches' *)
(* locking, the shared source directory and the commands.                 *)
(***************************************************************************)
EXTENDS Integers, FiniteSets, ContentCache

CONSTANTS
    Jobs,           \* the jobs of one HeartbeatResponse
    Arts,           \* artifact IDs of deps, produced on other workers
    Files,          \* source file IDs
    Paths,          \* logical paths of source files
    Deps,           \* Deps[j]: JobSpec.Artifacts (the deps of j)
    Srcs,           \* Srcs[j]: the file IDs of JobSpec.SourceFiles
    SrcPath,        \* SrcPath[j][f]: the path SourceFiles gives f in job j
    InitArts,       \* artifacts already in the local cache
    InitFiles,      \* files already in the local cache
    CachedResults,  \* jobs already in jobResultCache
    CmdOutcomes,    \* what running a job's commands can give
    NoFile

ASSUME CmdOutcomes \subseteq {"ok", "exit", "spawn"} /\ CmdOutcomes # {}
ASSUME NoFile \notin Files

\* "ok": every command ran and exited 0; "exit": a command exited nonzero;
\* "spawn": a command could not be started (or an I/O error).

ArtIDs == Jobs \cup Arts

VARIABLES
    arts,        \* the artifact cache
    files,       \* the file cache
    srcDir,      \* what each path of the source directory links to
    pc,          \* where each job goroutine is
    todo,        \* IDs left in the loop the goroutine is in
    cur,         \* the ID being downloaded or linked
    held,        \* dep read-locks executeJob holds
    downloaded,  \* artifacts the goroutine downloaded
    blind,       \* jobs whose commands ran without all their own sources
    result,      \* the JobResult: "none" until reported
    exitCode,    \* JobResult.ExitCode as reported
    cause,       \* what set JobResult.Error
    added,       \* AddedArtifacts of the delta state
    reported,    \* jobs in FinishedJob of the delta state
    peerReads,   \* artifacts a peer is downloading through the handler
    panicked     \* executeJob's panic on a missing dep

vars == <<arts, files, srcDir, pc, todo, cur, held, downloaded, blind,
          result, exitCode, cause, added, reported, peerReads, panicked>>

Init ==
    /\ arts = [a \in ArtIDs |-> IF a \in InitArts THEN Present ELSE Absent]
    /\ files = [f \in Files |-> IF f \in InitFiles THEN Present ELSE Absent]
    /\ srcDir = [p \in Paths |-> NoFile]
    /\ pc = [j \in Jobs |-> "start"]
    /\ todo = [j \in Jobs |-> {}]
    /\ cur = [j \in Jobs |-> NoFile]
    /\ held = [j \in Jobs |-> {}]
    /\ downloaded = [j \in Jobs |-> {}]
    /\ blind = {}
    /\ result = [j \in Jobs |-> "none"]
    /\ exitCode = [j \in Jobs |-> 0]
    /\ cause = [j \in Jobs |-> "none"]
    /\ added = {}
    /\ reported = {}
    /\ peerReads = {}
    /\ panicked = FALSE

Goto(j, where) == pc' = [pc EXCEPT ![j] = where]

\* Mutant: the result is never handed to the delta state.
ReportLost(j, r, why) ==
    /\ result' = [result EXCEPT ![j] = r]
    /\ cause' = [cause EXCEPT ![j] = why]
    /\ UNCHANGED reported
    /\ Goto(j, "done")

\* The deferred addJobResult: the result enters FinishedJob and the task is
\* done; exitCode is jobRes.ExitCode (runJob's 0 before executeJob).
Report(j, r, why) ==
    /\ result' = [result EXCEPT ![j] = r]
    /\ cause' = [cause EXCEPT ![j] = why]
    /\ reported' = reported \cup {j}
    /\ Goto(j, "done")

\* A download or link error: JobResult.Error is set and runJob returns.
Fail(j, why) == Report(j, "error", why) /\ UNCHANGED exitCode

\* downloadArtifacts' deferred addArtifacts(ctx, addedArtifacts): the slice
\* was evaluated when the defer ran, before any append, so it is empty.
DeferredArgs == {}
AddArtifacts == added' = added \cup DeferredArgs

-----------------------------------------------------------------------------
(* runJob                                                                  *)

\* A hit in jobResultCache reports the cached result.
StartCached(j) ==
    /\ ~panicked
    /\ pc[j] = "start"
    /\ j \in CachedResults
    /\ Report(j, "ok", "none")
    /\ UNCHANGED <<arts, files, srcDir, todo, cur, held, downloaded, blind,
                   exitCode, added, peerReads, panicked>>

StartMiss(j) ==
    /\ ~panicked
    /\ pc[j] = "start"
    /\ j \notin CachedResults
    /\ todo' = [todo EXCEPT ![j] = Deps[j]]
    /\ Goto(j, "arts")
    /\ UNCHANGED <<arts, files, srcDir, cur, held, downloaded, blind,
                   result, exitCode, cause, added, reported, peerReads,
                   panicked>>

(* downloadArtifacts: for each dep (in map order), a Get hit is released   *)
(* at once; ErrNotFound downloads it; any other error fails the job.       *)
ArtGet(j) ==
    /\ ~panicked
    /\ pc[j] = "arts"
    /\ \E d \in todo[j] :
         IF CanGet(arts, d)
         THEN /\ todo' = [todo EXCEPT ![j] = @ \ {d}]
              /\ UNCHANGED <<pc, cur, result, cause, reported, added>>
         ELSE \E e \in GetErrors(arts, d) :
                IF e = "ErrNotFound"
                THEN /\ cur' = [cur EXCEPT ![j] = d]
                     /\ Goto(j, "artCreate")
                     /\ UNCHANGED <<todo, result, cause, reported, added>>
                ELSE /\ Fail(j, "download") /\ AddArtifacts
                     /\ UNCHANGED <<todo, cur>>
    /\ UNCHANGED <<arts, files, srcDir, held, downloaded, blind, exitCode,
                   peerReads, panicked>>

\* artifact.Download: after the peer answered, Create(id) in the local cache.
ArtCreate(j) ==
    LET d == cur[j]
    IN /\ ~panicked
       /\ pc[j] = "artCreate"
       /\ IF CreateError(arts, d) = "none"
          THEN /\ arts' = CreateLock(arts, d)
               /\ Goto(j, "artCommit")
               /\ UNCHANGED <<result, cause, reported, added>>
          ELSE /\ Fail(j, "download") /\ AddArtifacts
               /\ UNCHANGED arts
       /\ UNCHANGED <<files, srcDir, todo, cur, held, downloaded, blind,
                      exitCode, peerReads, panicked>>

\* tarstream.Receive into the staging directory, then commit().
ArtCommit(j) ==
    LET d == cur[j]
    IN /\ ~panicked
       /\ pc[j] = "artCommit"
       /\ arts' = Commit(arts, d)
       /\ downloaded' = [downloaded EXCEPT ![j] = @ \cup {d}]
       /\ todo' = [todo EXCEPT ![j] = @ \ {d}]
       /\ Goto(j, "arts")
       /\ UNCHANGED <<files, srcDir, cur, held, blind, result, exitCode,
                      cause, added, reported, peerReads, panicked>>

\* Every dep present: the deferred addArtifacts runs and downloadFiles starts.
ArtsDone(j) ==
    /\ ~panicked
    /\ pc[j] = "arts"
    /\ todo[j] = {}
    /\ AddArtifacts
    /\ todo' = [todo EXCEPT ![j] = Srcs[j]]
    /\ Goto(j, "files")
    /\ UNCHANGED <<arts, files, srcDir, cur, held, downloaded, blind,
                   result, exitCode, cause, reported, peerReads, panicked>>

(* downloadFiles: for each source, a Get hit is released at once;          *)
(* ErrNotFound downloads it from the coordinator; any other error fails.   *)
FileGet(j) ==
    /\ ~panicked
    /\ pc[j] = "files"
    /\ \E f \in todo[j] :
         IF CanGet(files, f)
         THEN /\ todo' = [todo EXCEPT ![j] = @ \ {f}]
              /\ UNCHANGED <<pc, cur, result, cause, reported>>
         ELSE \E e \in GetErrors(files, f) :
                IF e = "ErrNotFound"
                THEN /\ cur' = [cur EXCEPT ![j] = f]
                     /\ Goto(j, "fileWrite")
                     /\ UNCHANGED <<todo, result, cause, reported>>
                ELSE /\ Fail(j, "download")
                     /\ UNCHANGED <<todo, cur>>
    /\ UNCHANGED <<arts, files, srcDir, held, downloaded, blind, exitCode,
                   added, peerReads, panicked>>

\* filecache.Client.Download: after the coordinator answered, Write(id).
FileWrite(j) ==
    LET f == cur[j]
    IN /\ ~panicked
       /\ pc[j] = "fileWrite"
       /\ IF CreateError(files, f) = "none"
          THEN /\ files' = CreateLock(files, f)
               /\ Goto(j, "fileClose")
               /\ UNCHANGED <<result, cause, reported>>
          ELSE /\ Fail(j, "download")
               /\ UNCHANGED files
       /\ UNCHANGED <<arts, srcDir, todo, cur, held, downloaded, blind,
                      exitCode, added, peerReads, panicked>>

\* io.Copy of the body, then w.Close() commits the file.
FileClose(j) ==
    LET f == cur[j]
    IN /\ ~panicked
       /\ pc[j] = "fileClose"
       /\ files' = Commit(files, f)
       /\ todo' = [todo EXCEPT ![j] = @ \ {f}]
       /\ Goto(j, "files")
       /\ UNCHANGED <<arts, srcDir, cur, held, downloaded, blind, result,
                      exitCode, cause, added, reported, peerReads, panicked>>

\* Every source present: executeJob starts linking them.
FilesDone(j) ==
    /\ ~panicked
    /\ pc[j] = "files"
    /\ todo[j] = {}
    /\ todo' = [todo EXCEPT ![j] = Srcs[j]]
    /\ Goto(j, "link")
    /\ UNCHANGED <<arts, files, srcDir, cur, held, downloaded, blind,
                   result, exitCode, cause, added, reported, peerReads,
                   panicked>>

-----------------------------------------------------------------------------
(* executeJob                                                              *)

(* linkFiles: Get the cached file (read-locked until it returns), then     *)
(* os.Remove the path in the shared source directory, then os.Link, which *)
(* fails with EEXIST when another job linked the path in between.          *)
LinkGet(j) ==
    /\ ~panicked
    /\ pc[j] = "link"
    /\ \E f \in todo[j] :
         IF CanGet(files, f)
         THEN /\ files' = GetLock(files, f)
              /\ cur' = [cur EXCEPT ![j] = f]
              /\ Goto(j, "unlinked")
              /\ UNCHANGED <<srcDir, result, cause, reported>>
         ELSE /\ Fail(j, "link")
              /\ UNCHANGED <<files, srcDir, cur>>
    /\ UNCHANGED <<arts, todo, held, downloaded, blind, exitCode, added,
                   peerReads, panicked>>

LinkRemove(j) ==
    /\ ~panicked
    /\ pc[j] = "unlinked"
    /\ srcDir' = [srcDir EXCEPT ![SrcPath[j][cur[j]]] = NoFile]
    /\ Goto(j, "relink")
    /\ UNCHANGED <<arts, files, todo, cur, held, downloaded, blind, result,
                   exitCode, cause, added, reported, peerReads, panicked>>

LinkCreate(j) ==
    LET f == cur[j]
        p == SrcPath[j][f]
    IN /\ ~panicked
       /\ pc[j] = "relink"
       /\ files' = Unlock(files, f)
       /\ IF srcDir[p] = NoFile
          THEN /\ srcDir' = [srcDir EXCEPT ![p] = f]
               /\ todo' = [todo EXCEPT ![j] = @ \ {f}]
               /\ Goto(j, "link")
               /\ UNCHANGED <<result, cause, reported, exitCode>>
          ELSE /\ Fail(j, "link")
               /\ UNCHANGED <<srcDir, todo>>
       /\ UNCHANGED <<arts, cur, held, downloaded, blind, added, peerReads,
                      panicked>>

\* Every source linked: artifacts.Create(jobID) for the output directory.
OutputCreate(j) ==
    /\ ~panicked
    /\ pc[j] = "link"
    /\ todo[j] = {}
    /\ IF CreateError(arts, j) = "none"
       THEN /\ arts' = CreateLock(arts, j)
            /\ Goto(j, "deps")
            /\ UNCHANGED <<result, cause, reported>>
       ELSE /\ Fail(j, "create")
            /\ UNCHANGED arts
    /\ UNCHANGED <<files, srcDir, todo, cur, held, downloaded, blind,
                   exitCode, added, peerReads, panicked>>

\* Read-lock every dep; a dep that cannot be read panics ("top sort does
\* not work"), which kills the worker.
DepsLock(j) ==
    /\ ~panicked
    /\ pc[j] = "deps"
    /\ IF \A d \in Deps[j] : CanGet(arts, d)
       THEN /\ arts' = [a \in ArtIDs |->
                          IF a \in Deps[j] THEN [arts[a] EXCEPT !.readers = @ + 1]
                          ELSE arts[a]]
            /\ held' = [held EXCEPT ![j] = Deps[j]]
            /\ Goto(j, "run")
            /\ UNCHANGED panicked
       ELSE /\ panicked' = TRUE
            /\ UNCHANGED <<arts, held, pc>>
    /\ UNCHANGED <<files, srcDir, todo, cur, downloaded, blind, result,
                   exitCode, cause, added, reported, peerReads>>

\* The paths of j's sources that do not link to j's file right now.
Clobbered(j) == {f \in Srcs[j] : srcDir[SrcPath[j][f]] # f}

(* The commands, in order, stop at the first error. executeCommand returns *)
(* ProcessState.ExitCode() evaluated before Run, on a nil ProcessState,    *)
(* so ExitCode is -1 whatever the process did; any error of Run, a nonzero *)
(* exit included, sets Error and aborts the output, returning without     *)
(* releasing the dep read-locks.                                           *)
CommandFails(j, o) ==
    /\ arts' = Abort(arts, j)
    /\ Report(j, "error", o)
    /\ UNCHANGED held

\* Mutant: the commit after the commands is missing.
CommandsSucceedUncommitted(j) ==
    /\ arts' = [a \in ArtIDs |->
                  IF a \in held[j] THEN [arts[a] EXCEPT !.readers = @ - 1]
                  ELSE arts[a]]
    /\ held' = [held EXCEPT ![j] = {}]
    /\ Report(j, "ok", "none")

\* Every command succeeded: the deps are unlocked, then commit().
CommandsSucceed(j) ==
    /\ arts' = [a \in ArtIDs |->
                  IF a \in held[j] THEN [arts[a] EXCEPT !.readers = @ - 1]
                  ELSE IF a = j THEN Commit(arts, j)[j]
                  ELSE arts[a]]
    /\ held' = [held EXCEPT ![j] = {}]
    /\ Report(j, "ok", "none")

\* The commands run in the shared source directory as it is now.
RunCommands(j) ==
    /\ ~panicked
    /\ pc[j] = "run"
    /\ blind' = IF Clobbered(j) = {} THEN blind ELSE blind \cup {j}
    /\ exitCode' = [exitCode EXCEPT ![j] = -1]
    /\ \E o \in CmdOutcomes :
         IF o = "ok" THEN CommandsSucceed(j) ELSE CommandFails(j, o)
    /\ UNCHANGED <<files, srcDir, todo, cur, downloaded, added, peerReads,
                   panicked>>

-----------------------------------------------------------------------------
(* The worker's artifact handler serving a peer: Get, tarstream.Send,      *)
(* unlock.                                                                 *)

PeerGet(a) ==
    /\ ~panicked
    /\ a \notin peerReads
    /\ CanGet(arts, a)
    /\ arts' = GetLock(arts, a)
    /\ peerReads' = peerReads \cup {a}
    /\ UNCHANGED <<files, srcDir, pc, todo, cur, held, downloaded, blind,
                   result, exitCode, cause, added, reported, panicked>>

PeerDone(a) ==
    /\ a \in peerReads
    /\ arts' = Unlock(arts, a)
    /\ peerReads' = peerReads \ {a}
    /\ UNCHANGED <<files, srcDir, pc, todo, cur, held, downloaded, blind,
                   result, exitCode, cause, added, reported, panicked>>

-----------------------------------------------------------------------------

JobSteps(j) ==
    \/ StartCached(j) \/ StartMiss(j)
    \/ ArtGet(j) \/ ArtCreate(j) \/ ArtCommit(j) \/ ArtsDone(j)
    \/ FileGet(j) \/ FileWrite(j) \/ FileClose(j) \/ FilesDone(j)
    \/ LinkGet(j) \/ LinkRemove(j) \/ LinkCreate(j)
    \/ OutputCreate(j) \/ DepsLock(j) \/ RunCommands(j)

Next ==
    \/ \E j \in Jobs : JobSteps(j)
    \/ \E a \in ArtIDs : PeerGet(a) \/ PeerDone(a)

\* Each job goroutine and each peer request handler is eventually run.
Fairness ==
    /\ \A j \in Jobs : WF_vars(JobSteps(j))
    /\ \A a \in ArtIDs : WF_vars(PeerDone(a))

Spec == Init /\ [][Next]_vars /\ Fairness

-----------------------------------------------------------------------------

(***************************************************************************)
(* A finished job's output artifact is committed exactly when its result  *)
(* carries no error: commit on success, abort on every failure after      *)
(* Create.                                                                 *)
(***************************************************************************)
CommitMatchesResult ==
    \A j \in reported \ CachedResults : arts[j].committed <=> result[j] = "ok"

(***************************************************************************)
(* wg.Wait returns: every job goroutine of the response eventually adds   *)
(* its JobResult to the delta state.                                       *)
(***************************************************************************)
AllReported == <>(reported = Jobs)

(***************************************************************************)
(* executeJob's commands run in a source directory where every path of    *)
(* the job links to the job's own file.                                    *)
(***************************************************************************)
CommandsSeeOwnSources == blind = {}

=============================================================================
