----------------------------- MODULE Scheduler -----------------------------
(***************************************************************************)
(* The coordinator's in-memory scheduler (pkg/scheduler/scheduler.go).     *)
(*                                                                         *)
(* State: the job registry c.jobs (registered, finished, result, jobSpec), *)
(* the ready queue (a buffered channel, queue.go) and the artifact        *)
(* location index c.artifacts (ring of at most MaxLocations workers).     *)
(*                                                                         *)
(* OnJobComplete runs two critical sections, jobsMu then artifactsMu.      *)
(* Callers that interleave other steps between them go through           *)
(* OnJobCompleteClose and OnJobCompleteLocate; completing holds the calls *)
(* that are between the two sections.                                      *)
(*                                                                         *)
(* The module declares the scheduler's state and its operations; the      *)
(* modules that call the scheduler (SchedulerClients, Distbuild) EXTEND it *)
(* and add their own variables.                                            *)
(***************************************************************************)
EXTENDS Naturals, Sequences, FiniteSets

CONSTANTS
    Jobs,          \* job IDs (build.ID)
    Workers,       \* worker IDs (api.WorkerID)
    Results,       \* the JobResult values the model tells apart
    NoResult,      \* PendingJob.Result == nil
    MaxLocations   \* replicas kept per artifact: the "4" of `len == 4+1`

ASSUME MaxLocations \in Nat \ {0}
ASSUME NoResult \notin Results

VARIABLES
    registered,   \* DOMAIN c.jobs
    finished,     \* jobs whose isCloseFinished flag is set (Finished closed)
    result,       \* PendingJob.Result
    jobSpec,      \* PendingJob.Job.Artifacts: dep -> worker to fetch it from
    queue,        \* contents of the ready channel, oldest first
    locations,    \* c.artifacts[id], oldest reporter first
    completing    \* OnJobComplete calls between jobsMu and artifactsMu

schedVars == <<registered, finished, result, jobSpec, queue, locations, completing>>

\* A JobSpec's artifact map, a function from some deps to workers.
EmptySpec == [d \in {} |-> CHOOSE w \in Workers : TRUE]

SchedInit ==
    /\ registered = {}
    /\ finished = {}
    /\ result = [j \in Jobs |-> NoResult]
    /\ jobSpec = [j \in Jobs |-> EmptySpec]
    /\ queue = <<>>
    /\ locations = [j \in Jobs |-> <<>>]
    /\ completing = {}

SchedTypeOK ==
    /\ registered \subseteq Jobs
    /\ finished \subseteq registered
    /\ result \in [Jobs -> Results \cup {NoResult}]
    /\ \A j \in Jobs : DOMAIN jobSpec[j] \subseteq Jobs
    /\ queue \in Seq(Jobs)
    /\ \A j \in Jobs : locations[j] \in Seq(Workers)
    /\ completing \subseteq Workers \X Jobs

(***************************************************************************)
(* ScheduleJob: an already registered ID returns the existing entry and    *)
(* enqueues nothing; otherwise a fresh open entry is registered and pushed *)
(* onto the ready channel.                                                 *)
(***************************************************************************)
\* Mutant: the registry lookup is skipped and every call enqueues.
ScheduleJobNoLookup(j, arts) ==
    /\ registered' = registered \cup {j}
    /\ jobSpec' = [jobSpec EXCEPT ![j] = arts]
    /\ queue' = Append(queue, j)
    /\ UNCHANGED <<finished, result, locations, completing>>

ScheduleJob(j, arts) ==
    IF j \in registered
    THEN UNCHANGED schedVars
    ELSE /\ registered' = registered \cup {j}
         /\ jobSpec' = [jobSpec EXCEPT ![j] = arts]
         /\ queue' = Append(queue, j)
         /\ UNCHANGED <<finished, result, locations, completing>>

(***************************************************************************)
(* PickJob / TryPickJob: receive the oldest entry of the ready channel.    *)
(* PickJob blocks while the channel is empty; TryPickJob's default branch  *)
(* is taken by its caller when the channel is empty.                       *)
(***************************************************************************)
PopJob ==
    /\ queue # <<>>
    /\ queue' = Tail(queue)
    /\ UNCHANGED <<registered, finished, result, jobSpec, locations, completing>>

(***************************************************************************)
(* OnJobComplete, first critical section (jobsMu): look up or lazily       *)
(* create the entry, then close Finished and store the result only if the  *)
(* compare-and-swap on isCloseFinished succeeds. The entry existed before  *)
(* the call iff j \in registered, which is the call's return value.        *)
(***************************************************************************)
\* Mutant: the lazy creation of a missing entry is dropped, so a report of
\* an unknown job closes Finished on an entry that is not in c.jobs.
OnJobCompleteCloseNoCreate(w, j, r) ==
    /\ finished' = finished \cup {j}
    /\ result' = IF j \in finished THEN result ELSE [result EXCEPT ![j] = r]
    /\ completing' = completing \cup {<<w, j>>}
    /\ UNCHANGED <<registered, jobSpec, queue, locations>>

OnJobCompleteClose(w, j, r) ==
    /\ registered' = registered \cup {j}
    /\ finished' = finished \cup {j}
    /\ result' = IF j \in finished THEN result ELSE [result EXCEPT ![j] = r]
    /\ completing' = completing \cup {<<w, j>>}
    /\ UNCHANGED <<jobSpec, queue, locations>>

\* Mutant: the ring is trimmed at MaxLocations instead of MaxLocations + 1.
AppendLocationEarlyEvict(ws, w) ==
    LET ext == Append(ws, w)
    IN IF Len(ext) = MaxLocations THEN Tail(ext) ELSE ext

\* The location list after `append` and the eviction of the oldest entry
\* once it holds MaxLocations + 1 workers.
AppendLocation(ws, w) ==
    LET ext == Append(ws, w)
    IN IF Len(ext) = MaxLocations + 1 THEN Tail(ext) ELSE ext

(***************************************************************************)
(* OnJobComplete, second critical section (artifactsMu): record the        *)
(* reporting worker as a holder of the artifact, whatever the CAS did.     *)
(***************************************************************************)
OnJobCompleteLocate(w, j) ==
    /\ <<w, j>> \in completing
    /\ locations' = [locations EXCEPT ![j] = AppendLocation(@, w)]
    /\ completing' = completing \ {<<w, j>>}
    /\ UNCHANGED <<registered, finished, result, jobSpec, queue>>

\* LocateArtifact: the workers among which rand.Intn picks; empty means
\* "not found".
LocateArtifact(j) == {locations[j][i] : i \in DOMAIN locations[j]}

=============================================================================
