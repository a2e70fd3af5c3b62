-------------------------- MODULE SchedulerClients --------------------------
(***************************************************************************)
(* The scheduler driven by arbitrary concurrent callers of its public      *)
(* methods: ScheduleJob (build service), PickJob/TryPickJob and            *)
(* OnJobComplete (heartbeat service). Each call runs its critical          *)
(* sections atomically; an OnJobComplete may be suspended between its two. *)
(* History variables record what the callers did, so that the scheduler's *)
(* contract (spec §4.1, §8) can be stated over whole call sequences.       *)
(***************************************************************************)
EXTENDS Scheduler

CONSTANTS
    MaxCalls   \* calls the driver makes in one behaviour

ASSUME MaxCalls \in Nat

VARIABLES
    calls,        \* calls made so far
    popCount,     \* popCount[j]: times j was received from the ready channel
    replayed,     \* jobs whose first call was an OnJobComplete (cache replay)
    reporters     \* every worker whose report reached artifactsMu, in order

vars == <<schedVars, calls, popCount, replayed, reporters>>

Init ==
    /\ SchedInit
    /\ calls = 0
    /\ popCount = [j \in Jobs |-> 0]
    /\ replayed = {}
    /\ reporters = [j \in Jobs |-> <<>>]

Call == calls < MaxCalls /\ calls' = calls + 1

\* ScheduleJob(spec) from a SignalBuild loop.
CallSchedule(j) ==
    /\ Call
    /\ ScheduleJob(j, EmptySpec)
    /\ UNCHANGED <<popCount, replayed, reporters>>

\* PickJob or TryPickJob receiving an entry.
CallPick ==
    /\ Call
    /\ PopJob
    /\ popCount' = [popCount EXCEPT ![Head(queue)] = @ + 1]
    /\ UNCHANGED <<replayed, reporters>>

\* OnJobComplete(w, j, r) entering jobsMu; r = NoResult is the nil result
\* of an AddedArtifacts report.
CallCompleteBegin(w, j, r) ==
    /\ Call
    /\ <<w, j>> \notin completing
    /\ OnJobCompleteClose(w, j, r)
    /\ replayed' = IF j \in registered THEN replayed ELSE replayed \cup {j}
    /\ UNCHANGED <<popCount, reporters>>

\* The same call entering artifactsMu.
CallCompleteEnd(w, j) ==
    /\ OnJobCompleteLocate(w, j)
    /\ reporters' = [reporters EXCEPT ![j] = Append(@, w)]
    /\ UNCHANGED <<calls, popCount, replayed>>

Next ==
    \/ \E j \in Jobs : CallSchedule(j)
    \/ CallPick
    \/ \E w \in Workers, j \in Jobs, r \in Results \cup {NoResult} :
           CallCompleteBegin(w, j, r)
    \/ \E w \in Workers, j \in Jobs : CallCompleteEnd(w, j)

Spec == Init /\ [][Next]_vars

-----------------------------------------------------------------------------

\* Type invariant: among other things, a closed Finished always belongs to
\* an entry of c.jobs, including one lazily created by an OnJobComplete.
TypeOK ==
    /\ SchedTypeOK
    /\ calls \in 0..MaxCalls
    /\ popCount \in [Jobs -> Nat]
    /\ replayed \subseteq Jobs
    /\ reporters \in [Jobs -> Seq(Workers)]

\* Occurrences of j in the ready channel.
Queued(j) == Cardinality({i \in DOMAIN queue : queue[i] = j})

(***************************************************************************)
(* Idempotent schedule and replay-safe completion (spec §8): however       *)
(* ScheduleJob and OnJobComplete calls interleave, a job ID reaches a      *)
(* worker through PickJob at most once, and never when the first thing the *)
(* scheduler heard of it was a completion report (a cached artifact        *)
(* replayed by a heartbeat before any build scheduled it).                 *)
(***************************************************************************)
DispatchedAtMostOnce ==
    \A j \in Jobs :
        popCount[j] + Queued(j) <= IF j \in replayed THEN 0 ELSE 1

(***************************************************************************)
(* Location bound (spec §8): the location list of a job is exactly the     *)
(* MaxLocations most recent reporters, in report order; older reporters   *)
(* are evicted first.                                                      *)
(***************************************************************************)
LastN(s, n) == IF Len(s) <= n THEN s ELSE SubSeq(s, Len(s) - n + 1, Len(s))

LocationsAreLatest ==
    \A j \in Jobs : locations[j] = LastN(reporters[j], MaxLocations)

=============================================================================
