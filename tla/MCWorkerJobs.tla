--------------------------- MODULE MCWorkerJobs ---------------------------
(***************************************************************************)
(* Heartbeat responses for checking WorkerJobs with TLC. Job, artifact,    *)
(* file and path IDs are model values declared here.                      *)
(***************************************************************************)
EXTENDS WorkerJobs, TLC

CONSTANTS j1, j2, j3, a1, a2, f1, f2, p1, p2

\* j1 and j2 share dep a1 and source f1; j2 links f1 at p2 and its own f2
\* at p1, where j1 links f1. j3's result is in jobResultCache.
MCDeps == (j1 :> {a1}) @@ (j2 :> {a1, a2}) @@ (j3 :> {a1})
MCSrcs == (j1 :> {f1}) @@ (j2 :> {f1, f2}) @@ (j3 :> {f1})
MCSrcPath == (j1 :> (f1 :> p1)) @@ (j2 :> ((f1 :> p2) @@ (f2 :> p1)))
             @@ (j3 :> (f1 :> p1))

\* Two jobs put their own source at the same path p1.
MCSrcPathShared == (j1 :> (f1 :> p1)) @@ (j2 :> (f2 :> p1))
MCSrcsTwo == (j1 :> {f1}) @@ (j2 :> {f2})
MCDepsTwo == (j1 :> {a1}) @@ (j2 :> {a2})

=============================================================================
