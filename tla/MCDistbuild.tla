---------------------------- MODULE MCDistbuild ----------------------------
(***************************************************************************)
(* Build graphs for checking Distbuild with TLC. The job, build and file   *)
(* IDs are model values declared here so that the graphs can name them.   *)
(***************************************************************************)
EXTENDS Distbuild

CONSTANTS j1, j2, j3, b1, b2, f1, f2, f3

\* Two builds sharing job j1: b1 = {j1 <- j2}, b2 = {j1 <- j3}.
MCBuildJobs == (b1 :> {j1, j2}) @@ (b2 :> {j1, j3})
MCDeps == (j1 :> {}) @@ (j2 :> {j1}) @@ (j3 :> {j1})
\* Each job reads its own source file.
MCInputs == (j1 :> {f1}) @@ (j2 :> {f2}) @@ (j3 :> {f3})
\* Every job reads f1 as well.
MCInputsShared == (j1 :> {f1}) @@ (j2 :> {f1, f2}) @@ (j3 :> {f1, f3})
\* Commands may succeed or fail.
MCExecOutcomes == {Ok, ExecError}
\* Commands always succeed.
MCExecOk == {Ok}

=============================================================================
