\* SignalBuild racing OnJobComplete's two critical sections.
\* Two builds sharing job j1 (b1: j1 <- j2, b2: j1 <- j3), each job with
\* its own source file, two workers with two free slots each. Commands may
\* fail, so failed deps and the downloads they break are explored.
CONSTANTS
    j1 = j1
    j2 = j2
    j3 = j3
    b1 = b1
    b2 = b2
    f1 = f1
    f2 = f2
    f3 = f3
    Jobs = {j1, j2, j3}
    Workers = {w1, w2}
    Builds = {b1, b2}
    Files = {f1, f2, f3}
    Ok = Ok
    ExecError = ExecError
    InfraError = InfraError
    Results = {Ok, ExecError, InfraError}
    NoResult = NoResult
    MaxLocations = 4
    Crashable = {}
    FreeSlots = 2
    TryPickAttempts = 4
    BuildJobs <- MCBuildJobs
    Deps <- MCDeps
    Inputs <- MCInputs
    ExecOutcomes <- MCExecOutcomes

SPECIFICATION Spec

CHECK_DEADLOCK FALSE

INVARIANTS
    SignalNeverPanics
