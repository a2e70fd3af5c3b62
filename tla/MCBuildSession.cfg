\* Two missing files, two jobs, every outcome of os.Stat, Upload, the jobs
\* and a write after the handler returned.
CONSTANTS
    Files = {f1, f2}
    Jobs = {j1, j2}
    LocalOutcomes = {"ok", "missing"}
    UploadOutcomes = {"ok", "fail"}
    JobOutcomes = {"ok", "error"}
    LateWrite = {"lost", "error"}
SPECIFICATION Spec
INVARIANT UploadErrorsReported
PROPERTY ClientTerminates
\* Build returns while upload goroutines block on a full errs channel and
\* the /build handler waits on done forever: the system may stop there.
CHECK_DEADLOCK FALSE
