\* One file, two jobs that succeed; a write after the handler returned is lost.
CONSTANTS
    Files = {f1}
    Jobs = {j1, j2}
    LocalOutcomes = {"ok"}
    UploadOutcomes = {"ok"}
    JobOutcomes = {"ok"}
    LateWrite = {"lost"}
SPECIFICATION Spec
INVARIANT ClientSawAllJobs
CHECK_DEADLOCK FALSE
