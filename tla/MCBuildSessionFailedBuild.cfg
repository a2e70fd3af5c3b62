\* One file, one job that may fail; everything else succeeds.
CONSTANTS
    Files = {f1}
    Jobs = {j1}
    LocalOutcomes = {"ok"}
    UploadOutcomes = {"ok"}
    JobOutcomes = {"ok", "error"}
    LateWrite = {"lost"}
SPECIFICATION Spec
INVARIANT ClientSeesFailure
CHECK_DEADLOCK FALSE
