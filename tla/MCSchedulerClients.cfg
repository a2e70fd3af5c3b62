\* Two jobs, two workers, two result values; seven calls are enough for one
\* job to be reported five times, one more than the location ring holds.
CONSTANTS
    Jobs = {j1, j2}
    Workers = {w1, w2}
    Results = {ok, failed}
    NoResult = NoResult
    MaxLocations = 4
    MaxCalls = 7

SPECIFICATION Spec

\* The driver makes MaxCalls calls and then stops calling.
CHECK_DEADLOCK FALSE

INVARIANTS
    TypeOK
    DispatchedAtMostOnce
    LocationsAreLatest
