\* Three jobs: j1 and j2 share dep a1 and source f1, neither cached, and
\* both link a source at path p1 (a2 and f2 are cached already); j3 is
\* answered from jobResultCache. Commands may succeed or fail to start;
\* peers download any committed artifact meanwhile.
CONSTANTS
    j1 = j1
    j2 = j2
    j3 = j3
    a1 = a1
    a2 = a2
    f1 = f1
    f2 = f2
    p1 = p1
    p2 = p2
    Jobs = {j1, j2, j3}
    Arts = {a1, a2}
    Files = {f1, f2}
    Paths = {p1, p2}
    InitArts = {a2}
    InitFiles = {f2}
    CachedResults = {j3}
    CmdOutcomes = {"ok", "spawn"}
    NoFile = NoFile
    Deps <- MCDeps
    Srcs <- MCSrcs
    SrcPath <- MCSrcPath

SPECIFICATION Spec
INVARIANT CommitMatchesResult
PROPERTY AllReported
