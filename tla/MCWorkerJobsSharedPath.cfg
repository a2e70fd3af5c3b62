\* Two jobs on one worker with their own deps and sources, both sources
\* at logical path p1; everything cached; commands succeed.
CONSTANTS
    j1 = j1
    j2 = j2
    j3 = j3
    a1 = a1
    a2 = a2
    f1 = f1
    f2 = f2
    p1 = p1
    p2 = p2
    NoFile = NoFile
    Jobs = {j1, j2}
    Arts = {a1, a2}
    Files = {f1, f2}
    Paths = {p1, p2}
    CachedResults = {}
    InitArts = {a1, a2}
    InitFiles = {f1, f2}
    CmdOutcomes = {"ok"}
    Deps <- MCDepsTwo
    Srcs <- MCSrcsTwo
    SrcPath <- MCSrcPathShared

SPECIFICATION Spec
INVARIANT CommandsSeeOwnSources
