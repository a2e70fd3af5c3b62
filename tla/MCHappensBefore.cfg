\* One StartBuild and one SignalBuild goroutine for a build ID, each calling
\* twice in a row (the key is reused for later pairs, spec §4.4), and a
\* second Happen goroutine running concurrently with the first.
CONSTANTS
    Happeners = {h1, h2}
    Beforers = {b1}
    Rounds = 2

SPECIFICATION Spec

\* Every goroutine stops after Rounds calls; a Before left without a Happen
\* blocks for good.
CHECK_DEADLOCK FALSE

INVARIANT
    NeverPanics

PROPERTY
    Pairing
