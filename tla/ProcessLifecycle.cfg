\* One request, one shadow verdict and one control request, a channel of one,
\* batches of up to two, a sink that may fail, a worker with one loop that may fail
\* and one that may not.
CONSTANTS
    r = r
    s = s
    Events = {r, s}
    Shadows = {s}
    q = q
    Queries = {q}
    Loops = {"retention", "audit"}
    Capacity = 1
    BatchSize = 2
    MarkUnhealthyDrop = TRUE
    SpoolFails = TRUE
SPECIFICATION FairLifecycle
INVARIANTS
    Accounted
    FailureShows
    UsersGoneBeforeClose
    CleanStopDrains
PROPERTIES
    QueuedIsFlushed
    ServeReturns
    GateRecovers
CHECK_DEADLOCK FALSE
