\* One watcher, operators whose requests overlap, one edit that does not compile.
CONSTANTS
    e1 = e1
    e2 = e2
    a1 = a1
    a2 = a2
    gateway = gateway
    Edits = {e1, e2}
    ScopedEdits = {}
    Activations = {a1}
    MaxGeneration = 1
    Watchers = {gateway}
    BadEdits = {e2}
    MaxCrashes = 1
SPECIFICATION FairSpec
INVARIANTS
    TokenTellsStale
    NoMissedWakeup
PROPERTIES
    ServesActive
CHECK_DEADLOCK FALSE
