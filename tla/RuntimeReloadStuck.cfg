\* A transient error, after which nothing fails and nothing changes.
CONSTANTS
    e1 = e1
    e2 = e2
    a1 = a1
    a2 = a2
    gateway = gateway
    Edits = {e1}
    ScopedEdits = {}
    Activations = {a1}
    MaxGeneration = 0
    Watchers = {gateway}
    BadEdits = {}
    MaxCrashes = 0
SPECIFICATION FairSpec
PROPERTY
    ReadinessRecovers
CHECK_DEADLOCK FALSE
