\* Two containers with the same pid on one directory, batches of up to two.
CONSTANTS
    s1 = s1
    s2 = s2
    Spools = {s1, s2}
    Pid <- SharedPid
    MaxRecords = 2
    MaxBytes = 2
    MaxAge = 2
    ClaimTimeout = 1
    BatchSize = 2
    SeqMod = 2
    AgeCap = 2
    MaxOverflow = 0
SPECIFICATION Spec
SYMMETRY SpoolSymmetry
INVARIANT
    NothingLost
PROPERTIES
    ImplementsQueue
CHECK_DEADLOCK FALSE
