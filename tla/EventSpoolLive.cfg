\* One replay worker, two records that never expire, batches of one: the
\* second record waits behind the first.
CONSTANTS
    s1 = s1
    s2 = s2
    Spools = {s1}
    Pid <- OwnPid
    MaxRecords = 2
    MaxBytes = 2
    MaxAge = 0
    ClaimTimeout = 1
    BatchSize = 1
    SeqMod = 2
    AgeCap = 1
    MaxOverflow = 0
SPECIFICATION FairSpec
PROPERTIES
    EventuallyDelivered
CHECK_DEADLOCK FALSE
