\* Two containers with the same pid and a spool with one place for two records:
\* rejected appends, and claims that turn stale.
CONSTANTS
    s1 = s1
    s2 = s2
    Spools = {s1, s2}
    Pid <- SharedPid
    MaxRecords = 2
    MaxBytes = 1
    MaxAge = 0
    ClaimTimeout = 1
    BatchSize = 1
    SeqMod = 1
    AgeCap = 1
    MaxOverflow = 3
SPECIFICATION Spec
SYMMETRY SpoolSymmetry
INVARIANT
    YoungClaimExclusive
PROPERTIES
    AppendWithinLimit
    OverflowCountSound
CHECK_DEADLOCK FALSE
