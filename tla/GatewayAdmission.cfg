\* Three requests of one client, two allowed in a window and two at once,
\* a reload and a configuration that is not compiled yet.
CONSTANTS
    r1 = r1
    r2 = r2
    r3 = r3
    c1 = c1
    nokey = nokey
    badkey = badkey
    MCLimit = 2
    MCRate = 2
    Requests = {r1, r2, r3}
    Clients = {c1}
    Routes = {"chat"}
    Revisions = {0, 1, 2}
    Config <- MCConfig
    NoKey = nokey
    BadKey = badkey
    MaxServers = 3
    MaxNow = 2
SPECIFICATION AdmissionSpec
INVARIANTS
    ReservationsWithinLimit
    RateWithinWindow
SYMMETRY Symmetric
CHECK_DEADLOCK FALSE
