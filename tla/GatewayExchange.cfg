\* One request on every kind of route, with every key and every outcome.
CONSTANTS
    r1 = r1
    c1 = c1
    c2 = c2
    c3 = c3
    c4 = c4
    nokey = nokey
    badkey = badkey
    Requests = {r1}
    Clients = {c1, c2, c3, c4}
    Routes = {"chat", "open", "dark", "bare", "lost", "none"}
    Revisions = {1}
    Config <- MCConfig
    NoKey = nokey
    BadKey = badkey
    MaxServers = 1
    MaxNow = 0
    Decisions <- AllDecisions
    UpstreamStatuses = {200, 202, 429}
    Outcomes <- AllOutcomes
SPECIFICATION FairSpec
INVARIANTS
    TypeOK
    AnswerRecorded
    CrossingIsRecorded
PROPERTY
    ReservationReleased
CHECK_DEADLOCK FALSE
