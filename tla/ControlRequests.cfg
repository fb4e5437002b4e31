\* Two edits and two activations, and client requests about one client: two
\* creates, a patch and a revocation.
CONSTANTS
    e1 = e1
    e2 = e2
    a1 = a1
    a2 = a2
    Edits = {e1, e2}
    ScopedEdits = {e1}
    Activations = {a1, a2}
    MaxGeneration = 3
    Ids = {"id"}
    Names = {"n1", "n2"}
    Calls = {"c1", "c2", "p", "v"}
    Operation <- MCOperation
    Client <- MCClient
SPECIFICATION ControlSpec
INVARIANTS
    ActiveExists
    EditsKept
    RevokedForever
    CreatedKeyWorks
PROPERTIES
    TokenAdvances
    ClientsImplementMemory
CHECK_DEADLOCK FALSE
