\* Two requests on one name with every get_conf() result but 404, error caching and idle timers.
CONSTANTS
    Reqs = {r1, r2}
    Names = {n1}
    SubIds = {1, 2}
    NameBlocking = FALSE
    ConfResults = {"again", "200", "500", "invalid"}
    CheckOn = FALSE
    IdleOn = TRUE
    NULL = NULL
SPECIFICATION FairSpec
INVARIANTS
    TypeOK
    NoLostWaiter
PROPERTIES
    WaiterEventuallyRuns
