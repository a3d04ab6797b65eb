\* One resolvable hostname under either strategy, two requests and two file
\* descriptors: the pool, retry (and the hash "all down" reset) and merge
\* under the benign overrun outcome.
CONSTANTS
    NumHosts = 1
    StaticHosts = {}
    Endpoints = {1, 2}
    StartAnswer <- MCStartOne
    Answers <- MCAnswersNonEmpty
    OverrunOutcomes = {"finish"}
    AddrIds = {1, 2, 3, 4}
    ConnIds = {1, 2}
    Reqs = {r1, r2}
    IdleMax = 1
    Fails = 1
    LbKinds = {"roundrobin", "hash"}
    NULL = NULL
SPECIFICATION PoolFairSpec
INVARIANTS
    TypeOK
    PoolConsistent
    DeferredFree
    RegistrySorted
    NoAddressLeftDown
    BalancerMatchesRegistry
PROPERTIES
    MergeKeepsIdentity
    RetryAvoidsFailedAddress
    DeletedAddressFreed
    RefinesAddressRegistry
