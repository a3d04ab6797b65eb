\* Two resolvable hostnames, no descriptor left for upstream connections
\* (every connect fails), both outcomes of the read past hostnames[]: the
\* resolve cycle, the merge and the balancer rebuild across entries.
CONSTANTS
    NumHosts = 2
    StaticHosts = {}
    Endpoints = {1, 2}
    StartAnswer <- MCStartTwo
    Answers <- MCAnswersNonEmpty
    OverrunOutcomes = {"finish", "garbage_query"}
    AddrIds = {1, 2, 3, 4}
    ConnIds = {}
    Reqs = {r1}
    IdleMax = 1
    Fails = 1
    LbKinds = {"roundrobin"}
    NULL = NULL
SPECIFICATION Spec
INVARIANTS
    RegistrySorted
    BalancerMatchesRegistry
PROPERTIES
    MergeKeepsIdentity
    RefinesAddressRegistry
