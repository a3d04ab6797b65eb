\* spec 4.1/4.2 and 7: a deleted address is removed only at the end of the
\* cycle, and a cycle that yields no address keeps the prior addresses and
\* balancer. The code frees an address in connection_close() while it is still
\* on its hostname list, and an all-empty cycle frees the deleted addresses but
\* skips loadbalance->update().
CONSTANTS
    NumHosts = 2
    StaticHosts = {}
    Endpoints = {1, 2}
    StartAnswer <- MCStartTwo
    Answers <- MCAnswersAll
    OverrunOutcomes = {"finish"}
    AddrIds = {1, 2, 3, 4, 5}
    ConnIds = {1}
    Reqs = {r1}
    IdleMax = 1
    Fails = 1
    LbKinds = {"roundrobin"}
    NULL = NULL
SPECIFICATION Spec
INVARIANT ReferencedAddressesAllocated
