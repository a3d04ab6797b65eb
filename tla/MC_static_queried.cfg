\* spec 4.1: the scan skips static entries and stops at the end of hostnames[].
CONSTANTS
    NumHosts = 2
    StaticHosts = {1}
    Endpoints = {1, 2}
    StartAnswer <- MCStartStaticDyn
    Answers <- MCAnswersNonEmpty
    OverrunOutcomes = {"finish"}
    AddrIds = {1, 2, 3, 4, 5}
    ConnIds = {1}
    Reqs = {r1}
    IdleMax = 1
    Fails = 1
    LbKinds = {"roundrobin"}
    NULL = NULL
SPECIFICATION Spec
INVARIANT OnlyResolvableQueried
