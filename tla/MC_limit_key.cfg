\* Clients 10.0.0.1 and 10.0.0.3 hash to one bucket and share the strcmp key.
CONSTANTS
    Clients = {"a", "b", "c"}
    AddrOf <- MCAddrOf
    HashBuckets = 2
    Hash <- MCHash
    Size = 128
    KeyMaxLen = 8
    NodeSize = 32
    BucketSize = 8
SPECIFICATION Spec
INVARIANT
    MeterPerClient
