\* Four clients (three keys), two buckets, and a segment with room for two nodes (offsets
\* 16 and 56): a third client evicts, and an expired meter is reclaimed to the
\* free list and reused.
CONSTANTS
    Clients = {"a", "b", "c", "d"}
    AddrOf <- MCAddrOf
    HashBuckets = 2
    Hash <- MCHash
    Size = 128
    KeyMaxLen = 8
    NodeSize = 32
    BucketSize = 8
SPECIFICATION Spec
INVARIANTS
    TypeOK
    TableConsistent
PROPERTY
    RefinesLimitMap
