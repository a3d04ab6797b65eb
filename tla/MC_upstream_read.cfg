\* One connection: a two-byte request (so a write can be short), a four-byte answer, and buffers of
\* one to three bytes, so that a preread buffer can be longer than, equal
\* to or shorter than the next read (spec 4.4 scenario 5, scaled down).
\* A connection ends when it is destroyed or fully read: no deadlock check.
CONSTANTS
    StreamLen = 4
    ReqLen = 2
    BufLens = {1, 2, 3}
SPECIFICATION Spec
CHECK_DEADLOCK FALSE
INVARIANTS
    TypeOK
    StreamIntact
PROPERTIES
    RefinesByteStream
