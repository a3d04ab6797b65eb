------------------------------ MODULE LimitReq ------------------------------
(***************************************************************************)
(* The request-rate limiter of src/src/modules/phl_limit_req.c.            *)
(*                                                                         *)
(* conf_post lays the shared segment out: the hash bucket array, then the  *)
(* nodes, carved one at a time from used_pos up to nodes_end.  A node is   *)
(* named by its byte offset in the segment, so the carving arithmetic is   *)
(* kept.  Each node is on the LRU list (and in one hash bucket) or on the  *)
(* free list.  process_headers runs under the segment's process-shared     *)
(* mutex, so one request is one atomic step.                               *)
(*                                                                         *)
(* The key is the client's IPv4 address: 4 octets, hashed over all 4 but   *)
(* stored with strcpy and compared with strcmp, that is up to the first    *)
(* zero octet.  The meter (wuy_meter) is abstracted to whether it has      *)
(* expired; time passing is the action Tick.  libwuya is not in the        *)
(* repository: the list operations are taken as insert = at the head,     *)
(* append = at the tail, pop and first = the head, and the second delete   *)
(* of a popped node (line 84) as a no-op.                                  *)
(***************************************************************************)
EXTENDS Integers, Sequences, SequencesExt, FiniteSets

CONSTANTS
    Clients,        \* the connections' client addresses, as model values
    AddrOf,         \* [Clients -> octet sequences of length 4]: sin_addr
    HashBuckets,    \* conf->hash_buckets
    Hash(_),        \* wuy_vhash64 over the key's len bytes
    Size,           \* conf->size, the shared segment's size in bytes
    KeyMaxLen,      \* conf->key_max_len
    NodeSize,       \* sizeof(struct phl_limit_req_node)
    BucketSize      \* sizeof(wuy_nop_hlist_t)

ASSUME
    /\ HashBuckets \in Nat \ {0}
    /\ \A c \in Clients : Hash(AddrOf[c]) \in Nat
    /\ {Size, KeyMaxLen, NodeSize, BucketSize} \subseteq Nat \ {0}

VARIABLES
    usedPos,    \* shared->used_pos, a byte offset
    lru,        \* shared->lru_list, head first
    free,       \* shared->free_list, head first
    bucket,     \* shared->hash_buckets[], as the set of nodes on each
    key,        \* node->key: the string strcpy stored
    expired,    \* wuy_meter_is_expired(node->meter)
    owners      \* auxiliary: the clients whose requests the node's meter
                \* has counted since its wuy_meter_init

vars == <<usedPos, lru, free, bucket, key, expired, owners>>

Buckets == 0 .. HashBuckets - 1

(* conf_post, lines 178-184: the first node's offset and the last offset at *)
(* which carving may start.                                                 *)
FirstNode == BucketSize * HashBuckets
NodesEnd == Size - (NodeSize + KeyMaxLen)
ConfOK == NodesEnd > FirstNode

(* alloc_node, lines 75-77: the step from one carved node to the next.      *)
Stride == NodeSize + KeyMaxLen

(* Every offset carving can reach: the nodes.                               *)
NodeIds == {FirstNode + k * Stride : k \in 0 .. (Size \div Stride)} \cap
           {p \in Nat : p < NodesEnd}

(* The string strcpy/strcmp see: the octets up to the first zero.  A       *)
(* sockaddr_in's sin_zero follows sin_addr, so a key without a zero octet  *)
(* ends there.                                                              *)
CStr(k) ==
    LET z == SelectInSeq(k, LAMBDA o : o = 0)
    IN  IF z = 0 THEN k ELSE SubSeq(k, 1, z - 1)

Keys == {CStr(AddrOf[c]) : c \in Clients}
NoKey == <<>>

Init ==
    /\ ConfOK
    /\ usedPos = FirstNode
    /\ lru = <<>>
    /\ free = <<>>
    /\ bucket = [b \in Buckets |-> {}]
    /\ key = [n \in NodeIds |-> NoKey]
    /\ expired = [n \in NodeIds |-> FALSE]
    /\ owners = [n \in NodeIds |-> {}]

(* Removes a node from whichever hash bucket it is on (hlist_delete).       *)
Unhash(bk, n) == [b \in Buckets |-> bk[b] \ {n}]

(* Mutant of Expire: the node is moved to the free list but left hashed.   *)
RECURSIVE ExpireKeepHash(_)
ExpireKeepHash(t) ==
    IF t.lru # <<>> /\ expired[Head(t.lru)]
    THEN ExpireKeepHash([t EXCEPT !.lru = Tail(t.lru),
                                  !.free = Append(t.free, Head(t.lru))])
    ELSE t

(* phl_limit_req_expire, lines 45-59, over the record of the table: from  *)
(* the first LRU node on, while its meter has expired, unhash it, delete   *)
(* it from the LRU list and append it to the free list.                     *)
RECURSIVE Expire(_)
Expire(t) ==
    IF t.lru # <<>> /\ expired[Head(t.lru)]
    THEN Expire([t EXCEPT !.bucket = Unhash(t.bucket, Head(t.lru)),
                          !.lru = Tail(t.lru),
                          !.free = Append(t.free, Head(t.lru))])
    ELSE t

(* Mutant of AllocNode: carving steps over the node but not its key.     *)
AllocNodeNoKeySpace(t0) ==
    LET t == Expire(t0) IN
    CASE t.free # <<>> ->
            [t EXCEPT !.node = Head(t.free), !.free = Tail(t.free)]
      [] t.usedPos < NodesEnd ->
            [t EXCEPT !.node = t.usedPos, !.usedPos = t.usedPos + NodeSize]
      [] OTHER ->
            [t EXCEPT !.node = Head(t.lru), !.lru = Tail(t.lru),
                      !.bucket = Unhash(t.bucket, Head(t.lru))]

(* Mutant of AllocNode: the LRU list is evicted before new nodes are      *)
(* carved.                                                                  *)
AllocNodeEvictFirst(t0) ==
    LET t == Expire(t0) IN
    CASE t.free # <<>> ->
            [t EXCEPT !.node = Head(t.free), !.free = Tail(t.free)]
      [] t.lru # <<>> ->
            [t EXCEPT !.node = Head(t.lru), !.lru = Tail(t.lru),
                      !.bucket = Unhash(t.bucket, Head(t.lru))]
      [] OTHER ->
            [t EXCEPT !.node = t.usedPos, !.usedPos = t.usedPos + Stride]

(* phl_limit_req_alloc_node, lines 61-86: expire, then reuse a free node,  *)
(* else carve a new one, else evict the LRU list's first node.  The result *)
(* is the table with .node the node handed out.                             *)
AllocNode(t0) ==
    LET t == Expire(t0) IN
    CASE t.free # <<>> ->
            [t EXCEPT !.node = Head(t.free), !.free = Tail(t.free)]
      [] t.usedPos < NodesEnd ->
            [t EXCEPT !.node = t.usedPos, !.usedPos = t.usedPos + Stride]
      [] OTHER ->
            [t EXCEPT !.node = Head(t.lru), !.lru = Tail(t.lru),
                      !.bucket = Unhash(t.bucket, Head(t.lru))]

Table == [usedPos |-> usedPos, lru |-> lru, free |-> free,
          bucket |-> bucket, node |-> NoKey]

(* process_headers, lines 88-154, for a request of client c.  The key is   *)
(* sin_addr with len 4 (lines 108-109), refused when len >= key_max_len    *)
(* (lines 112-115, no state changes).  Under the lock the bucket of the    *)
(* key's hash is searched with strcmp; a miss allocates a node, strcpy's   *)
(* the key in, initialises the meter and inserts the node in the bucket   *)
(* and at the LRU list's head; a hit runs wuy_meter_check, which may       *)
(* refuse the request (503), and leaves the node where it is.  The         *)
(* statistics counters only feed logging and are left out.                 *)
Request(c) ==
    LET k == AddrOf[c]
        b == Hash(k) % HashBuckets
        hit == {n \in bucket[b] : key[n] = CStr(k)}
    IN
    /\ Len(k) < KeyMaxLen
    /\ \/ /\ hit = {}
          /\ LET t == AllocNode(Table)
                 n == t.node
             IN /\ usedPos' = t.usedPos
                /\ free' = t.free
                /\ lru' = Cons(n, t.lru)
                /\ bucket' = [t.bucket EXCEPT ![b] = @ \cup {n}]
                /\ key' = [key EXCEPT ![n] = CStr(k)]
                /\ expired' = [expired EXCEPT ![n] = FALSE]
                /\ owners' = [owners EXCEPT ![n] = {c}]
       \/ \E n \in hit :
          /\ expired' = [expired EXCEPT ![n] = FALSE]
          /\ owners' = [owners EXCEPT ![n] = @ \cup {c}]
          /\ UNCHANGED <<usedPos, lru, free, bucket, key>>

(* Time passes over a node's meter until wuy_meter_is_expired holds.       *)
Tick(n) ==
    /\ n \in ToSet(lru)
    /\ ~expired[n]
    /\ expired' = [expired EXCEPT ![n] = TRUE]
    /\ UNCHANGED <<usedPos, lru, free, bucket, key, owners>>

Next ==
    \/ \E c \in Clients : Request(c)
    \/ \E n \in NodeIds : Tick(n)

Spec == Init /\ [][Next]_vars

-----------------------------------------------------------------------------
(* The nodes carved so far.                                                *)
Carved == {n \in NodeIds : n < usedPos}

TypeOK ==
    /\ usedPos \in {FirstNode + k * Stride : k \in 0 .. Cardinality(NodeIds)}
    /\ lru \in Seq(NodeIds) /\ free \in Seq(NodeIds)
    /\ bucket \in [Buckets -> SUBSET NodeIds]
    /\ key \in [NodeIds -> Keys \cup {NoKey}]
    /\ expired \in [NodeIds -> BOOLEAN]
    /\ owners \in [NodeIds -> SUBSET Clients]

(* The table expire and alloc_node keep: every carved node is on exactly   *)
(* one of the LRU and free lists, once; the hashed nodes are exactly the   *)
(* LRU nodes, each in one bucket; and no two nodes of a bucket hold the    *)
(* same key, so the strcmp search finds at most one.  A node hashed while  *)
(* free would be handed out again by alloc_node while a lookup still       *)
(* finds it.                                                                *)
TableConsistent ==
    /\ IsInjective(lru) /\ IsInjective(free)
    /\ ToSet(lru) \cap ToSet(free) = {}
    /\ ToSet(lru) \cup ToSet(free) = Carved
    /\ UNION {bucket[b] : b \in Buckets} = ToSet(lru)
    /\ \A b1, b2 \in Buckets : b1 # b2 => bucket[b1] \cap bucket[b2] = {}
    /\ \A b \in Buckets : \A n, m \in bucket[b] : n # m => key[n] # key[m]

(* The identity a lookup goes by: the bucket of the key's hash and the    *)
(* string strcmp compares (lines 118-127).                                  *)
LookupKey(c) == <<Hash(AddrOf[c]) % HashBuckets, CStr(AddrOf[c])>>
NodeKey(n) == <<CHOOSE b \in Buckets : n \in bucket[b], key[n]>>

Meters == INSTANCE LimitMap WITH
    Keys <- {LookupKey(c) : c \in Clients},
    Cap <- Cardinality(NodeIds),
    tracked <- {NodeKey(n) : n \in ToSet(lru)},
    stale <- [k \in {LookupKey(c) : c \in Clients} |->
                \E n \in ToSet(lru) : NodeKey(n) = k /\ expired[n]]

(* The table implements a bounded map from lookup keys to meters: a key   *)
(* that is looked up again finds its meter, and a meter is dropped only   *)
(* when it has expired (expire) or when every node is in use and it is the *)
(* one alloc_node evicts.                                                   *)
RefinesLimitMap == Meters!Spec

(* A meter limits one client: the requests a node's meter counts all come *)
(* from one client address.                                                 *)
MeterPerClient ==
    \A n \in NodeIds : Cardinality(owners[n]) <= 1
=============================================================================
