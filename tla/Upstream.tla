------------------------------ MODULE Upstream ------------------------------
(***************************************************************************)
(* One upstream of h2d_upstream.c inside one worker process: the address  *)
(* registry (hostname lists of addresses, deletion marks, deferred free), *)
(* the per-address connection pool (idle list, active list, idle_num),    *)
(* the resolve cycle driven by the resolver stream, the retry path and    *)
(* the load balancer snapshot that pick() reads.                          *)
(*                                                                         *)
(* Memory is an arena: an address or connection is a slot.  Freeing an    *)
(* address leaves its slot readable ("freed") until calloc reuses it, so  *)
(* a pointer kept after free() is visible as a reference to a freed slot. *)
(***************************************************************************)
EXTENDS Naturals, Sequences, FiniteSets, SequencesExt

CONSTANTS
    NumHosts,       \* length of conf->hostnames[] (terminator not counted)
    StaticHosts,    \* entries given as literal addresses (need_resolved = false)
    Endpoints,      \* canonical endpoint keys; < is wuy_sockaddr_addrcmp()
    StartAnswer,    \* endpoints of each entry when h2d_upstream_conf_post() ran
    Answers,        \* endpoint sets the resolver may return for one query
    OverrunOutcomes,\* what the read past hostnames[] yields (see DoResolve)
    AddrIds,        \* address slots
    ConnIds,        \* connection slots (file descriptors)
    Reqs,           \* requests that use this upstream
    IdleMax,        \* conf->idle_max
    Fails,          \* conf->fails
    LbKinds,        \* strategies the upstream may be configured with
    NULL

Hosts == 1..NumHosts

ASSUME
    /\ NumHosts \in Nat \ {0}
    /\ StaticHosts \subseteq Hosts
    /\ Endpoints \subseteq Nat \ {0}
    /\ StartAnswer \in [Hosts -> SUBSET Endpoints]
    /\ \A h \in StaticHosts : Cardinality(StartAnswer[h]) = 1
    /\ Answers \subseteq SUBSET Endpoints
    /\ OverrunOutcomes \subseteq {"finish", "garbage_query"}
    /\ Fails \in Nat \ {0}
    /\ IdleMax \in Nat
    /\ LbKinds \subseteq {"roundrobin", "hash"} /\ LbKinds # {}
    \* enough slots: every hostname list, plus the unlinked addresses kept
    \* alive by a connection
    /\ Cardinality(AddrIds) >= NumHosts * Cardinality(Endpoints) + Cardinality(ConnIds)

VARIABLES
    addr,           \* slot -> struct h2d_upstream_address
    conn,           \* slot -> struct h2d_upstream_connection
    reqConn,        \* the connection each request holds (NULL if none)
    hostList,       \* hostname -> its address_head list, in list order
    lb,             \* the addresses loadbalance->update() last saw
    resolveIndex,   \* upstream->resolve_index
    resolveUpdated, \* upstream->resolve_updated
    lbKind          \* the configured strategy (loadbalance), fixed at conf_post

vars == <<addr, conn, reqConn, hostList, lb, resolveIndex, resolveUpdated, lbKind>>

-----------------------------------------------------------------------------
(* Records and helpers *)

\* struct h2d_upstream_address; fails follows its use in retry (lines 326-334),
\* as the header's struct does not declare it.
AddressRec ==
    [alloc: {"none", "live", "freed"}, host: 0..NumHosts, ep: Endpoints \cup {0},
     deleted: BOOLEAN, fails: 0..Fails,
     idle: Seq(ConnIds), active: SUBSET ConnIds, idleNum: Int]

NoAddress ==
    [alloc |-> "none", host |-> 0, ep |-> 0, deleted |-> FALSE, fails |-> 0,
     idle |-> <<>>, active |-> {}, idleNum |-> 0]

\* calloc() + h2d_upstream_address_add(): fresh lists, counters zero
NewAddress(h, e) ==
    [NoAddress EXCEPT !.alloc = "live", !.host = h, !.ep = e]

NoConn == [used |-> FALSE, addr |-> NULL, req |-> NULL]

NeedResolved(h) == h \notin StaticHosts

\* resolve_last != 0: some entry is a hostname and resolve_interval > 0
ResolveEnabled == \E h \in Hosts : NeedResolved(h)

\* the upstream's address_head: an address is on it iff it is on a
\* hostname list (both nodes are added and deleted together)
LinkedIn(hl) == UNION {ToSet(hl[h]) : h \in Hosts}
Linked == LinkedIn(hostList)

SortedEps(E) == SetToSortSeq(E, <)

\* h2d_upstream_address_is_down()
IsDown(x) == x.fails >= Fails

-----------------------------------------------------------------------------
(* Initial state: h2d_upstream_conf_post() in the master *)

RECURSIVE Offset(_)
Offset(h) == IF h = 1 THEN 0 ELSE Offset(h - 1) + Cardinality(StartAnswer[h - 1])

InitList(h) == [i \in 1..Cardinality(StartAnswer[h]) |-> Offset(h) + i]

InitAddr ==
    [a \in AddrIds |->
        IF \E h \in Hosts : a \in ToSet(InitList(h))
        THEN LET h == CHOOSE g \in Hosts : a \in ToSet(InitList(g))
             IN  NewAddress(h, SortedEps(StartAnswer[h])[a - Offset(h)])
        ELSE NoAddress]

ASSUME \E h \in Hosts : StartAnswer[h] # {}   \* else "no address for upstream"
ASSUME Offset(NumHosts) + Cardinality(StartAnswer[NumHosts]) <= Cardinality(AddrIds)
ASSUME AddrIds = 1..Cardinality(AddrIds)

Init ==
    /\ addr = InitAddr
    /\ conn = [c \in ConnIds |-> NoConn]
    /\ reqConn = [r \in Reqs |-> NULL]
    /\ hostList = [h \in Hosts |-> InitList(h)]
    /\ lb = LinkedIn([h \in Hosts |-> InitList(h)])
    /\ resolveIndex = 0
    /\ resolveUpdated = FALSE
    /\ lbKind \in LbKinds

-----------------------------------------------------------------------------
(***************************************************************************)
(* The synchronous call chain of one event-loop callback is a function of *)
(* a record st = [addr, conn, ri, got] (ri = resolve_index, got = the     *)
(* connection returned to the caller); nondeterministic calls return the  *)
(* set of their possible results.                                         *)
(***************************************************************************)

Pool == [addr |-> addr, conn |-> conn, ri |-> resolveIndex, got |-> NULL]

Commit(st) ==
    /\ addr' = st.addr
    /\ conn' = st.conn
    /\ resolveIndex' = st.ri

FreeConns(st) == {c \in ConnIds : ~st.conn[c].used}

\* the descriptor a new connection gets; none left means connect() fails
NextFd(st) == IF FreeConns(st) = {} THEN {} ELSE {CHOOSE c \in FreeConns(st) : TRUE}

\* mutant: idle_num is not decremented when an idle connection closes
CloseKeepIdleNum(st, c) ==
    LET a == st.conn[c].addr
        x == st.addr[a]
        x1 == [x EXCEPT !.idle = SelectSeq(@, LAMBDA y : y # c), !.active = @ \ {c}]
    IN  [st EXCEPT !.addr[a] = IF x1.deleted /\ x1.idle = <<>> /\ x1.active = {}
                               THEN [x1 EXCEPT !.alloc = "freed"] ELSE x1,
                   !.conn[c] = NoConn]

\* mutant: the address is freed when either list is empty (|| for &&)
CloseFreeEither(st, c) ==
    LET a == st.conn[c].addr
        x == st.addr[a]
        x1 == [x EXCEPT !.idle = SelectSeq(@, LAMBDA y : y # c), !.active = @ \ {c},
                        !.idleNum = IF st.conn[c].req = NULL THEN @ - 1 ELSE @]
    IN  [st EXCEPT !.addr[a] = IF x1.deleted /\ (x1.idle = <<>> \/ x1.active = {})
                               THEN [x1 EXCEPT !.alloc = "freed"] ELSE x1,
                   !.conn[c] = NoConn]

\* h2d_upstream_connection_close(): unlink from its list, idle_num-- if it
\* was idle, and free the address if it is deleted and both lists are empty
\* (h2d_upstream_address_free); the address stays on its hostname list.
Close(st, c) ==
    LET a  == st.conn[c].addr
        x  == st.addr[a]
        x1 == [x EXCEPT !.idle = SelectSeq(@, LAMBDA y : y # c),
                        !.active = @ \ {c},
                        !.idleNum = IF st.conn[c].req = NULL THEN @ - 1 ELSE @]
        x2 == IF x1.deleted /\ x1.idle = <<>> /\ x1.active = {}
              THEN [x1 EXCEPT !.alloc = "freed"] ELSE x1
    IN  [st EXCEPT !.addr[a] = x2, !.conn[c] = NoConn]

\* mutant: the "in processing already" check is dropped, do_resolve() runs
\* again while a query is in flight
TryResolveUnguarded(st) ==
    {st} \cup (IF ResolveEnabled THEN {[st EXCEPT !.ri = @ + 1]} ELSE {})

\* h2d_upstream_try_resolve(): if the interval has elapsed (time is not
\* modelled, so it may or may not have) and no cycle is in flight, start one:
\* h2d_upstream_do_resolve() from index 0 queries the first entry.
TryResolve(st) ==
    {st} \cup (IF ResolveEnabled /\ st.ri = 0 THEN {[st EXCEPT !.ri = 1]} ELSE {})

\* loadbalance->pick(): the round-robin strategy skips down addresses and
\* returns NULL when all are skipped; the hash strategy maps an opaque key
\* onto the snapshot, so any address of it may come back.
PickSet(st) ==
    IF lbKind = "roundrobin" THEN {a \in lb : ~IsDown(st.addr[a])} ELSE lb

\* "upstream all down!": the picked address is down, clear every address's
\* fails on the upstream's address list
ResetIfDown(st, a) ==
    IF IsDown(st.addr[a])
    THEN [st EXCEPT !.addr = [b \in AddrIds |->
                                IF b \in Linked THEN [st.addr[b] EXCEPT !.fails = 0]
                                ELSE st.addr[b]]]
    ELSE st

\* reuse the first idle connection, or connect a new one (which may fail)
ConnectTo(st, r, a) ==
    IF st.addr[a].idle # <<>>
    THEN LET c == Head(st.addr[a].idle)
         IN {[st EXCEPT !.addr[a].idle = Tail(@),
                        !.addr[a].active = @ \cup {c},
                        !.addr[a].idleNum = @ - 1,
                        !.conn[c].req = r,
                        !.got = c]}
    ELSE {[st EXCEPT !.got = NULL]}
         \cup {[st EXCEPT !.addr[a].active = @ \cup {c},
                          !.conn[c] = [used |-> TRUE, addr |-> a, req |-> r],
                          !.got = c] : c \in NextFd(st)}

\* h2d_upstream_get_connection(upstream, r)
GetConnection(st, r) ==
    UNION {IF PickSet(s1) = {}
           THEN {[s1 EXCEPT !.got = NULL]}
           ELSE UNION {ConnectTo(ResetIfDown(s1, a), r, a) : a \in PickSet(s1)}
           : s1 \in TryResolve(st)}

-----------------------------------------------------------------------------
(***************************************************************************)
(* Resolver: h2d_upstream_resolve_on_read() diffs the sorted answer with  *)
(* the sorted hostname list, then h2d_upstream_do_resolve() moves on.     *)
(***************************************************************************)

\* mutant: equal keys are not recognised (the comparator sees a field that
\* differs, e.g. the port), so every address is deleted and re-added
RECURSIVE DiffNoKeep(_, _, _)
DiffNoKeep(ad, old, eps) ==
    IF old = <<>> THEN [i \in 1..Len(eps) |-> [op |-> "add", id |-> 0, ep |-> eps[i]]]
    ELSE IF eps = <<>> THEN [i \in 1..Len(old) |-> [op |-> "del", id |-> old[i], ep |-> 0]]
    ELSE IF eps[1] <= ad[Head(old)].ep
         THEN <<[op |-> "add", id |-> 0, ep |-> eps[1]]>> \o DiffNoKeep(ad, old, Tail(eps))
         ELSE <<[op |-> "del", id |-> Head(old), ep |-> 0]>> \o DiffNoKeep(ad, Tail(old), eps)

\* mutant: a record that sorts before the current address is skipped, not
\* inserted
RECURSIVE DiffSkipAdd(_, _, _)
DiffSkipAdd(ad, old, eps) ==
    IF old = <<>> THEN [i \in 1..Len(eps) |-> [op |-> "add", id |-> 0, ep |-> eps[i]]]
    ELSE IF eps = <<>> THEN [i \in 1..Len(old) |-> [op |-> "del", id |-> old[i], ep |-> 0]]
    ELSE LET a == Head(old) IN
         IF eps[1] = ad[a].ep
         THEN <<[op |-> "keep", id |-> a, ep |-> 0]>> \o DiffSkipAdd(ad, Tail(old), Tail(eps))
         ELSE IF eps[1] < ad[a].ep
         THEN DiffSkipAdd(ad, old, Tail(eps))
         ELSE <<[op |-> "del", id |-> a, ep |-> 0]>> \o DiffSkipAdd(ad, Tail(old), eps)

\* The merge walk: one step per comparison of the record at p with the
\* address at node.  "add" inserts before node (or appends once the list is
\* exhausted), "del" marks node deleted, "keep" advances both.
RECURSIVE Diff(_, _, _)
Diff(ad, old, eps) ==
    IF old = <<>> THEN [i \in 1..Len(eps) |-> [op |-> "add", id |-> 0, ep |-> eps[i]]]
    ELSE IF eps = <<>> THEN [i \in 1..Len(old) |-> [op |-> "del", id |-> old[i], ep |-> 0]]
    ELSE LET a == Head(old) IN
         IF eps[1] = ad[a].ep
         THEN <<[op |-> "keep", id |-> a, ep |-> 0]>> \o Diff(ad, Tail(old), Tail(eps))
         ELSE IF eps[1] < ad[a].ep
         THEN <<[op |-> "add", id |-> 0, ep |-> eps[1]]>> \o Diff(ad, old, Tail(eps))
         ELSE <<[op |-> "del", id |-> a, ep |-> 0]>> \o Diff(ad, Tail(old), eps)

\* mutant: new addresses are appended to the list (wuy_list_append) instead
\* of inserted before the current node
MergeAppendNew(st, hl, upd, h, E) ==
    LET d     == Diff(st.addr, hl[h], SortedEps(E))
        fresh == SetToSortSeq({a \in AddrIds : st.addr[a].alloc # "live"}, <)
        olds  == SelectSeq(d, LAMBDA e : e.op # "add")
        adds  == SelectSeq(d, LAMBDA e : e.op = "add")
        dels  == {olds[i].id : i \in {k \in DOMAIN olds : olds[k].op = "del"}}
    IN [st  |-> [st EXCEPT !.addr =
                    [a \in AddrIds |->
                        IF \E i \in DOMAIN adds : fresh[i] = a
                        THEN NewAddress(h, adds[CHOOSE i \in DOMAIN adds : fresh[i] = a].ep)
                        ELSE IF a \in dels THEN [st.addr[a] EXCEPT !.deleted = TRUE]
                        ELSE st.addr[a]]],
        hl  |-> [hl EXCEPT ![h] = [i \in DOMAIN olds |-> olds[i].id]
                                  \o [i \in DOMAIN adds |-> fresh[i]]],
        upd |-> upd \/ \E i \in DOMAIN d : d[i].op # "keep"]

\* Apply a diff of hostname h: every "add" callocs a slot (the lowest one
\* not live), every "del" sets deleted; the list keeps every entry in walk
\* order, the deleted ones included.
Merge(st, hl, upd, h, E) ==
    LET d     == Diff(st.addr, hl[h], SortedEps(E))
        fresh == SetToSortSeq({a \in AddrIds : st.addr[a].alloc # "live"}, <)
        rank(i) == Cardinality({k \in 1..i : d[k].op = "add"})
        id(i) == IF d[i].op = "add" THEN fresh[rank(i)] ELSE d[i].id
        added == {i \in DOMAIN d : d[i].op = "add"}
        dels  == {d[i].id : i \in {k \in DOMAIN d : d[k].op = "del"}}
    IN [st  |-> [st EXCEPT !.addr =
                    [a \in AddrIds |->
                        IF \E i \in added : id(i) = a
                        THEN NewAddress(h, d[CHOOSE i \in added : id(i) = a].ep)
                        ELSE IF a \in dels THEN [st.addr[a] EXCEPT !.deleted = TRUE]
                        ELSE st.addr[a]]],
        hl  |-> [hl EXCEPT ![h] = [i \in DOMAIN d |-> id(i)]],
        upd |-> upd \/ \E i \in DOMAIN d : d[i].op # "keep"]

\* mutant: the deleted addresses are counted but not removed before
\* loadbalance->update()
FinishCycleNoPurge(m) ==
    /\ resolveIndex' = 0
    /\ conn' = m.st.conn
    /\ addr' = m.st.addr
    /\ hostList' = m.hl
    /\ IF ~m.upd THEN UNCHANGED <<lb, resolveUpdated>>
       ELSE /\ lb' = LinkedIn(m.hl)
            /\ resolveUpdated' = FALSE

\* The "finish resolve all hostnames" branch of h2d_upstream_do_resolve():
\* resolve_index = 0; if anything changed, h2d_upstream_address_delete() every
\* deleted address (unlink, free if no connection), count the rest, and
\* rebuild the balancer unless none is left.
FinishCycle(m) ==
    LET ad   == m.st.addr
        dels == {a \in LinkedIn(m.hl) : ad[a].deleted}
        hl1  == [h \in Hosts |-> SelectSeq(m.hl[h], LAMBDA a : ~ad[a].deleted)]
        ad1  == [a \in AddrIds |->
                    IF a \in dels /\ ad[a].idle = <<>> /\ ad[a].active = {}
                    THEN [ad[a] EXCEPT !.alloc = "freed"] ELSE ad[a]]
    IN  /\ resolveIndex' = 0
        /\ conn' = m.st.conn
        /\ IF ~m.upd
           THEN /\ addr' = ad
                /\ hostList' = m.hl
                /\ UNCHANGED <<lb, resolveUpdated>>
           ELSE /\ addr' = ad1
                /\ hostList' = hl1
                /\ IF LinkedIn(hl1) = {}     \* "no address. no update"
                   THEN UNCHANGED <<lb, resolveUpdated>>
                   ELSE /\ lb' = LinkedIn(hl1)
                        /\ resolveUpdated' = FALSE

\* The answer for the entry in flight (hostnames[resolve_index-1]).  After it
\* the scan of do_resolve() goes on at the next entry; every configured entry
\* has name != NULL and stops the scan (static ones included).  The
\* terminator has name == NULL and need_resolved == false, so it does not
\* stop the scan, which reads past the end of hostnames[]: either the bytes
\* there end it with name == NULL ("finish"), or they look like an entry
\* with a name and a query for it is sent ("garbage_query").
ResolverAnswer(E) ==
    /\ resolveIndex \in Hosts
    /\ LET h == resolveIndex
           m == Merge(Pool, hostList, resolveUpdated, h, E)
       IN  IF h < NumHosts
           THEN /\ Commit([m.st EXCEPT !.ri = h + 1])
                /\ hostList' = m.hl
                /\ resolveUpdated' = m.upd
                /\ UNCHANGED <<lb, reqConn>>
           ELSE \/ /\ "finish" \in OverrunOutcomes
                   /\ FinishCycle(m)
                   /\ UNCHANGED reqConn
                \/ /\ "garbage_query" \in OverrunOutcomes
                   /\ Commit([m.st EXCEPT !.ri = NumHosts + 2])
                   /\ hostList' = m.hl
                   /\ resolveUpdated' = m.upd
                   /\ UNCHANGED <<lb, reqConn>>

\* The answer to a query sent for bytes past hostnames[]: on_read takes
\* hostnames[resolve_index-1] out of bounds and walks its address_head;
\* the worker dies and the master forks a new one with the configured state.
WorkerCrash ==
    /\ resolveIndex > NumHosts
    /\ addr' = InitAddr
    /\ conn' = [c \in ConnIds |-> NoConn]
    /\ reqConn' = [r \in Reqs |-> NULL]
    /\ hostList' = [h \in Hosts |-> InitList(h)]
    /\ lb' = LinkedIn([h \in Hosts |-> InitList(h)])
    /\ resolveIndex' = 0
    /\ resolveUpdated' = FALSE

-----------------------------------------------------------------------------
(* Request-side operations *)

\* the proxy asks for a connection: h2d_upstream_get_connection()
Acquire(r) ==
    /\ reqConn[r] = NULL
    /\ \E st \in GetConnection(Pool, r) :
          /\ Commit(st)
          /\ reqConn' = [reqConn EXCEPT ![r] = st.got]
    /\ UNCHANGED <<hostList, lb, resolveUpdated>>

\* h2d_upstream_release_connection() when the stream is closed or the
\* request did not end in H2D_REQUEST_STATE_DONE
ReleaseClose(r) ==
    /\ reqConn[r] # NULL
    /\ Commit(Close(Pool, reqConn[r]))
    /\ reqConn' = [reqConn EXCEPT ![r] = NULL]
    /\ UNCHANGED <<hostList, lb, resolveUpdated>>

\* h2d_upstream_release_connection() of a good connection: evict the oldest
\* idle one if idle_num > idle_max, then move it to the idle list's tail
ReleaseIdle(r) ==
    /\ reqConn[r] # NULL
    /\ LET c   == reqConn[r]
           a   == conn[c].addr
           st1 == IF addr[a].idleNum > IdleMax
                  THEN Close(Pool, Head(addr[a].idle)) ELSE Pool
       IN  Commit([st1 EXCEPT !.conn[c].req = NULL,
                              !.addr[a].idleNum = @ + 1,
                              !.addr[a].active = @ \ {c},
                              !.addr[a].idle = Append(SelectSeq(@, LAMBDA y : y # c), c)])
    /\ reqConn' = [reqConn EXCEPT ![r] = NULL]
    /\ UNCHANGED <<hostList, lb, resolveUpdated>>

\* mutant: the address is marked down only after the new pick
RetryMarkAfter(r) ==
    /\ reqConn[r] # NULL
    /\ LET c == reqConn[r]
           a == conn[c].addr
       IN  \E st1 \in GetConnection(Pool, r) :
              /\ Commit(Close(st1, c))
              /\ reqConn' = [reqConn EXCEPT ![r] = st1.got]
    /\ UNCHANGED <<hostList, lb, resolveUpdated>>

\* mutant: the saved fails value is never put back
RetryNoRestore(r) ==
    /\ reqConn[r] # NULL
    /\ LET c == reqConn[r]
           a == conn[c].addr
       IN  \E st1 \in GetConnection([Pool EXCEPT !.addr[a].fails = Fails], r) :
              /\ Commit(Close(st1, c))
              /\ reqConn' = [reqConn EXCEPT ![r] = st1.got]
    /\ UNCHANGED <<hostList, lb, resolveUpdated>>

\* mutant: the old connection is never closed
RetryNoClose(r) ==
    /\ reqConn[r] # NULL
    /\ LET c     == reqConn[r]
           a     == conn[c].addr
           saved == addr[a].fails
       IN  \E st1 \in GetConnection([Pool EXCEPT !.addr[a].fails = Fails], r) :
              LET st2 == IF st1.addr[a].fails # 0
                         THEN [st1 EXCEPT !.addr[a].fails = saved] ELSE st1
              IN  /\ Commit(st2)
                  /\ reqConn' = [reqConn EXCEPT ![r] = st1.got]
    /\ UNCHANGED <<hostList, lb, resolveUpdated>>

\* h2d_upstream_retry_connection(old): mark the address down, get a new
\* connection, put fails back unless get_connection cleared it, and close
\* the old connection last
Retry(r) ==
    /\ reqConn[r] # NULL
    /\ LET c     == reqConn[r]
           a     == conn[c].addr
           saved == addr[a].fails
       IN  \E st1 \in GetConnection([Pool EXCEPT !.addr[a].fails = Fails], r) :
              LET st2 == IF st1.addr[a].fails # 0
                         THEN [st1 EXCEPT !.addr[a].fails = saved] ELSE st1
              IN  /\ Commit(Close(st2, c))
                  /\ reqConn' = [reqConn EXCEPT ![r] = st1.got]
    /\ UNCHANGED <<hostList, lb, resolveUpdated>>

\* h2d_upstream_on_active() on an idle connection: the peer closed it
IdleActive(c) ==
    /\ conn[c].used
    /\ conn[c].req = NULL
    /\ Commit(Close(Pool, c))
    /\ UNCHANGED <<reqConn, hostList, lb, resolveUpdated>>

Next ==
    /\ \/ \E r \in Reqs : Acquire(r) \/ ReleaseClose(r) \/ ReleaseIdle(r) \/ Retry(r)
       \/ \E c \in ConnIds : IdleActive(c)
       \/ \E E \in Answers : ResolverAnswer(E)
       \/ WorkerCrash
    /\ UNCHANGED lbKind

Spec == Init /\ [][Next]_vars

\* Every request ends and releases its connection (its client, or the
\* server's request timeouts, close it: request handling outside src/).
\* Nothing is assumed of the resolver, of new requests, or of the upstream
\* peer closing a connection left idle: phorklift sets no idle timeout of
\* its own (the keepalive TODO at line 372).
PoolFairSpec ==
    /\ Spec
    /\ \A r \in Reqs : WF_vars((ReleaseClose(r) \/ ReleaseIdle(r)) /\ UNCHANGED lbKind)

-----------------------------------------------------------------------------
(* Properties *)

TypeOK ==
    /\ addr \in [AddrIds -> AddressRec]
    /\ conn \in [ConnIds -> [used: BOOLEAN, addr: AddrIds \cup {NULL}, req: Reqs \cup {NULL}]]
    /\ reqConn \in [Reqs -> ConnIds \cup {NULL}]
    /\ hostList \in [Hosts -> Seq(AddrIds)]
    /\ lb \subseteq AddrIds
    /\ resolveIndex \in 0..NumHosts + 2
    /\ resolveUpdated \in BOOLEAN

\* Every open connection sits on exactly one list of its own address: on the
\* active list exactly when it is bound to a request, and that request holds
\* it and no other; idle_num counts the idle list.  Release, eviction, retry
\* and peer-close all move connections between these lists and the counter.
PoolConsistent ==
    /\ \A a \in AddrIds :
          /\ addr[a].idleNum = Len(addr[a].idle)
          /\ \A c \in ToSet(addr[a].idle) \cup addr[a].active :
                conn[c].used /\ conn[c].addr = a
    /\ \A c \in ConnIds : conn[c].used =>
          LET a == conn[c].addr IN
          /\ Cardinality({i \in DOMAIN addr[a].idle : addr[a].idle[i] = c})
               + (IF c \in addr[a].active THEN 1 ELSE 0) = 1
          /\ (c \in addr[a].active) = (conn[c].req # NULL)
          /\ conn[c].req # NULL => reqConn[conn[c].req] = c
    /\ \A r \in Reqs : reqConn[r] # NULL =>
          conn[reqConn[r]].used /\ conn[reqConn[r]].req = r

\* Deferred free (h2d_upstream_address_free): an address is freed only once
\* it is deleted and no connection refers to it, and a freed address is
\* never given a connection afterwards.
DeferredFree ==
    \A a \in AddrIds : addr[a].alloc = "freed" =>
        /\ addr[a].deleted
        /\ \A c \in ConnIds : conn[c].used => conn[c].addr # a

\* The linear merge relies on both sides being sorted by the same
\* comparator: every hostname list is strictly ascending by endpoint.
RegistrySorted ==
    \A h \in Hosts :
        \A i \in 1..Len(hostList[h]) - 1 :
            addr[hostList[h][i]].ep < addr[hostList[h][i + 1]].ep

\* An answer keeps the identity (and so the pooled connections) of every
\* address whose endpoint it still contains, and an address it drops is
\* marked deleted or unlinked, never freed while it has connections.
LiveOn(hl, ad, h) == {a \in ToSet(hl[h]) : ~ad[a].deleted}
MergeKeepsIdentity ==
    [][(resolveIndex \in Hosts /\ resolveIndex' # resolveIndex) =>
        LET h == resolveIndex IN
        /\ \A a \in LiveOn(hostList, addr, h), b \in LiveOn(hostList', addr', h) :
              addr'[b].ep = addr[a].ep => a = b
        /\ \A a \in LiveOn(hostList, addr, h) \ LiveOn(hostList', addr', h) :
              addr'[a].deleted
      ]_vars

\* Between cycles, once the changes are applied, the balancer snapshot is
\* exactly the address list and holds no deleted address.
BalancerMatchesRegistry ==
    resolveIndex = 0 /\ ~resolveUpdated =>
        /\ lb = Linked
        /\ \A a \in Linked : ~addr[a].deleted

\* With round-robin, a retry never hands the request a connection to the
\* address that just failed it.
RetryAvoidsFailedAddress ==
    [][\A r \in Reqs :
          lbKind = "roundrobin" /\ reqConn[r] # NULL /\ reqConn'[r] # NULL
            /\ reqConn'[r] # reqConn[r]
            => conn'[reqConn'[r]].addr # conn[reqConn[r]].addr
      ]_vars

\* The down mark a retry sets is temporary: outside a retry no address is
\* left with a failure count.
NoAddressLeftDown ==
    \A a \in AddrIds : addr[a].fails = 0

\* spec 4.1: the scan in do_resolve only queries configured entries that
\* need resolving: it skips static (literal-address) entries and closes
\* the cycle at the end of hostnames[] instead of reading past it.
OnlyResolvableQueried ==
    resolveIndex # 0 => resolveIndex \in Hosts /\ NeedResolved(resolveIndex)

\* An address a resolve cycle dropped is freed once the requests holding its
\* connections end, unless a good release parked one of them in its idle
\* pool (line 366): the only connection left then is an idle one, which
\* nothing in the code closes until the peer does.  Retry's close of the
\* failed connection (line 339) and release's close (line 353) are what
\* drive connection_close (line 34) to the free.
DeletedAddressFreed ==
    \A a \in AddrIds :
        (addr[a].alloc = "live" /\ addr[a].deleted)
            ~> (addr[a].alloc = "freed" \/ addr[a].idle # <<>>)

\* The registry implements AddressRegistry: after an answer a hostname's
\* live (linked, not deleted) addresses are exactly the endpoints answered,
\* and the balancer's snapshot changes only at the end of a cycle, to all
\* the live endpoints (spec 4.1, spec 8 "merge correctness").
Registry == INSTANCE AddressRegistry WITH
    Start <- StartAnswer,
    eps <- [h \in Hosts |-> {addr[a].ep : a \in LiveOn(hostList, addr, h)}],
    lbEps <- {addr[a].ep : a \in lb}

RefinesAddressRegistry == Registry!Spec

\* No address that a hostname list or the balancer snapshot still points to
\* has been freed: both are read after the cycle (get_connection walks the
\* balancer's pick, the next merge walks the list), so a freed one dangles.
ReferencedAddressesAllocated ==
    \A a \in Linked \cup lb : addr[a].alloc = "live"

=============================================================================
