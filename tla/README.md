# TLA+ models of phorklift

This directory holds TLA+ models of the phorklift HTTP server sources under
`src/src/` and the TLC configurations that check them. `PROJECT.json` lists
the following:

- every component, whether it is modelled or not;
- every run;
- the mutant run for each property;
- the source lines each definition models;
- the findings;
- the hazards the code is exposed to.

## 1. The system

### Components

| Component | Source | State | Operations |
|---|---|---|---|
| Upstream address registry and resolve cycle | `h2d_upstream.c` 11-226 | Per-hostname address lists (`hostnames[]`, each with `address_head`), the upstream-wide address list, `resolve_index`, `resolve_updated`, and per-address `deleted` flags | `try_resolve`, `do_resolve`, `resolve_on_read`, `address_add`, `address_delete`, `address_free` |
| Connection pool | `h2d_upstream.c` 229-372 | Per-address `idle_head` / `active_head`, `idle_num`, per-connection `request`, and the `fails` count | `get_connection`, `release_connection`, `retry_connection`, and the `on_active` callback of an idle connection |
| Load balancer | Not under `src/` (`h2d_upstream_loadbalance`) | A snapshot of the address list, rebuilt by `update()` | `pick` (round-robin or hash) |
| Read/write facade | `h2d_upstream.c` 374-439 | The preread buffer (`preread_buf`, `preread_len`) | `connection_read`, `read_notfinish`, `connection_write` |
| Configuration and stats | `h2d_upstream.c` 441-601 | Configuration only | `conf_post` builds the initial registry. The stats counters are atomic increments into shared memory. |
| Dynamic configuration cache | `h2d_dynamic.c` | `sub_dict` of per-name sub-configs. Each has a holder flag, a `holder_wait_head` queue of waiting requests, `error_ret` and an idle timer. | `get_name`, `get_conf`, the timers, `ctx_free` |
| Request rate limiter | `modules/phl_limit_req.c` | Shared memory across worker processes: a hash table, a free list, a bump allocator and an LRU list, all under a process-shared mutex | `process_headers`, `alloc_node`, `expire` |
| Module filter dispatch | `h2d_module.c` | `filter_indexs[]` per request | `filter_run` (resumable), and the rank sort at configuration time |
| Host path lookup | `h2d_conf_host.c` | None | Prefix search over path names |
| Static files | `modules/phl_static.c` | The worker's descriptor table and the per-request `ctx` | `process_headers`, `response_headers` (file, index, listing, Range), `ctx_free` |

### How the upstream parts interact

Each worker is a single-threaded event loop. Request handlers call
`get_connection`, `retry_connection` and `release_connection`. These calls
nest inside one callback, so each one is atomic in the model.

The following callbacks interleave with the requests:

- **Resolver answers.** One `resolve_on_read` per queried hostname. The cycle
  is a sequence of separate loop events, and requests run between them.
- **Idle peer close.** `on_active` runs when an idle connection's peer closes.

A resolve cycle works as follows:

1. It is started by `get_connection` through `try_resolve`.
2. Each answer is merged into its hostname's sorted list. Missing addresses are
   marked `deleted`, and new ones are inserted.
3. When `do_resolve` finds no further entry, the deleted addresses are
   unlinked and freed if unused. The balancer is then rebuilt.

A deleted address that still has connections is freed by `connection_close`.
The pool holds pointers to addresses, and so does the balancer snapshot.

### Hard behaviours

The following behaviours are hard to get right:

- a close between two answers of a cycle;
- a cycle whose answers are all empty;
- the `idle_num` bound;
- `retry` saving and restoring `fails` around a re-pick that may reset every
  counter;
- the `do_resolve` scan, which walks `hostnames[]` without bounding it by the
  terminator.

The properties that make the upstream correct are:

- The pool bookkeeping agrees with the lists.
- An address is freed only when it is unused and unlinked.
- Hostname lists stay sorted.
- A merge keeps an address that is still answered, together with its pooled
  connections.
- The balancer snapshot is exactly the live addresses.
- A retry never lands on the address it gave up on.
- The cursor stays inside `hostnames[]`.
- Static entries are never queried.

## 2. Modules

### `Upstream.tla`: the upstream component

The module has these constants:

- `NumHosts` and `StaticHosts`: the entries of `hostnames[]`.
- `Endpoints`: the resolver's possible addresses, as integers ordered like
  `wuy_sockaddr_addrcmp`.
- `StartAnswer`: the configured or first-resolved addresses.
- `Answers`: the sets the resolver may return.
- `AddrIds` and `ConnIds`: the arena slots for `calloc`, and the file
  descriptors.
- `Reqs`, `IdleMax` and `Fails`.
- `LbKinds`: the strategies the upstream may be configured with. The
  variable `lbKind` takes one of them in `Init` and never changes, as the
  `loadbalance` pointer is fixed at `conf_post`.

#### State

| Variable | Code |
|---|---|
| `addr[a]` | `struct h2d_upstream_address`: the endpoint, the owning hostname, the `deleted` flag, `fails` (used at `h2d_upstream.c` 326-334 and modelled from there; the struct in `h2d_upstream.h` has no such field), `idle_num`, and the idle list (a sequence, so that the eviction order is kept) |
| `addr[a].alloc` | Whether the slot is live or has been freed. A freed slot still holds the data it had, as freed memory does, until a `calloc` reuses it. |
| `conn[c]` | `struct h2d_upstream_connection` |
| `reqConn[r]` | The connection a request holds |
| `hostList[h]` | The sorted `address_head` of `hostnames[h]` |
| `lb` | The balancer's snapshot |
| `resolveIndex` | `resolve_index` |
| `resolveUpdated` | `resolve_updated` |

#### Call chains

Synchronous call chains are pure operators over a record
`st = [addr, conn, ri, got]`:

- `Close`
- `TryResolve`
- `PickSet`
- `ResetIfDown`
- `ConnectTo`
- `GetConnection`

An operator with a nondeterministic outcome, such as the connect result or a
pick, returns the set of possible results.

#### Actions

Each action models one whole handler:

| Action | Handler |
|---|---|
| `Acquire(r)` | `get_connection` |
| `ReleaseClose(r)` | `release_connection`, closing |
| `ReleaseIdle(r)` | `release_connection`, pooling: the eviction, then the append |
| `Retry(r)` | `retry_connection` |
| `IdleActive(c)` | `on_active` |
| `ResolverAnswer(E)` | `resolve_on_read`, then the `do_resolve` it calls, including `FinishCycle` at the end of the cycle |
| `WorkerCrash` | The crash that ends a scan past the array |

`Diff` is the three-way merge loop of `resolve_on_read`, written as a
recursive operator. `Merge` applies its result by using `address_add` and the
deletion marks.

#### Undefined behaviour

After the last hostname, `do_resolve` reads past `hostnames[]`. What it finds
there is undefined, so the model chooses among the outcomes in
`OverrunOutcomes`:

- `"finish"`: the bytes happen to end the cycle.
- `"garbage_query"`: a query is sent for a garbage entry. Its answer then makes
  `resolve_on_read` index out of bounds, and the worker crashes. A new worker
  starts again from the configuration.

#### Load balancer

The load balancer is not in `src/`, so it is modelled from the specification.
`PickSet` is spec-modelled as follows:

- Round-robin returns a live address that is not down, or NULL.
- Hash returns any address of the snapshot.

Time is abstract. A resolve interval may always have elapsed.

### `Dynamic.tla`: the dynamic configuration cache (`h2d_dynamic.c`)

The module has these constants:

- `Reqs`: the requests.
- `Names`: the names `get_name()` may return.
- `SubIds`: the memory slots for holders and parsed entries.
- `NameBlocking`: `is_name_blocking`.
- `ConfResults`: the results of one resume of `get_conf()`.
- `CheckOn` and `IdleOn`: `check_interval > 0` and `idle_timeout > 0`.

#### State

| Variable | Code |
|---|---|
| `sub[i]` | The `h2d_dynamic_conf` in slot `i`: the name, `is_just_holder`, `error_ret`, the timer, and `holder_wait_head` |
| `dict` | `sub_dict` |
| `ctx[r]` | `r->dynamic_ctx->sub_dyn` |
| `status[r]` | Whether `r` will call `h2d_dynamic_get` again, is queued on a holder, or has its configuration or error |

A freed slot keeps its contents, so that stale pointers read what the code
would read. It is reused only when no timer still targets it.
`container.del` is outside `src/`, and the model assumes it frees the entry.

#### Actions

| Action | Handler |
|---|---|
| `Get(r)` | One whole call of `h2d_dynamic_get` |
| `Finish(r)` | `h2d_dynamic_ctx_free` when the request ends |
| `TimerFire(i)` | `h2d_dynamic_timeout_handler` |

`Get(r)` covers `get_name`, the dict lookup, and one of these:

- the creation of a holder;
- queueing on a holder;
- a hit, with `need_check`;
- one resume of `get_conf()` and every result path (`Replace`, 304, 404,
  500, invalid);
- `not_ok`, with error caching.

#### Abstractions

- **Lua threads.** Each thread is reduced to its result. A yield ends the
  step.
- **Time.** It is abstract, so check intervals and timers may elapse at any
  step.
- **Timer re-creation.** `timer_new` on a holder that already has a timer
  leaks the first timer. Both timers have the same delay, so the first one
  fires first; this is modelled as a single expiry.

#### Runs

**`dyn_errors`** (pass). Two requests on one name, with error results and idle
timers. It checks `TypeOK` and `NoLostWaiter` (a request is queued exactly
when it is on the queue of a live pending holder), and these liveness
property:

- `WaiterEventuallyRuns`: a queued request runs again in the end.

It runs under `FairSpec`, which has weak fairness on two actions:

- **`TimerFire`.** The event loop fires armed timers.
- **`Finish(r)`.** Every request ends, because its client or the server's
  timeouts close it. This is the server's request handling, which is outside
  `src/`.

No other fairness is assumed, because a Lua thread may yield forever.

**`dyn_uaf`** (violation, `CtxSubLive`: `ctx->sub_dyn` is never a freed
entry). Every `get_conf()` result, checks and idle timers are on. The trace
TLC prints is one step long: a `get_conf()` answering 404 deletes the entry
(line 117), and `not_ok` then reads it. The same model reaches the other ways
an entry is freed under a request that still points at it:

- the idle timer deletes a cached entry a second request re-uses;
- a concurrent check replaces it (line 152);
- a failed request still points at an expired holder whose slot is reused,
  and its `ctx_free` deletes the new holder.

Because of these bugs, no passing run combines two requests with re-checks,
timers or errors where a request can hold an entry across them. The re-check
path therefore runs only in the violation run.

### `Static.tla`: the static file module (`modules/phl_static.c`)

The handlers run inside one request callback, with no await between them, so
each is one step. Requests interleave through the worker's descriptor table,
which is shared: `open` and `openat` return the lowest free descriptor
(POSIX), and `EMFILE` is an empty free set.

The module has these constants:

- `Reqs`: the requests.
- `Targets` and `Kind`: the paths a request may name, and what `fstat` finds
  there (a regular file, a directory, something else, or nothing).
- `IndexKind`: what `openat(dirfd, conf->index)` finds in each directory.
- `Confs`: the `list_dir` and `index` settings of the path.
- `Fds` and `Preopen`: the table size, and the descriptors the process holds
  already (`conf_post` opens `dirfd` at lines 209-224).

#### State

| Variable | Code |
|---|---|
| `conf` | `struct phl_static_conf`, chosen in `Init` |
| `fdFile[fd]` | What descriptor `fd` refers to: a target, or a target's index file |
| `req[r]` | The request: its phase, method, target, `resp.status_code`, `ctx` (the descriptor kept for `ctx_free`) and the descriptor the body is sent from |

#### Actions

| Action | Handler |
|---|---|
| `ProcessHeaders(r)` | `phl_static_process_headers`: 405 for a method other than GET or HEAD |
| `ResponseHeaders(r)` | `phl_static_response_headers` with `DirHeaders` (a directory: listing, index, or 404) and `FileHeaders` (the `fstat` check, `If-Modified-Since`, then `RangeStatus` for the `Range` and `If-Range` headers) |
| `CtxFree(r)` | `phl_static_ctx_free`: the descriptor in `ctx` is closed |

The header values are abstracted to what decides the status: the number of
ranges (`-1` for unsatisfiable), whether `If-Range` is equal, and whether
`If-Modified-Since` is equal. The listing body and the header text are left
out.

#### Runs

**`static`** (pass, about 12,000 states). Two requests, every configuration,
five targets of every kind, and a table of six descriptors of which four are
taken, so that `EMFILE` happens. It checks `TypeOK` and `ServedFileIntact`:
the descriptor a response body is sent from refers to the file the request
named, or to its index. Another request's close and reopen of a reused
descriptor number must not redirect it.

**`static_fd_leak`** (violation, `FdsAccounted`: every descriptor a request
opened is either its `ctx` or closed). A directory under a path with neither
`list_dir` nor `index` is answered 404 at line 137. The descriptor opened at
line 119 is neither closed nor stored in `ctx`, so it leaks. TLC needs two
steps.

Two hazards have no property:

- The listing `snprintf` at line 45 can truncate, and the position then runs
  past the buffer.
- `openat` on a FIFO blocks the worker.

### `LimitReq.tla`: the request-rate limiter (`modules/phl_limit_req.c`)

Worker processes share one memory segment per `limit_req` configuration.
`conf_post` lays it out: the hash bucket array, then nodes carved one at a
time from `used_pos` up to `nodes_end`. A node is named by its byte offset,
so the carving arithmetic (`FirstNode`, `NodesEnd`, `Stride`) is kept, with
struct sizes as constants. `process_headers` holds the process-shared mutex
from the hash search to the insertion (lines 121-152), so one request is one
atomic step, whatever the number of workers.

#### State

| Variable | Code |
|---|---|
| `usedPos` | `shared->used_pos` (a byte offset) |
| `lru`, `free` | `shared->lru_list`, `shared->free_list`, head first |
| `bucket[b]` | `shared->hash_buckets[b]`, as the set of nodes on it |
| `key[n]` | `node->key`, the string `strcpy` stored |
| `expired[n]` | `wuy_meter_is_expired(node->meter)` |
| `owners[n]` | Auxiliary: the clients the meter has counted since `wuy_meter_init` |

#### Actions

- `Request(c)`: `process_headers` for a client. The key is the 4 octets of
  `sin_addr`. It is hashed over all 4, but stored and compared as a C string,
  up to the first zero octet (`CStr`). A miss runs `AllocNode` (`Expire`,
  then the free list, then carving, then evicting the LRU head) and inserts
  the node at the LRU head. A hit runs the meter check, which may answer 503
  and leaves the node where it is. Both outcomes make the meter fresh.
- `Tick(n)`: time passes until a tracked meter has expired.

#### Abstractions

- `libwuya` is not in the repository. The list operations are taken as insert
  at the head, append at the tail, and pop and first at the head. The second
  delete of a popped node (line 84) is taken as a no-op.
- The meter is abstracted to "expired or not".
- The Lua key function, the statistics counters and logging are left out. The
  counters are only logged.

#### Refinement

`LimitMap.tla` is what the table promises: a map from lookup keys to meters
of at most `Cap` entries. A key keeps its meter until the meter expires, or
until the table is full and it is the one entry evicted. The lookup key is
the pair (bucket, C string), which is what the code compares.
`LimitReq!RefinesLimitMap` instantiates it with this mapping:

- `tracked` is the keys of the LRU nodes;
- `stale` is their `expired` flags;
- `Cap` is the number of nodes that can be carved.

#### Runs

`MC_LimitReq.tla` gives four clients: 10.0.0.1, 10.0.0.3, 1.2.3.4 and 1.2.3.5,
with a hash that depends on every octet. The segment (`Size = 128`, 2 buckets
of 8 bytes, nodes of 32 + 8 bytes) holds two nodes, at offsets 16 and 56.

- **`limit_table`** (pass, 179 states). Three keys compete for two nodes, so
  the run reaches eviction, expiry to the free list, and reuse. It checks
  these properties:
  - `TableConsistent`: every carved node is on exactly one list, the hashed
    nodes are exactly the LRU nodes, and keys are unique per bucket.
  - `RefinesLimitMap`.
- **`limit_key`** (violation). 10.0.0.1 and 10.0.0.3 land in one bucket.
  Both keys read as the one-byte string "\n", so the second client's request
  is counted by the first client's meter, which breaks `MeterPerClient`.

Two hazards have no property:

- With insertion at the LRU head and no move on a hit, eviction takes the
  newest node, and `expire` stops at the newest live meter. Both depend on the
  assumed list semantics.
- `used_pos` starts `8 * hash_buckets` bytes from the segment's start. The
  bucket array, however, starts after the `struct phl_limit_req_shared`
  header, so the first node overlaps the last buckets.

### `PathSearch.tla` and `Filters.tla`: path lookup and the filter pipeline

`PathSearch` translates `h2d_conf_host_search_pathname` (`h2d_conf_host.c`
9-26) into operators. Strings are sequences of characters, and `MemEq` is
`memcmp` over `strlen(pathname)` bytes. A request path's terminator is the
constant `NUL`, so the bytes past it never decide the result. The two nested
loops are the recursive `SearchFrom`. The module also defines `FirstMatch`,
the reference the code is checked against: the first `Path()` that has a
pathname prefixing the request path, or the default path when the host has no
`Path()`.

`Filters` composes that lookup with the filter pipeline of `h2d_module.c`:

- **Chains.** `Chain(p, s)` is `conf->modules[s]` of path `p`'s filters table.
  It collects the modules with filter `s` in module order and sorts them by
  `h2d_module_filter_cmp`: the rank the path configures (`Ranks`), else the
  module's own (`DefRank`), with ties broken by module index.
- **`RunStage`.** A call of `h2d_module_filter_run` for a resumable stage, as
  one step. It calls the filters from `r->filter_indexs[s]` on. Some answer
  `H2D_OK`, and then either the chain ends or one filter answers `H2D_AGAIN`,
  `H2D_ERROR` or a status code. The index is left on that filter, and a status
  code sets `filter_terminal`.
- **`RespBody`.** One chunk through `h2d_module_filter_response_body`, with no
  index kept.
- **`CtxFree`.** `h2d_module_request_ctx_free`.

The request layer (`h2d_request.c`) is not in the repository, so it is the
environment:

- `Search` looks the path up;
- after `H2D_AGAIN` the stage runs again, and after `H2D_OK` the next stage
  starts;
- `Close` may end a request at any stage.

What a filter does is abstracted to its return value and possibly a module
context. The auxiliary `log` records each filter call and its answer.

**`filters`** (pass, 8,349 states, `CHECK_DEADLOCK FALSE` because the model
stops once the request is freed). The host has `Path("/a")` and
`Path({"/", "/b"})`. There are three modules whose chains differ by stage, and
the second path re-ranks one of them. Requests never share state here, so one
request suffices; its path is any string over `/`, `a` and `b` of up to 3
characters. At most one `H2D_AGAIN` is allowed (`AgainBound`). The run checks
these properties:

- `FiltersResumeInOrder`: across resumptions, every filter call follows the
  chain. After `H2D_OK` the next filter is called; after `H2D_AGAIN` the same
  filter is called again; nothing is called after an error or a status code.
  This is what `filter_indexs` is for (line 223).
- `StageCompleteBeforeNext`: a request reaches a later stage only after every
  filter of the earlier one has answered `H2D_OK`, once each and in rank order.
- `ServedByFirstMatch`: the `conf_path` found for every request path is the
  one `FirstMatch` gives. This checks the nested loops and the `memcmp` length
  against the reference over all 40 request paths.

Not modelled:

- module iteration, index fixing and init;
- the command tables;
- `command_is_set`;
- dynamic module loading (`dlopen`).

A chain that fills `H2D_MODULE_MAX` entries leaves no terminator (line 339).
`H2D_MODULE_MAX` is defined outside the repository, so this is listed as a
hazard without a property.

### `UpstreamRead.tla` and `ByteStream.tla`: the read/write facade

`UpstreamRead` models `h2d_upstream_connection_read`,
`connection_read_notfinish` and `connection_write` for one connection. A byte
is named by its position in the peer's answer, so a byte that is lost,
repeated or reordered on its way through `preread_buf` shows in the
sequences.

| Variable | Code |
|---|---|
| `pre` | `preread_buf[0 .. preread_len-1]`; `<<>>` when the pointer is NULL (a zero-length call returns before allocating, so the two agree) |
| `wrote` | request bytes `loop_stream_write` accepted |
| `arrived`, `eof` | what the peer has sent, and whether it has closed |
| `sockPos` | answer bytes `loop_stream_read` has taken |
| `held`, `consumed` | the caller's buffer, and the bytes it has parsed |
| `phase` | open, closed after `H2D_ERROR`, or aborted by the assert at line 414 |

| Action | Code |
|---|---|
| `Write` | `connection_write`: one `loop_stream_write`; an error or a short write is `H2D_ERROR` (lines 426-437) |
| `Read(n)` | `connection_read` with a buffer of `n` bytes, as four disjuncts: `ReadPartial` (a longer preread buffer fills the buffer and is shifted down), `ReadDrained` (it fills it exactly), `ReadSocket` (the buffer is copied, freed, and the socket read for the rest) and `ReadFail` (that read fails: `H2D_ERROR`) |
| `Unread` | `connection_read_notfinish`: the bytes become the preread buffer, or the assert aborts the worker |
| `Consume(k)` | the caller parses `k` bytes |
| `PeerSend`, `PeerClose` | the upstream peer |

The socket and the caller are outside `src/`, and both are modelled from
spec 4.4. The socket behaves like `recv` on a non-blocking stream: a read
takes what has arrived, up to the buffer. With nothing arrived, it would
block, or it fails once the peer has closed. The caller writes the request,
reads with a buffer of 1 to 3 bytes, parses a prefix and hands the rest back.
On `H2D_ERROR` it destroys the connection (spec 7, IOError).

`ByteStream` is what the facade promises: the request is written whole or the
connection fails. The caller then takes the peer's bytes in order, never one
that has not arrived, until a failure ends the stream.

**`upstream_read`** (pass, 169 states; `CHECK_DEADLOCK FALSE`, because a
connection's life ends when it is destroyed or fully read). It uses a 2-byte
request, so a write can be short, and a 4-byte answer. A preread buffer can
therefore be longer than, equal to or shorter than the next read (spec
scenario 5, scaled down). It checks these properties:

- `TypeOK`
- `StreamIntact`: while the connection is open, the consumed bytes, the
  caller's buffer and the preread buffer are, in that order, exactly the bytes
  taken from the socket.
- `RefinesByteStream`: `Abstract!Spec` under the mapping `sent <- wrote =
  ReqLen`, `taken <- consumed`, `live <- phase = "open"`.

The run reaches two paths that no property rejects; both are listed as
hazards:

- **The abort at line 414.** `Unread` takes the abort branch: a read shorter
  than the preread buffer leaves some of it, and the caller then hands bytes
  back.
- **`ReadFail` drops bytes.** It discards bytes it had already copied out of
  the preread buffer. When the peer closes after a close-delimited answer,
  those are the last bytes of the answer.

### `MC_Upstream.tla`

This module holds the sequence- and set-valued constants for the cfgs.

### Planned modules

| Module | Models |
|---|---|
| `ResolverStream` | The byte framing of the resolver channel: split and coalesced reads, and resolver death. It adds liveness of cycles. |

## 3. Runs

This section covers the upstream runs; the Dynamic, Static and LimitReq runs are
described with their modules above. The upstream runs use the module
`MC_Upstream`. They share these settings:

- `Endpoints = {1,2}`
- `IdleMax = 1`
- `Fails = 1`

### Passing runs

**`pool`**. The configuration has 1 hostname, `AddrIds` 1..4, two
connections, two requests, both strategies (round-robin and hash, one per
initial state), and non-empty answers. The overrun
outcome is "finish".

The run checks these invariants:

- `TypeOK`
- `PoolConsistent`: for each address, `idle_num` equals its idle list. Every
  used connection is on exactly one list of its address, and every held
  connection belongs to its request.
- `DeferredFree`: a freed address has no connection and is on no list.
- `RegistrySorted`
- `NoAddressLeftDown`: under hash, which can re-pick a down address and take
  the all-down reset, no address stays down (see the finding on line 333).
- `BalancerMatchesRegistry`: outside a cycle, the snapshot equals the set of
  linked addresses.

It also checks these action and temporal properties:

- `MergeKeepsIdentity`: an address that is answered again stays the same
  address, neither deleted nor re-created.
- `RetryAvoidsFailedAddress`: after a round-robin retry, the new connection is
  not on the old address, unless NULL was returned.
- `DeletedAddressFreed`: every address a cycle drops is freed in the end,
  unless a good release parked a connection of it in its idle pool (line
  366). Nothing in the code closes that idle connection, so the exception
  is stated rather than assumed away.
- `RefinesAddressRegistry`: the registry implements `AddressRegistry` (see
  below).

It runs under `PoolFairSpec`. About 63,000 distinct states in 90 seconds.

**`resolve_hosts`**. Two resolvable hostnames. There are no connections, so
every connect fails, and both overrun outcomes are possible (the crash and the
restart included). It runs under `Spec` (no fairness) and checks `MergeKeepsIdentity`
across entries. It also checks
`RefinesAddressRegistry` across the two entries and the worker restart.
About 5,500 states.

### Refinement: `AddressRegistry.tla`

`AddressRegistry` is what spec 4.1 promises of the registry, with no lists,
slots, deletion marks or cursor:

- Each hostname has the set of endpoints its last answer named.
- The balancer works from a snapshot, which changes only when a cycle ends.
  It then becomes the union of every hostname's set, or stays as it was if
  that union is empty.
- A new worker starts again from the configured sets.

`Upstream!RefinesAddressRegistry` maps `eps[h]` to the endpoints of the
linked, not deleted addresses of `hostnames[h]`, and `lbEps` to the endpoints
of the balancer's addresses. A freed slot keeps its endpoint until `calloc`
reuses it, so a snapshot that still holds a freed address shows as a change
of `lbEps` once the slot is reused. The property checks that a merge leaves
exactly the answered endpoints, which no other property states. Both passing
runs check it, with answers restricted to non-empty sets. An all-empty cycle
breaks it by the bug `address_uaf` shows.

### Violation runs

Each violation run shows a code bug; see `findings` in `PROJECT.json`.

| Run | Property | What TLC finds |
|---|---|---|
| `static_queried` | `OnlyResolvableQueried` | The scan condition `name != NULL \|\| need_resolved` stops at static entries, which are then queried. The same condition does not stop at the terminator, so the scan reads past `hostnames[]`. That outcome is modelled too, and the `resolve_hosts` run reaches it. |
| `address_uaf` | `ReferencedAddressesAllocated` | Two hostnames, all answers possible, one connection. The trace TLC prints is the shorter one: an all-empty cycle frees the deleted addresses but does not update the balancer. The same model reaches the other bug, and restricting the answers to non-empty sets makes TLC print it: `connection_close` frees an address that is marked deleted mid-cycle while it is still linked (a use-after-free). |

Because of the early free mid-cycle, the passing pool runs use one hostname.
With one hostname, the merge is the last event of the cycle, so the early free
cannot happen. The two-hostname run has no connections.

### Why the bounds are enough

- **Two endpoints** produce all three branches of the merge: keep, add and
  delete.
- **Two requests with two file descriptors** can do the following:
  - share an address;
  - evict at `IdleMax = 1`;
  - exhaust the descriptors.
- **`AddrIds` 1..4** lets a cycle re-create addresses while freed ones linger.
- **`Fails = 1`** makes one retry enough to mark an address down.

### Fairness

`pool` runs under `PoolFairSpec`, which has weak fairness on one action:
the release of a held connection. Every request ends and releases its
connection, because its client or the server's request timeouts close it.
Request handling is outside `src/`.

Nothing is assumed about new requests, the resolver, or the upstream peer
closing an idle connection. Phorklift sets no idle timeout of its own (the
TODO at line 372), so `DeletedAddressFreed` names the idle-pool exception
instead of assuming the peer closes the connection.

No run assumes the resolver answers. The code has no timeout for a lost
answer: if one is lost, `resolve_index` stays non-zero for good and no cycle
starts again (the hazard at line 220). A liveness property for cycles ending
would hold only under that assumption, so none is checked.

`dyn_errors` runs under `Dynamic`'s `FairSpec` (see its section).

### Mutants

Each property of a passing run has a mutant: a plausible bug in the operator
it is about, which TLC catches. Some examples:

- dropping the `idle_num` decrement in `Close`;
- freeing an address whose other list is non-empty;
- appending new addresses instead of inserting them in order;
- not purging deleted addresses;
- marking the address down after the re-pick;
- not restoring `fails`;
- a retry that never closes the old connection (`DeletedAddressFreed`);
- a partial read whose `memmove` starts one byte early (`StreamIntact`);
- socket bytes placed ahead of the drained preread bytes
  (`RefinesByteStream`).

## 4. Not modelled

- **Stats counters.** They are atomic, monotone, and never read back.
- **Round-robin rotation and hash placement.** These are spec-level
  nondeterminism.
- **Time.** The resolve interval is abstract.
- **Configuration parsing and logging.**
- **IPv6 and socket details.**
- **`phl_static.c` I/O.** The body transfer (`sendfile`), the listing text
  and the header formatting are left out; the descriptor handling and status
  decisions are modelled.
- **Dynamic-module loading.** It uses `dlopen`. The module iteration and the
  index fixing across configuration reloads (`h2d_module.c` 35-146 and
  408-432) are not modelled either.
- **The preread buffer across connection reuse.** `release_connection` does
  not free `preread_buf`, so a pooled connection keeps whatever the last
  request handed back. `UpstreamRead` models one connection's life, and the
  pool model leaves the buffer out. Whether a request can end with bytes
  handed back depends on the proxy module, which is outside `src/`.

- **Removing a queued request from a holder's queue when it ends.** This
  happens in `h2d_request.c`, which is outside `src/`.

Several hazards in `PROJECT.json` have no property. Each needs a violation
run of its own:

- the `idle_num > idle_max` off-by-one at line 358, which keeps idle_max + 1
  idle connections against spec scenario 2;
- a deleted address kept alive by a connection parked idle on it (line 366);
- a resolve cycle that stalls for good when the resolver stops answering
  (line 220);
- the resolver-stream framing;
- the rate limiter's layout and list order;
- the listing overflow;
- the two facade paths above.

The remaining planned modules are listed in section 2.
