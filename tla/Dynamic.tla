------------------------------ MODULE Dynamic ------------------------------
(***************************************************************************)
(* The dynamic sub-configuration cache of src/src/h2d_dynamic.c.           *)
(*                                                                         *)
(* A request asks get_name() for a name and looks it up in sub_dict.  It  *)
(* then uses the cached sub-configuration, queues on a "holder" entry      *)
(* whose get_conf() is still running, or creates the holder and runs       *)
(* get_conf() itself.  Every call of h2d_dynamic_get() is one atomic step *)
(* of the event loop; a Lua thread that yields (H2D_AGAIN) ends the step   *)
(* and is resumed by a later call.  Lua threads are abstracted to their    *)
(* results.  Time is abstract: a check interval may have elapsed at any    *)
(* hit, and an armed timer may fire at any step.                           *)
(*                                                                         *)
(* Memory: sub-configurations live in the slots SubIds.  h2d_dynamic_delete *)
(* frees a slot through container.del (assumed to free it); a freed slot   *)
(* keeps its contents, which stale pointers still read, until calloc or    *)
(* the parser reuses it.                                                   *)
(***************************************************************************)
EXTENDS Naturals, Sequences, SequencesExt, FiniteSets

CONSTANTS
    Reqs,          \* requests that go through this dynamic block
    Names,         \* names get_name() may return
    SubIds,        \* memory slots for holders and parsed sub-configurations
    NameBlocking,  \* is_name_blocking: get_name() never yields
    ConfResults,   \* results of one resume of get_conf()
    CheckOn,       \* check_interval > 0 in the sub-configurations
    IdleOn,        \* idle_timeout > 0 in the sub-configurations
    NULL

ASSUME ConfResults \subseteq {"again", "200", "304", "404", "500", "invalid"}
ASSUME NameBlocking \in BOOLEAN /\ CheckOn \in BOOLEAN /\ IdleOn \in BOOLEAN

\* error_ret values: H2D_OK (calloc's 0), H2D_ERROR, WUY_HTTP_500, WUY_HTTP_404
Errs == {"OK", "ERROR", "500", "404"}

VARIABLES
    sub,     \* sub[i]: the h2d_dynamic_conf in slot i
    dict,    \* sub_dict: name -> slot
    ctx,     \* ctx[r]: r->dynamic_ctx->sub_dyn
    status   \* where request r is: "run", "wait" (holder queue), "done", "failed"

vars == <<sub, dict, ctx, status>>

\* A zeroed h2d_dynamic_conf, as calloc returns it.
Blank == [used |-> FALSE, name |-> NULL, holder |-> FALSE, err |-> "OK",
          timer |-> "none", waitQ |-> <<>>]

\* Slots calloc or the parser may return.  A freed slot still targeted by
\* an armed timer is left out: the timer would fire on the new owner.
FreeSlots(s) == {i \in SubIds : ~s[i].used /\ s[i].timer = "none"}

\* get_name(): a name, NULL, or a yield of the non-blocking Lua thread.
NameOutcomes == Names \cup {"null"} \cup (IF NameBlocking THEN {} ELSE {"again"})

Init ==
    /\ sub = [i \in SubIds |-> Blank]
    /\ dict = [n \in Names |-> NULL]
    /\ ctx = [r \in Reqs |-> NULL]
    /\ status = [r \in Reqs |-> "run"]

Cur == [sub |-> sub, dict |-> dict, ctx |-> ctx, status |-> status]

Commit(st) ==
    /\ sub' = st.sub
    /\ dict' = st.dict
    /\ ctx' = st.ctx
    /\ status' = st.status

\* h2d_request_active_list on a holder's queue: the queued requests run again.
Wake(st, i) ==
    [r \in Reqs |-> IF r \in ToSet(st.sub[i].waitQ) THEN "run" ELSE st.status[r]]

(***************************************************************************)
(* h2d_dynamic_delete: a holder wakes its queue; the timer is deleted, the *)
(* entry removed from sub_dict (by node, whatever its name) and freed.     *)
(***************************************************************************)
Delete(st, i) ==
    [st EXCEPT
        !.status = IF st.sub[i].holder THEN Wake(st, i) ELSE @,
        !.sub[i] = [@ EXCEPT !.used = FALSE, !.timer = "none",
                             !.waitQ = IF st.sub[i].holder THEN <<>> ELSE @],
        !.dict = [n \in Names |-> IF @[n] = i THEN NULL ELSE @[n]]]

(***************************************************************************)
(* not_ok, holder branch: cache the error, arm the error_expire timer and  *)
(* wake the queue.  A second timer_new on a holder that already has one    *)
(* leaves the first armed; both have the same delay, so the first fires    *)
(* first and deletes the holder (and the second): one expiry, as here.     *)
(***************************************************************************)
CacheErrorNoWake(st, i, ret) ==
    [st EXCEPT !.sub[i] = [@ EXCEPT !.err = ret, !.timer = "error"]]

CacheError(st, i, ret) ==
    [st EXCEPT !.status = Wake(st, i),
               !.sub[i] = [@ EXCEPT !.err = ret, !.timer = "error", !.waitQ = <<>>]]

(***************************************************************************)
(* not_ok: AGAIN returns and is resumed later; with no sub the request     *)
(* fails; a holder caches the error and the request fails; a cached sub    *)
(* ignores the error and is used.  is_just_holder is read through          *)
(* ctx->sub_dyn, which may already be freed.                               *)
(***************************************************************************)
NotOkNoAgain(st, r, ret) ==
    LET i == st.ctx[r] IN
    CASE i = NULL -> [st EXCEPT !.status[r] = "failed"]
      [] st.sub[i].holder -> [CacheError(st, i, ret) EXCEPT !.status[r] = "failed"]
      [] OTHER -> [st EXCEPT !.status[r] = "done"]

NotOk(st, r, ret) ==
    LET i == st.ctx[r] IN
    CASE ret = "again" -> st
      [] i = NULL -> [st EXCEPT !.status[r] = "failed"]
      [] st.sub[i].holder -> [CacheError(st, i, ret) EXCEPT !.status[r] = "failed"]
      [] OTHER -> [st EXCEPT !.status[r] = "done"]

(***************************************************************************)
(* get_conf() returned a table that parsed into a container in slot j:     *)
(* the name moves to it, the old entry is deleted ("replaced"), the new    *)
(* one is added to sub_dict with an idle timer, and becomes ctx->sub_dyn.  *)
(* A NULL name (the old entry was replaced already) is not added.          *)
(***************************************************************************)
Replace(st, r, j) ==
    LET i == st.ctx[r]
        n == st.sub[i].name
        st1 == Delete([st EXCEPT !.sub[i].name = NULL], i)
    IN [st1 EXCEPT !.sub[j] = [Blank EXCEPT !.used = TRUE, !.name = n,
                                  !.timer = IF IdleOn THEN "idle" ELSE "none"],
                   !.dict = IF n \in Names THEN [@ EXCEPT ![n] = j] ELSE @,
                   !.ctx[r] = j,
                   !.status[r] = "done"]

(***************************************************************************)
(* state_get_conf: one resume of get_conf() for ctx->sub_dyn and what      *)
(* h2d_dynamic_get does with its result.  304 is an error for a holder;    *)
(* 404 deletes the entry before not_ok reads it; a parse error and a       *)
(* non-table result are H2D_ERROR.  The parser needs a free slot.          *)
(***************************************************************************)
GetConf(st, r) ==
    LET i == st.ctx[r]
        Result(o) ==
            CASE o = "again" -> {NotOk(st, r, "again")}
              [] o = "200" -> {Replace(st, r, j) : j \in FreeSlots(st.sub)}
              [] o = "304" -> IF st.sub[i].holder THEN {NotOk(st, r, "ERROR")}
                              ELSE {[st EXCEPT !.status[r] = "done"]}
              [] o = "404" -> {NotOk(Delete(st, i), r, "404")}
              [] o = "500" -> {NotOk(st, r, "500")}
              [] o = "invalid" -> {NotOk(st, r, "ERROR")}
    IN UNION {Result(o) : o \in ConfResults}

\* No entry: calloc a holder for the name and add it to sub_dict.
NewHolder(st, r, n, j) ==
    [st EXCEPT !.sub[j] = [Blank EXCEPT !.used = TRUE, !.name = n, !.holder = TRUE],
               !.dict[n] = j,
               !.ctx[r] = j]

\* A holder: its cached error, or the request queues on it.
HolderHit(st, r, i) ==
    IF st.sub[i].err # "OK"
    THEN NotOk([st EXCEPT !.ctx[r] = i], r, st.sub[i].err)
    ELSE [st EXCEPT !.sub[i].waitQ = Append(@, r), !.status[r] = "wait"]

\* h2d_dynamic_need_check_conf: never for a holder or check_interval 0;
\* otherwise the interval may have elapsed and check_filter may pass.
NeedCheck(st, i) == IF st.sub[i].holder \/ ~CheckOn THEN {FALSE} ELSE BOOLEAN

\* A cached sub (its idle timer re-armed): used, or checked by get_conf().
Hit(st, r, i) ==
    LET st1 == [st EXCEPT !.ctx[r] = i] IN
    UNION {IF c THEN GetConf(st1, r) ELSE {[st1 EXCEPT !.status[r] = "done"]}
           : c \in NeedCheck(st, i)}

\* The get_name() result and the sub_dict search.
Lookup(st, r, x) ==
    CASE x = "again" -> {NotOk(st, r, "again")}
      [] x = "null" -> {NotOk(st, r, "ERROR")}
      [] st.dict[x] = NULL -> UNION {GetConf(NewHolder(st, r, x, j), r) : j \in FreeSlots(st.sub)}
      [] st.sub[st.dict[x]].holder -> {HolderHit(st, r, st.dict[x])}
      [] OTHER -> Hit(st, r, st.dict[x])

\* h2d_dynamic_get: resume get_conf() if a sub is in processing already.
DynamicGet(st, r) ==
    IF st.ctx[r] # NULL THEN GetConf(st, r)
    ELSE UNION {Lookup(st, r, x) : x \in NameOutcomes}

Get(r) ==
    /\ status[r] = "run"
    /\ \E st \in DynamicGet(Cur, r) : Commit(st)

(***************************************************************************)
(* The request ends: h2d_dynamic_ctx_free deletes a holder it points to    *)
(* unless the holder has a timer (a cached error).  A queued request is    *)
(* not ended here: removing it from the holder queue is outside this file. *)
(***************************************************************************)
FinishKeepHolder(r) ==
    /\ status[r] # "wait"
    /\ Commit([Cur EXCEPT !.ctx[r] = NULL, !.status[r] = "run"])

Finish(r) ==
    /\ status[r] # "wait"
    /\ LET i == ctx[r]
           st == IF i # NULL /\ sub[i].holder /\ sub[i].timer = "none"
                 THEN Delete(Cur, i) ELSE Cur
       IN Commit([st EXCEPT !.ctx[r] = NULL, !.status[r] = "run"])

\* h2d_dynamic_timeout_handler: the armed idle or error_expire timer fires.
TimerFire(i) ==
    /\ sub[i].timer \in {"idle", "error"}
    /\ Commit(Delete(Cur, i))

Next ==
    \/ \E r \in Reqs : Get(r)
    \/ \E r \in Reqs : Finish(r)
    \/ \E i \in SubIds : TimerFire(i)

Spec == Init /\ [][Next]_vars

\* The event loop fires every armed timer whose time has come, and every
\* request ends: its client closes or the server's timeouts close it.
FairSpec == Spec /\ \A i \in SubIds : WF_vars(TimerFire(i))
                 /\ \A r \in Reqs : WF_vars(Finish(r))

-----------------------------------------------------------------------------
(* Properties *)

\* Every variable has its type; in particular error_ret only ever caches a
\* final result of get_conf(), never the H2D_AGAIN of a yielding thread.
TypeOK ==
    /\ \A i \in SubIds :
        /\ sub[i].used \in BOOLEAN /\ sub[i].holder \in BOOLEAN
        /\ sub[i].name \in Names \cup {NULL}
        /\ sub[i].err \in Errs
        /\ sub[i].timer \in {"none", "idle", "error"}
        /\ sub[i].waitQ \in Seq(Reqs)
    /\ dict \in [Names -> SubIds \cup {NULL}]
    /\ ctx \in [Reqs -> SubIds \cup {NULL}]
    /\ status \in [Reqs -> {"run", "wait", "done", "failed"}]

\* r->dynamic_ctx->sub_dyn never points at a freed entry: neither while
\* get_conf() runs for it, nor after the request got its configuration or
\* error, when ctx_free still reads it.
CtxSubLive == \A r \in Reqs : ctx[r] # NULL => sub[ctx[r]].used

\* A request is queued exactly when it is on the queue of a live holder
\* whose get_conf() is still pending: delete and error caching wake every
\* queued request, and nobody is woken who was not queued.
Pending(i) == sub[i].used /\ sub[i].holder /\ sub[i].err = "OK"
NoLostWaiter ==
    \A r \in Reqs :
        status[r] = "wait" <=> \E i \in SubIds : Pending(i) /\ r \in ToSet(sub[i].waitQ)

\* A request queued on a holder runs again eventually: the holder's owner
\* finishes get_conf() or ends, and either wakes the queue.
WaiterEventuallyRuns == \A r \in Reqs : status[r] = "wait" ~> status[r] # "wait"
=============================================================================
