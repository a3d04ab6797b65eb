------------------------------ MODULE Filters ------------------------------
(***************************************************************************)
(* The module filter pipeline of src/src/h2d_module.c, composed with the   *)
(* Path() lookup of h2d_conf_host.c (module PathSearch).                   *)
(*                                                                         *)
(* At configuration time h2d_module_filters_post collects, per Path() and  *)
(* per filter stage, the modules that have that filter and sorts them by   *)
(* rank (Chain).  A request is then given its path by                      *)
(* h2d_conf_host_search_pathname and runs the stages in order.  The first  *)
(* three stages are resumable: h2d_module_filter_run keeps the request's   *)
(* place in r->filter_indexs[] and a filter that answers H2D_AGAIN is      *)
(* called again when the request resumes.  The response body stage runs    *)
(* every module on each chunk.                                             *)
(*                                                                         *)
(* The driver (h2d_request.c: when a stage starts, when a request resumes  *)
(* or is closed) is not in the repository; it is the environment here: a   *)
(* request runs its stage again after H2D_AGAIN, moves on after H2D_OK,    *)
(* and may be closed at any stage.  What a filter does is a                *)
(* nondeterministic return value and, possibly, a module context.          *)
(***************************************************************************)
EXTENDS Integers, Sequences, SequencesExt, FiniteSets, PathSearch

CONSTANTS
    Mods,           \* module indexes 0 .. n-1, in h2d_module_next order
    HasFilter,      \* [Mods -> SUBSET Stages]: the filters a module defines
    DefRank,        \* [Mods -> [Stages -> Int]]: m->filters.ranks[]
    Paths,          \* the host's Path()s, each a sequence of pathnames
    Ranks,          \* [PathIds -> [Stages -> [Mods -> Int \cup {NoRank}]]]:
                    \* conf->ranks[][] of each path's filters table
    NoRank,         \* NAN, as h2d_module_filters_init leaves a rank
    Reqs,           \* requests
    Names,          \* the request paths they may carry
    AgainBound      \* bound on the H2D_AGAIN answers of one request

(* H2D_MODULE_FILTER_PROCESS_HEADERS .. RESPONSE_BODY                       *)
Stages == 0 .. 3
ResumableStages == 0 .. 2
RespBodyStage == 3

(* The conf_path a request may get: the default path or one of the host's. *)
PathIds == {DefaultPath} \cup (1 .. Len(Paths))

(* What a filter may return: H2D_OK, H2D_AGAIN, H2D_ERROR or an HTTP       *)
(* status code (positive).                                                  *)
Rets == {"OK", "AGAIN", "ERROR", "STATUS"}

NoMod == -1

(* The request's place outside the filter stages: before the lookup,       *)
(* finished (the response sent or the connection closed), and after        *)
(* h2d_module_request_ctx_free.                                             *)
New == -1
Done == 4
Freed == 5

VARIABLES
    uri,        \* r->req.uri.path
    path,       \* r->conf_path, as its index (NoPath before the lookup)
    stage,      \* New, the filter stage the request is in, Done or Freed
    fidx,       \* r->filter_indexs[]
    terminal,   \* r->filter_terminal
    ctx,        \* the modules m with r->module_ctxs[m->index] != NULL
    log         \* auxiliary: per resumable stage, every filter call made and
                \* its return value

vars == <<uri, path, stage, fidx, terminal, ctx, log>>

(* h2d_module_filter_get_rank, lines 262-269: the path's configured rank,  *)
(* else the module's own.                                                  *)
GetRank(p, s, m) ==
    IF Ranks[p][s][m] # NoRank THEN Ranks[p][s][m] ELSE DefRank[m][s]

(* h2d_module_filter_cmp, lines 270-281: by rank, ties by module index.    *)
FilterBefore(p, s, a, b) ==
    \/ GetRank(p, s, a) < GetRank(p, s, b)
    \/ GetRank(p, s, a) = GetRank(p, s, b) /\ a < b

(* h2d_module_filters_post, lines 330-362: the modules with filter s,      *)
(* sorted by qsort with h2d_module_filter_cmp: conf->modules[s].           *)
Chain(p, s) ==
    SetToSortSeq({m \in Mods : s \in HasFilter[m]},
                 LAMBDA a, b : FilterBefore(p, s, a, b))

NumAgain(r) ==
    Cardinality(UNION {{<<s, t>> : t \in {t \in 1 .. Len(log[r][s]) :
                                               log[r][s][t][2] = "AGAIN"}} :
                       s \in ResumableStages})

Init ==
    /\ uri \in [Reqs -> Names]
    /\ path = [r \in Reqs |-> NoPath]
    /\ stage = [r \in Reqs |-> New]
    /\ fidx = [r \in Reqs |-> [s \in ResumableStages |-> 0]]
    /\ terminal = [r \in Reqs |-> NoMod]
    /\ ctx = [r \in Reqs |-> {}]
    /\ log = [r \in Reqs |-> [s \in ResumableStages |-> <<>>]]

(* The request layer looks the path up; no match ends the request (404,   *)
(* fail_no_path).                                                           *)
Search(r) ==
    LET p == SearchPathname(Paths, uri[r]) IN
    /\ stage[r] = New
    /\ path' = [path EXCEPT ![r] = p]
    /\ stage' = [stage EXCEPT ![r] = IF p = NoPath THEN Done ELSE 0]
    /\ UNCHANGED <<uri, fidx, terminal, ctx, log>>

(* Mutant of Outcomes: the loop stops before the chain's last filter.     *)
OutcomesEarlyEnd(ch, i) ==
    {<<k, ret>> \in (0 .. Len(ch) - i) \X (Rets \cup {"END"}) :
        (i + k >= Len(ch) - 1) = (ret = "END") /\ ret # "OK"}

(* The outcomes of one call of h2d_module_filter_run from index i of chain *)
(* ch: k filters answer H2D_OK, then either the chain ends (ret "END",     *)
(* H2D_OK returned) or the next filter answers ret.                         *)
Outcomes(ch, i) ==
    {<<k, ret>> \in (0 .. Len(ch) - i) \X (Rets \cup {"END"}) :
        (i + k = Len(ch)) = (ret = "END") /\ ret # "OK"}

(* Mutant of FilterRun: r->filter_indexs[index] is advanced past a filter  *)
(* that answered H2D_AGAIN.                                                 *)
FilterRunAdvanceOnAgain(r, s, k, ret) ==
    LET ch == Chain(path[r], s)
        i == fidx[r][s]
        called == [t \in 1 .. k |-> <<ch[i + t], "OK">>] \o
                  (IF ret = "END" THEN <<>> ELSE <<<<ch[i + k + 1], ret>>>>)
    IN
    /\ fidx' = [fidx EXCEPT ![r][s] = IF ret = "AGAIN" THEN i + k + 1 ELSE i + k]
    /\ terminal' = [terminal EXCEPT ![r] = IF ret = "STATUS" THEN ch[i + k + 1] ELSE @]
    /\ log' = [log EXCEPT ![r][s] = @ \o called]
    /\ \E made \in SUBSET {called[t][1] : t \in 1 .. Len(called)} :
          ctx' = [ctx EXCEPT ![r] = @ \cup made]

(* Mutant of FilterRun: the index is stepped past the chain's terminator  *)
(* when the chain ends.                                                     *)
FilterRunIndexPastEnd(r, s, k, ret) ==
    LET ch == Chain(path[r], s)
        i == fidx[r][s]
        called == [t \in 1 .. k |-> <<ch[i + t], "OK">>] \o
                  (IF ret = "END" THEN <<>> ELSE <<<<ch[i + k + 1], ret>>>>)
    IN
    /\ fidx' = [fidx EXCEPT ![r][s] = IF ret = "END" THEN i + k + 1 ELSE i + k]
    /\ terminal' = [terminal EXCEPT ![r] = IF ret = "STATUS" THEN ch[i + k + 1] ELSE @]
    /\ log' = [log EXCEPT ![r][s] = @ \o called]
    /\ \E made \in SUBSET {called[t][1] : t \in 1 .. Len(called)} :
          ctx' = [ctx EXCEPT ![r] = @ \cup made]

(* h2d_module_filter_run, lines 208-225, for the outcome <<k, ret>>: the   *)
(* filters from r->filter_indexs[s] on are called; each H2D_OK advances    *)
(* the index, a non-OK answer is returned with the index left on the      *)
(* filter that gave it, and a status code makes that module the request's *)
(* filter_terminal.  A filter called may create its module context.        *)
FilterRun(r, s, k, ret) ==
    LET ch == Chain(path[r], s)
        i == fidx[r][s]
        called == [t \in 1 .. k |-> <<ch[i + t], "OK">>] \o
                  (IF ret = "END" THEN <<>> ELSE <<<<ch[i + k + 1], ret>>>>)
    IN
    /\ fidx' = [fidx EXCEPT ![r][s] = i + k]
    /\ terminal' = [terminal EXCEPT ![r] = IF ret = "STATUS" THEN ch[i + k + 1] ELSE @]
    /\ log' = [log EXCEPT ![r][s] = @ \o called]
    /\ \E made \in SUBSET {called[t][1] : t \in 1 .. Len(called)} :
          ctx' = [ctx EXCEPT ![r] = @ \cup made]

(* h2d_module_filter_process_headers / _process_body / _response_headers  *)
(* (lines 226-237) as the request layer calls them: after H2D_OK the next *)
(* stage starts, after H2D_AGAIN the request waits to be resumed in the    *)
(* same stage, and an error or status code ends the filter stages.         *)
RunStage(r) ==
    LET s == stage[r] IN
    /\ s \in ResumableStages
    /\ \E o \in Outcomes(Chain(path[r], s), fidx[r][s]) :
          /\ o[2] = "AGAIN" => NumAgain(r) < AgainBound
          /\ FilterRun(r, s, o[1], o[2])
          /\ stage' = [stage EXCEPT ![r] = CASE o[2] = "END" -> s + 1
                                             [] o[2] = "AGAIN" -> s
                                             [] OTHER -> Done]
    /\ UNCHANGED <<uri, path>>

(* h2d_module_filter_response_body, lines 238-255, on one chunk: every     *)
(* module of the chain in turn, from the first, until one returns a        *)
(* negative length.  The last chunk, or an error, ends the stage.          *)
RespBody(r) ==
    LET ch == Chain(path[r], RespBodyStage) IN
    /\ stage[r] = RespBodyStage
    /\ \E k \in 0 .. Len(ch), isLast \in BOOLEAN :
          /\ \E made \in SUBSET {ch[t] : t \in 1 .. Min({k + 1, Len(ch)})} :
                ctx' = [ctx EXCEPT ![r] = @ \cup made]
          /\ stage' = [stage EXCEPT ![r] =
                          IF k < Len(ch) \/ isLast THEN Done ELSE @]
    /\ UNCHANGED <<uri, path, fidx, terminal, log>>

(* The connection closes while the request is in a stage.                  *)
Close(r) ==
    /\ stage[r] \in Stages
    /\ stage' = [stage EXCEPT ![r] = Done]
    /\ UNCHANGED <<uri, path, fidx, terminal, ctx, log>>

(* h2d_module_request_ctx_free, lines 197-206: ctx_free for every module   *)
(* with a context, then every context pointer cleared.                     *)
CtxFree(r) ==
    /\ stage[r] = Done
    /\ ctx' = [ctx EXCEPT ![r] = {}]
    /\ stage' = [stage EXCEPT ![r] = Freed]
    /\ UNCHANGED <<uri, path, fidx, terminal, log>>

Next ==
    \E r \in Reqs :
        \/ Search(r)
        \/ RunStage(r)
        \/ RespBody(r)
        \/ Close(r)
        \/ CtxFree(r)

Spec == Init /\ [][Next]_vars

-----------------------------------------------------------------------------
TypeOK ==
    /\ uri \in [Reqs -> Names]
    /\ path \in [Reqs -> PathIds \cup {NoPath}]
    /\ stage \in [Reqs -> {New, Done, Freed} \cup Stages]
    /\ fidx \in [Reqs -> [ResumableStages -> 0 .. Cardinality(Mods)]]
    /\ terminal \in [Reqs -> Mods \cup {NoMod}]
    /\ ctx \in [Reqs -> SUBSET Mods]
    /\ log \in [Reqs -> [ResumableStages -> Seq(Mods \X Rets)]]

(* Position of module m in chain ch.                                       *)
PosIn(ch, m) == CHOOSE t \in 1 .. Len(ch) : ch[t] = m

(* A resumed stage picks up where it stopped: its first call is of the    *)
(* chain's first filter, a filter that answered H2D_OK is followed by the *)
(* next one of the chain and one that answered H2D_AGAIN by itself, and   *)
(* no filter is called after an error or a status code.  This is what    *)
(* r->filter_indexs[] is kept for across the calls of filter_run.          *)
FiltersResumeInOrder ==
    \A r \in Reqs, s \in ResumableStages :
        LET L == log[r][s]
            ch == Chain(path[r], s)
        IN  /\ Len(L) > 0 => L[1][1] = ch[1]
            /\ \A t \in 1 .. Len(L) - 1 :
                 /\ L[t][2] \in {"OK", "AGAIN"}
                 /\ L[t + 1][1] = IF L[t][2] = "OK"
                                  THEN ch[PosIn(ch, L[t][1]) + 1]
                                  ELSE L[t][1]

(* A request enters the next stage only after every filter of the stage's *)
(* chain has answered H2D_OK, each once and in rank order.                 *)
StageCompleteBeforeNext ==
    \A r \in Reqs, s \in ResumableStages :
        stage[r] \in Stages /\ stage[r] > s =>
            LET ok == SelectSeq(log[r][s], LAMBDA e : e[2] = "OK")
            IN  [t \in 1 .. Len(ok) |-> ok[t][1]] = Chain(path[r], s)

(* A request is served by what the configuration means: once looked up,  *)
(* its conf_path is the first Path() with a pathname that prefixes the    *)
(* request path (no path when none does), as h2d_conf_host's nested loops *)
(* must find it.                                                            *)
ServedByFirstMatch ==
    \A r \in Reqs : stage[r] # New => path[r] = FirstMatch(Paths, uri[r])
=============================================================================
