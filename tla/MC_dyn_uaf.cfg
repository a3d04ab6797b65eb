\* Two requests on one name, with checks, idle timers, error caching and
\* 404 answers: the entry ctx->sub_dyn points at may be deleted by a 404 and
\* read by not_ok, replaced or expired under a pending get_conf(), or (after
\* a cached error expires) reused and deleted by another request's ctx_free.
CONSTANTS
    Reqs = {r1, r2}
    Names = {n1}
    SubIds = {1, 2, 3}
    NameBlocking = TRUE
    ConfResults = {"again", "200", "500", "404"}
    CheckOn = TRUE
    IdleOn = TRUE
    NULL = NULL
SPECIFICATION Spec
INVARIANT
    CtxSubLive
