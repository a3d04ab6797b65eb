--------------------------- MODULE AddressRegistry ---------------------------
(***************************************************************************)
(* What the upstream's address registry promises (spec 4.1), with no      *)
(* lists, slots, deletion marks or cursor: each hostname has the set of    *)
(* endpoints its last answer named; the balancer works from a published    *)
(* snapshot, which changes only when a cycle ends and then becomes the     *)
(* union of every hostname's set (kept as it was if that union is empty);  *)
(* a new worker starts again from the configured sets.                     *)
(* Upstream implements it (Upstream!RefinesAddressRegistry).               *)
(***************************************************************************)
EXTENDS FiniteSets

CONSTANTS
    Hosts,      \* the configured hostnames
    Answers,    \* the endpoint sets the resolver may answer with
    Start       \* [Hosts -> SUBSET endpoints]: the configured sets

VARIABLES
    eps,        \* [Hosts -> SUBSET endpoints]: each hostname's endpoints
    lbEps       \* the endpoints of the balancer's snapshot

vars == <<eps, lbEps>>

AllEps(e) == UNION {e[h] : h \in Hosts}

Init ==
    /\ eps = Start
    /\ lbEps = AllEps(Start)

\* An answer for hostname h replaces its set; if it ends the cycle the
\* snapshot may be republished.
Answer(h, E) ==
    /\ eps' = [eps EXCEPT ![h] = E]
    /\ \/ lbEps' = lbEps
       \/ AllEps(eps') # {} /\ lbEps' = AllEps(eps')

Restart ==
    /\ eps' = Start
    /\ lbEps' = AllEps(Start)

Next == Restart \/ \E h \in Hosts, E \in Answers : Answer(h, E)

Spec == Init /\ [][Next]_vars
=============================================================================
