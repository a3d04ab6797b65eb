---------------------------- MODULE MC_Upstream ----------------------------
(* Instances of Upstream for TLC.  Endpoints are small integers ordered as *)
(* the resolver's comparator orders them.                                 *)
EXTENDS Upstream

\* one resolvable hostname that resolved to endpoint 1 at start
MCStartOne == <<{1}>>
\* two resolvable hostnames
MCStartTwo == <<{1}, {2}>>
\* a literal address (entry 1) and a hostname (entry 2)
MCStartStaticDyn == <<{1}, {2}>>

\* non-empty answers over endpoints {1, 2}
MCAnswersNonEmpty == {{1}, {2}, {1, 2}}
MCAnswersAll == {{}, {1}, {2}, {1, 2}}
=============================================================================
