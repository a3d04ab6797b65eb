----------------------------- MODULE MC_Filters -----------------------------
EXTENDS Filters

\* Three modules: 0 has process_headers and response_body filters, 1 has
\* process_headers and process_body, 2 has process_headers and
\* response_headers. 0 and 2 tie on rank, so the index decides.
MCHasFilter == [m \in Mods |-> CASE m = 0 -> {0, 3}
                                 [] m = 1 -> {0, 1}
                                 [] OTHER -> {0, 2}]
MCDefRank == [m \in Mods |-> [s \in Stages |-> IF m = 1 THEN 2 ELSE 1]]

\* Host with Path("/a") and Path({"/", "/b"}): "/b" is served by the second
\* path through "/", which comes first.
MCPaths == << << <<"/", "a">> >>, << <<"/">>, <<"/", "b">> >> >>

\* The second path's filters table ranks module 2's process_headers first.
MCRanks == [p \in {DefaultPath, 1, 2} |->
              [s \in Stages |->
                 [m \in Mods |-> IF p = 2 /\ s = 0 /\ m = 2 THEN 0 ELSE NoRank]]]

\* Every request path of up to three characters.
MCNames == SeqOf({"/", "a", "b"}, 3)
=============================================================================
