----------------------------- MODULE MC_Static -----------------------------
EXTENDS Static

\* A regular file, a directory with an index file, a directory whose index
\* is missing, a device node and a missing file.
MCTargets == {"f", "d", "e", "v", "x"}
MCKind == [t \in MCTargets |-> CASE t = "f" -> "reg"
                                 [] t \in {"d", "e"} -> "dir"
                                 [] t = "v" -> "other"
                                 [] OTHER -> "missing"]
MCIndexKind == [t \in MCTargets |-> IF t = "d" THEN "reg" ELSE "missing"]

\* Every static{} block: list_dir and index set or not.
MCConfsAll == [listDir: BOOLEAN, index: BOOLEAN]
\* static{} with neither list_dir nor index.
MCConfsBare == {[listDir |-> FALSE, index |-> FALSE]}
=============================================================================
