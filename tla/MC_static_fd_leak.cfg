\* One request and a static{} block with neither list_dir nor index: a GET
\* of a directory.
CONSTANTS
    Reqs = {r1}
    Targets <- MCTargets
    Kind <- MCKind
    IndexKind <- MCIndexKind
    Confs <- MCConfsBare
    Fds = {0, 1, 2, 3, 4, 5}
    Preopen = {0, 1, 2, 3}
SPECIFICATION Spec
INVARIANT
    FdsAccounted
