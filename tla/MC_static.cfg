\* Two requests, every static{} block, and two free descriptors besides
\* stdio and the directory: opening an index needs both, so the other
\* request's descriptor makes it fail (EMFILE), and numbers are reused.
CONSTANTS
    Reqs = {r1, r2}
    Targets <- MCTargets
    Kind <- MCKind
    IndexKind <- MCIndexKind
    Confs <- MCConfsAll
    Fds = {0, 1, 2, 3, 4, 5}
    Preopen = {0, 1, 2, 3}
SPECIFICATION Spec
INVARIANTS
    TypeOK
    ServedFileIntact
