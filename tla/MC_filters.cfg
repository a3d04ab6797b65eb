\* A request (any path of up to three characters) on a host with two Path()s, three modules whose filter chains
\* differ by stage and by path, one H2D_AGAIN per request.
CONSTANTS
    Mods = {0, 1, 2}
    HasFilter <- MCHasFilter
    DefRank <- MCDefRank
    Paths <- MCPaths
    Ranks <- MCRanks
    NoRank = NoRank
    NUL = NUL
    Reqs = {r1}
    Names <- MCNames
    AgainBound = 1
SPECIFICATION Spec
INVARIANTS
    TypeOK
    FiltersResumeInOrder
    StageCompleteBeforeNext
    ServedByFirstMatch
\* The model stops once every request is freed; nothing more happens then.
CHECK_DEADLOCK FALSE
