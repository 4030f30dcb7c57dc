\* A pool of two threads: the sort runs beside a later request.
CONSTANTS
    Names = {1, 2}
    Commits = {a, b}
    NoCommit = none
    Headers = {"full", "none"}
    NumThreads = 2
SPECIFICATION Spec
INVARIANTS
    QuietExact
    DirtyMeansSorting
PROPERTY PackStable
SYMMETRY CommitSymmetry
CHECK_DEADLOCK FALSE
