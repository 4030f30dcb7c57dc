\* A pool of one thread.
CONSTANTS
    Names = {1, 2}
    Commits = {a}
    NoCommit = none
    Headers = {"full"}
    NumThreads = 1
SPECIFICATION FairSpec
PROPERTY TagArrives
CHECK_DEADLOCK FALSE
