\* git may pack the tags while a request looks for one.
CONSTANTS
    Names = {1, 2}
    Commits = {a, b}
    NoCommit = none
    Headers = {"full"}
    NumThreads = 2
SPECIFICATION Spec
INVARIANT HeldTagFound
CHECK_DEADLOCK FALSE
