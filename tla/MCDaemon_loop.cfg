\* Everything may throw except the opening of the object database.
CONSTANTS
    Parts = {"daemon", "client", "worker", "options"}
    outer = outer
    inner = inner
    store = store
    Dirs <- MCDirs
    Path <- MCPath
    Relative = relative
    NoDir = none
    Bare = {store}
    Ttl = 1
    MaxPending = 1
    Faults = {"discover", "open", "process"}
    MaxQueries = 3
    MaxKills = 1
    Segments = {1, 2}
    MaxInvokes = 3
    MaxAsync = 2
    LongMax = 7
    Values <- MCValues
    ThreadCounts = {0, 2}
    IndexSizes = {0, 2, 3, 7}
    MaxOptions = 2
SPECIFICATION PartSpec
INVARIANTS
    LruExact
    OneAnswer
    TagInsideRequest
    AnswersRight
    OneAtATime
    OptionsAgree
PROPERTIES
    RecentKept
    RequestAnswered
    IdleFrees
    OrphanExits
    QueryReturns
    LatestRuns
CHECK_DEADLOCK FALSE
