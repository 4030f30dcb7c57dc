\* Only the opening of the object database may throw.
CONSTANTS
    Parts = {"daemon"}
    outer = outer
    inner = inner
    store = store
    Dirs <- MCDirs
    Path <- MCPath
    Relative = relative
    NoDir = none
    Bare = {store}
    Ttl = 1
    MaxPending = 1
    Faults = {"odb"}
    MaxQueries = 3
    MaxKills = 1
    Segments = {1, 2}
    MaxInvokes = 3
    MaxAsync = 2
    LongMax = 7
    Values <- MCValues
    ThreadCounts = {0, 2}
    IndexSizes = {0, 2, 3, 7}
    MaxOptions = 2
SPECIFICATION PartSpec
PROPERTY RequestAnswered
CHECK_DEADLOCK FALSE
