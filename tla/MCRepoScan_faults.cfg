\* Everything that may fail may fail.
CONSTANTS
    s1 = s1
    s2 = s2
    h1 = h1
    h2 = h2
    i1 = i1
    i2 = i2
    Shards <- MCShards
    Heads <- FewHeads
    NoHead = NoHead
    Indexes <- FewIndexes
    NoIndex = NoIndex
    StagedDeltas <- FewStagedDeltas
    Entries <- MCEntries
    Trees <- FewTrees
    Limits <- MCLimits
    NumThreads = 2
    Faults = {"index", "commit", "scan", "candidates"}
SPECIFICATION FairSpec
INVARIANT TasksWaitedFor
PROPERTY RequestEnds
CHECK_DEADLOCK FALSE
