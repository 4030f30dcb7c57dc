\* Nothing fails: what an answer reports.
CONSTANTS
    s1 = s1
    s2 = s2
    h1 = h1
    h2 = h2
    i1 = i1
    i2 = i2
    Shards <- MCShards
    Heads <- MCHeads
    NoHead = NoHead
    Indexes <- MCIndexes
    NoIndex = NoIndex
    StagedDeltas <- MCStagedDeltas
    Entries <- MCEntries
    Trees <- MCTrees
    Limits <- MCLimits
    NumThreads = 4
    Faults = {}
SPECIFICATION Spec
INVARIANTS
    TypeOK
    StagedExact
    DirtyExact
CHECK_DEADLOCK FALSE
