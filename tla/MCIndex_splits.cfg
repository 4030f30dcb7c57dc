CONSTANTS
    Parts = {"tree"}
    Chars <- ShardChars
    Dot = 46
    Slash = 47
    Lower <- ShardLower
    Paths <- ShardPaths
    MaxIndexSize = 4
    MaxCandidates = 2
    kEntriesPerShard = 2
    PoolSizes = {1, 2}
    a = a
    A = A
    ab = ab
    b = b
    x = x
    Folded <- TreeFolded
    NameRank <- TreeNameRank
    DirRank <- TreeDirRank
    Files <- SplitsFiles
    MaxEntries = 4
    Closed = Closed
    kDirStackSize = 2
    kMinShardWeight = 3
    kNumShards = 3
    Names = {1, 2, 3, 4}
    DotGit = 1
    FileNames = {2}
    DirNames = {3}
    FileSystems <- DirFileSystems
    TrustFilemode = FALSE
    Self = Self
    NoStat = NoStat
    MaxChanges = 2
    Checks = {1, 2}
    FsKinds <- MtimeFsKinds
    StaleAge = 1
    MaxClock = 2
    Width = 6
    MaxAlign = 2
    MinBlockSize = 2
    MaxBlockSize = 4
    MaxAllocThreshold = 3
    Starts = {2, 16, 32}
    Singularity = 1000
    AllocSizes = {0, 1, 3, 5}
    Alignments = {1, 4}
    MaxLive = 3
    MaxBlocks = 3
    TagNames = {1, 3, 4}
    Nested = {3}
    DirOf <- TagDirOf
    Heads = {5}
    Commits = {1, 2}
    TagTarget <- TagTargets
    Wanted = 2
    kMaxDerefCount = 2
    MaxRefs = 3
    kFieldSep = 31
    kMsgSep = 30
    Colon = 58
    Zero = 48
    One = 49
    Control = {7, 30, 31}
    kUnreadable = 63
    ShellMessages <- MsgRequests
    FieldValues <- MsgFields
    BufSize = 3
    MaxRequests = 2
    MaxFields = 1
    History <- QueryHistory
    GitRefs <- QueryRefs
    Remotes <- QueryRemotes
    Upstreams <- QueryUpstreams
    MaxGitChanges = 1
    Base = 8
    WordSize = 4
    NameOffset = 5
    kBufSize = 30
    RainyDay = 6
    Luck = 3
    DotByte = 3
    LowerByte <- ListLower
    HeaderByte = 6
    TypeByte = 7
    StaleBytes = {0, 5}
    EntryNames <- ListNames
    MaxListed = 3
    NumSplits = 3
    ScanPaths = {1, 2, 3}
    Rank <- CollectRank
    MaxFound = 1
SPECIFICATION Spec
INVARIANT SplitsFit
CHECK_DEADLOCK FALSE
