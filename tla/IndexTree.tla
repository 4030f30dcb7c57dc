------------------------------ MODULE IndexTree ------------------------------
(***************************************************************************)
(* The tree of directories an Index builds from the entries of the git     *)
(* index, its division among tasks, and the descriptors by which a task    *)
(* walks through its directories (index.cc: InitDirs, InitSplits, OpenTail *)
(* and the first part of the loop of ScanDirs).                            *)
(*                                                                         *)
(* A path is a sequence of names; the path of a directory is <<>> for the  *)
(* top of the work tree.  Sequences are counted from 1, so that splits_    *)
(* holds the number of directories in front of each cut, as in the code.   *)
(* A descriptor is the directory it was opened for, or Closed.             *)
(***************************************************************************)
EXTENDS Integers, Sequences, FiniteSets, SequencesExt

CONSTANTS
    Folded,            \* a name without its case, where case is ignored
    NameRank,          \* the place of a name among the names of a directory
    DirRank,           \* its place if a '/' follows
    Files,             \* paths the index may have
    MaxEntries,        \* a bound on its size
    Closed,            \* the descriptor -1
    kDirStackSize, kMinShardWeight,
    kNumShards         \* 16 times the threads of the pool

ASSUME TreeAssumption ==
    /\ kDirStackSize \in Nat \ {0} /\ kMinShardWeight \in Nat \ {0} /\ kNumShards \in Nat \ {0}
    /\ MaxEntries \in Nat
    /\ Files \subseteq Seq(DOMAIN Folded) \ {<< >>} /\ Closed \notin Seq(DOMAIN Folded)
    /\ NameRank \in [DOMAIN Folded -> Nat] /\ DirRank \in [DOMAIN Folded -> Nat]
    /\ \A m, n \in DOMAIN Folded :
          /\ NameRank[m] # DirRank[n]
          /\ NameRank[m] = NameRank[n] <=> Folded[m] = Folded[n]
          /\ DirRank[m] = DirRank[n] <=> Folded[m] = Folded[n]

VARIABLES
    tree,        \* "new", "entries", "built", "scan", "end" or "aborted"
    entries,     \* the git index
    next,        \* how many of them InitDirs has seen
    stack,       \* its stack of directories, the top one last
    dirs_, splits_,
    at, end,     \* the task has scanned dirs_ up to at and ends at end
    begin,       \* where it began
    dir_fd,      \* its descriptors, 0..kDirStackSize - 1
    opened       \* history: how many it has open

treeVars == <<tree, entries, next, stack, dirs_, splits_, at, end, begin, dir_fd, opened>>

AllClosed == [k \in 0..(kDirStackSize - 1) |-> Closed]
NewDir(path) == [path |-> path, depth |-> Len(path), files |-> << >>, subdirs |-> << >>]

TreeInit ==
    /\ tree = "new" /\ entries = << >> /\ next = 0
    /\ stack = <<NewDir(<< >>)>> /\ dirs_ = << >> /\ splits_ = <<0>>
    /\ at = 0 /\ end = 0 /\ begin = 0 /\ dir_fd = AllClosed /\ opened = 0

-----------------------------------------------------------------------------
\* The order of paths.  A directory sorts as if its name ended with '/'.

RankAt(path, k) == IF k = Len(path) THEN NameRank[path[k]] ELSE DirRank[path[k]]
PathLt(p, q) ==
    \E k \in 1..Len(q) :
       /\ \A j \in 1..(k - 1) : j < Len(p) /\ RankAt(p, j) = RankAt(q, j)
       /\ RankAt(p, k) < RankAt(q, k)

SamePath(p, q) == Len(p) = Len(q) /\ \A j \in 1..Len(p) : Folded[p[j]] = Folded[q[j]]

\* CommonDir: the length, in names, of the longest directory both are in.
CommonDir(dir, path) ==
    CHOOSE k \in 0..Len(dir) :
       /\ k < Len(path) /\ SamePath(SubSeq(dir, 1, k), SubSeq(path, 1, k))
       /\ k < Len(dir) /\ k + 1 < Len(path) => Folded[dir[k + 1]] # Folded[path[k + 1]]

NameLt(a, b) == NameRank[a] < NameRank[b]
SortedNames(names) ==
    CHOOSE s \in {[k \in DOMAIN names |-> names[p[k]]] : p \in Bijection(DOMAIN names, DOMAIN names)} :
       \A j, k \in DOMAIN names : j < k => ~NameLt(s[k], s[j])

\* Index::Index with the entries of git_index_ as they are: sorted, a path
\* once for each of its stages.
BuildIndex(index) ==
    /\ tree = "new"
    /\ \A j \in 1..(Len(index) - 1) : ~PathLt(index[j + 1], index[j])
    /\ entries' = index /\ tree' = "entries"
    /\ UNCHANGED <<next, stack, dirs_, splits_, at, end, begin, dir_fd, opened>>

-----------------------------------------------------------------------------
\* InitDirs.

\* PopDir sorts the subdirectories, which come in the order of their paths.
Popped_AsFound(dir) == dir
Popped(dir) == [dir EXCEPT !.subdirs = SortedNames(dir.subdirs)]

\* The directories above depth k, the deepest first, as dirs_ gets them.
PopTo(k) == [j \in 1..(Len(stack) - k) |-> Popped(stack[Len(stack) + 1 - j])]

\* One iteration: leave the directories the entry is not in, enter those it
\* is in, each a subdirectory of the one before, and put the entry there.
AddEntry ==
    /\ tree = "entries" /\ next < Len(entries)
    /\ LET path   == entries[next + 1]
           common == CommonDir(Last(stack).path, path)
           depth  == Len(path) - 1
           Named(dir, k) == IF k < depth THEN [dir EXCEPT !.subdirs = Append(@, path[k + 1])]
                                         ELSE [dir EXCEPT !.files = Append(@, path)]
       IN  /\ dirs_' = dirs_ \o PopTo(common + 1)
           /\ stack' = [j \in 1..(depth + 1) |->
                           IF j <= common THEN stack[j]
                           ELSE IF j = common + 1 THEN Named(stack[j], common)
                           ELSE Named(NewDir(SubSeq(path, 1, j - 1)), j - 1)]
    /\ next' = next + 1
    /\ UNCHANGED <<tree, entries, splits_, at, end, begin, dir_fd, opened>>

Weight(dir) == 1 + Len(dir.subdirs) + Len(dir.files)
TotalWeight(ds) == FoldSeq(LAMBDA dir, w : w + Weight(dir), 0, ds)

ShardWeight(ds) ==
    LET fair == TotalWeight(ds) \div kNumShards
    IN  IF fair > kMinShardWeight THEN fair ELSE kMinShardWeight

\* InitSplits: cut as soon as enough has been gathered since the last cut.
Gather(ds) ==
    LET Step(dir, acc) ==
           LET w == acc.w + Weight(dir)
           IN  IF w >= ShardWeight(ds)
               THEN [n |-> acc.n + 1, w |-> 0, cuts |-> Append(acc.cuts, acc.n + 1)]
               ELSE [acc EXCEPT !.n = @ + 1, !.w = w]
    IN  FoldLeft(LAMBDA acc, dir : Step(dir, acc), [n |-> 0, w |-> 0, cuts |-> <<0>>], ds).cuts

Splits(ds) == IF Last(Gather(ds)) = Len(ds) THEN Gather(ds) ELSE Append(Gather(ds), Len(ds))

SplitsFitIn(cuts) == Len(cuts) <= kNumShards + 1

\* The end of InitDirs, which pops what is left and reverses dirs_, and
\* InitSplits, whose CHECK ends the daemon.
Built ==
    /\ tree = "entries" /\ next = Len(entries)
    /\ stack' = << >>
    /\ dirs_' = Reverse(dirs_ \o PopTo(0))
    /\ splits_' = Splits(dirs_')
    /\ tree' = IF SplitsFitIn(splits_') THEN "built" ELSE "aborted"
    /\ UNCHANGED <<entries, next, at, end, begin, dir_fd, opened>>

-----------------------------------------------------------------------------
\* ScanDirs: how a task gets the descriptor of each of its directories.

\* OpenTail opens the ancestors of the first directory, the farthest first
\* and kDirStackSize of them at most; if one cannot be opened it closes the
\* others.
OpenTail(path) ==
    [k \in 0..(kDirStackSize - 1) |->
        IF k < Len(path) THEN SubSeq(path, 1, Len(path) - 1 - k) ELSE Closed]

Live(fds) == Cardinality({k \in 0..(kDirStackSize - 1) : fds[k] # Closed})

StartScan(k) ==
    /\ tree = "built"
    /\ begin' = splits_[k] /\ at' = splits_[k] /\ end' = splits_[k + 1]
    /\ dir_fd' \in {AllClosed, OpenTail(dirs_[splits_[k] + 1].path)}
    /\ opened' = Live(dir_fd')
    /\ tree' = "scan"
    /\ UNCHANGED <<entries, next, stack, dirs_, splits_>>

Scanning == tree = "scan" /\ at < end
Dir == dirs_[at + 1]

\* How far above the last directory the parent of this one is.
Up == IF at = begin THEN 0 ELSE dirs_[at].depth + 1 - Dir.depth
Reached == Up < kDirStackSize /\ dir_fd[Up] # Closed

\* std::rotate: what is at Middle comes first.
Middle == (IF Up = 0 THEN kDirStackSize ELSE Up) - 1
Rotated(fds) == [k \in 0..(kDirStackSize - 1) |-> fds[(k + Middle) % kDirStackSize]]
Left(fds) == [k \in 0..(kDirStackSize - 1) |-> IF k < Up THEN Closed ELSE fds[k]]

Slide_Stays(fds, fd) == [Left(fds) EXCEPT ![0] = fd]
Slide(fds, fd) == [Rotated(Left(fds)) EXCEPT ![0] = fd]

\* A failed open closes everything.
OpenFromParent(ok) ==
    /\ Scanning /\ Reached
    /\ dir_fd' = IF ok THEN Slide(dir_fd, Append(dir_fd[Up], Last(Dir.path))) ELSE AllClosed
    /\ opened' = IF ok
                 THEN opened + 1 - (Live(dir_fd) - Live(Left(dir_fd)))
                             - (IF Rotated(Left(dir_fd))[0] = Closed THEN 0 ELSE 1)
                 ELSE opened - Live(dir_fd)
    /\ at' = at + 1
    /\ UNCHANGED <<tree, entries, next, stack, dirs_, splits_, end, begin>>

\* VERIFY throws if the top cannot be duplicated: see EndScan.
OpenFromRoot(ok) ==
    /\ Scanning /\ ~Reached
    /\ Dir.path = << >> => ok
    /\ dir_fd' = IF ok THEN [AllClosed EXCEPT ![0] = Dir.path] ELSE AllClosed
    /\ opened' = opened - Live(dir_fd) + (IF ok THEN 1 ELSE 0)
    /\ at' = at + 1
    /\ UNCHANGED <<tree, entries, next, stack, dirs_, splits_, end, begin>>

\* The end of ScanDirs, regular or by an exception.
EndScan ==
    /\ tree = "scan"
    /\ at < end => ~Reached /\ Dir.path = << >>
    /\ dir_fd' = AllClosed /\ opened' = opened - Live(dir_fd) /\ tree' = "end"
    /\ UNCHANGED <<entries, next, stack, dirs_, splits_, at, end, begin>>

TreeNext ==
    \/ tree = "new" /\ \E n \in 0..MaxEntries : \E index \in [1..n -> Files] : BuildIndex(index)
    \/ AddEntry \/ Built
    \/ \E k \in 1..(Len(splits_) - 1) : StartScan(k)
    \/ \E ok \in BOOLEAN : OpenFromParent(ok) \/ OpenFromRoot(ok)
    \/ EndScan

TreeSpec == TreeInit /\ [][TreeNext]_treeVars

-----------------------------------------------------------------------------
IsIn(path, dir) == Len(dir) < Len(path) /\ SamePath(dir, SubSeq(path, 1, Len(dir)))

(* The tree is that of the index: each directory with an entry below it,   *)
(* the top included, occurs once, with its files in the order of the index *)
(* and its subdirectories each once and in the order of their names, which *)
(* is what the merge with a listing needs.  The shards take all of dirs_   *)
(* among them, each at least one directory.                                *)
TreeExact ==
    tree \in {"built", "scan", "end"} =>
       /\ splits_[1] = 0 /\ Last(splits_) = Len(dirs_)
       /\ \A k \in 1..(Len(splits_) - 1) : splits_[k] < splits_[k + 1]
       /\ \A d \in 1..Len(dirs_) :
             LET dir == dirs_[d]
                 FilesOf == {n \in 1..Len(entries) :
                                IsIn(entries[n], dir.path) /\ Len(entries[n]) = dir.depth + 1}
             IN
             /\ dir.path # << >> => \E n \in 1..Len(entries) : IsIn(entries[n], dir.path)
             /\ \E place \in Bijection(DOMAIN dir.files, FilesOf) :
                   \A k \in DOMAIN dir.files :
                      /\ dir.files[k] = entries[place[k]]
                      /\ \A j \in 1..(k - 1) : place[j] < place[k]
             /\ \A k \in 1..(Len(dir.subdirs) - 1) : NameLt(dir.subdirs[k], dir.subdirs[k + 1])
             /\ \A n \in 1..Len(entries) :
                   IsIn(entries[n], dir.path) /\ Len(entries[n]) > dir.depth + 1 =>
                      \E k \in 1..Len(dir.subdirs) :
                         Folded[dir.subdirs[k]] = Folded[entries[n][dir.depth + 1]]
       /\ \A n \in 1..Len(entries) : \A k \in 0..(Len(entries[n]) - 1) :
             Cardinality({d \in 1..Len(dirs_) : SamePath(dirs_[d].path, SubSeq(entries[n], 1, k))}) = 1
       /\ \E d \in 1..Len(dirs_) : dirs_[d].path = << >>

(* A task reads each of its directories through a descriptor of that       *)
(* directory, whatever could not be opened before, and it has no           *)
(* descriptor open that it does not hold.                                  *)
FdsRight ==
    /\ opened = Live(dir_fd)
    /\ tree = "scan" /\ at > begin /\ dir_fd[0] # Closed => SamePath(dir_fd[0], dirs_[at].path)
    /\ tree = "end" => opened = 0

(* CHECK(splits_.size() <= kNumShards + 1).                                *)
SplitsFit == tree # "aborted"
=============================================================================
