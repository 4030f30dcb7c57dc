-------------------------------- MODULE Shards --------------------------------
(***************************************************************************)
(* How the scans divide their work (repo.cc: UpdateShards, ShardContains, and   *)
(* the loop of StartDirtyScan).  UpdateShards cuts the index at            *)
(* directories, into ranges of paths, which serve to find changes, and     *)
(* ranges of indices, which serve to count entries.  StartDirtyScan gives  *)
(* the candidates to the shards their paths are in.                        *)
(*                                                                         *)
(* A path is a sequence of character codes.  A repository compares paths   *)
(* with or without their case.  Indices are counted from 0, as in the      *)
(* code; sequences from 1.                                                 *)
(***************************************************************************)
EXTENDS Integers, Sequences, FiniteSets

CONSTANTS
    Chars,             \* character codes
    Dot, Slash,        \* '.' and '/', which follows it
    Lower,             \* tolower
    Paths,             \* what git may find in a work tree
    MaxIndexSize, MaxCandidates,   \* bounds on what a run tries
    kEntriesPerShard,
    PoolSizes          \* GlobalThreadPool()->num_threads()

String == Seq(Chars)

ASSUME ShardsAssumption ==
    /\ Chars \subseteq Nat /\ Dot \in Chars /\ Slash \in Chars /\ Slash = Dot + 1
    /\ Lower \in [Chars -> Chars] /\ Lower[Dot] = Dot /\ Lower[Slash] = Slash
    /\ Paths \subseteq String
    /\ MaxIndexSize \in Nat /\ MaxCandidates \in Nat /\ kEntriesPerShard \in Nat \ {0, 1}
    /\ PoolSizes \subseteq Nat \ {0}

VARIABLES
    step,          \* "idle", "loop", "cut", "scan" or "scanned"
    insensitive,   \* the repository ignores the case of paths
    index,         \* the paths of the entries of git_index_
    nshards,       \* the local shards of UpdateShards: so many at most
    i,             \* its loop counter
    last_s, last_i,   \* where the next shard begins
    shards_,       \* Repo::shards_
    paths,         \* the candidates of StartDirtyScan
    shard,         \* its iterator into shards_
    ranges         \* the scans it has started

shardsVars == <<step, insensitive, index, nshards, i, last_s, last_i, shards_, paths, shard, ranges>>

ShardsInit ==
    /\ step = "idle" /\ insensitive = FALSE /\ index = << >>
    /\ nshards = 0 /\ i = 0 /\ last_s = << >> /\ last_i = 0 /\ shards_ = << >>
    /\ paths = << >> /\ shard = 1 /\ ranges = << >>

-----------------------------------------------------------------------------
\* Strings.

Key(c) == IF insensitive THEN Lower[c] ELSE c

\* x is a proper prefix of y, or smaller where they first differ.
Lt(x, y) ==
    \E k \in 1..Len(y) :
       /\ \A j \in 1..(k - 1) : j <= Len(x) /\ Key(x[j]) = Key(y[j])
       /\ k <= Len(x) => Key(x[k]) < Key(y[k])

Leading(s, n) == SubSeq(s, 1, IF Len(s) < n THEN Len(s) ELSE n)

\* Shard::Contains.  A path behind end_s still belongs to the shard if it
\* begins with end_s.
ShardContains_Whole(sh, path) == ~Lt(path, sh.start_s) /\ (sh.end_s = << >> \/ ~Lt(sh.end_s, path))
ShardContains(sh, path) ==
    /\ ~Lt(path, sh.start_s)
    /\ sh.end_s = << >> \/ ~Lt(sh.end_s, Leading(path, Len(sh.end_s)))

SortedBy(s) == \A j \in 1..(Len(s) - 1) : ~Lt(s[j + 1], s[j])

-----------------------------------------------------------------------------
\* UpdateShards.

Entry(n) == index[n + 1]

\* The index has been read: an entry may occur at several stages.
UpdateShards(entries, fold, threads) ==
    /\ step = "idle"
    /\ insensitive' = fold /\ index' = entries
    /\ SortedBy(entries)'
    /\ IF Len(entries) <= kEntriesPerShard \/ threads < 2
       THEN /\ shards_' = <<[start_s |-> << >>, end_s |-> << >>,
                             start_i |-> 0, end_i |-> Len(entries)]>>
            /\ step' = "cut" /\ nshards' = 1
       ELSE /\ shards_' = << >> /\ step' = "loop"
            /\ nshards' = LET most == Len(entries) \div kEntriesPerShard + 1
                         IN  IF most < 2 * threads THEN most ELSE 2 * threads
    /\ UNCHANGED <<i, last_s, last_i, paths, shard, ranges>>

idx == ((i + 1) * Len(index)) \div nshards

\* The directory of the entry at idx ends at its last '/'.
IsLastSlash(k) ==
    Entry(idx)[k] = Slash /\ \A j \in (k + 1)..Len(Entry(idx)) : Entry(idx)[j] # Slash
split(k) == SubSeq(Entry(idx), 1, k)
Before(dir) == [dir EXCEPT ![Len(dir)] = Dot]    \* --end_s.back()

CutsAt_AnyDir(k) == IsLastSlash(k)
CutsAt(k) == IsLastSlash(k) /\ Lt(last_s, Before(split(k)))

\* One iteration: a cut in front of the directory of the entry at idx,
\* unless it is the top directory, or one the last shard begins with.
Cut ==
    /\ step = "loop" /\ i # nshards - 1
    /\ \E k \in 1..Len(Entry(idx)) :
          /\ CutsAt(k)
          /\ shards_' = Append(shards_, [start_s |-> last_s, end_s |-> Before(split(k)),
                                         start_i |-> last_i, end_i |-> idx])
          /\ last_s' = split(k)
    /\ last_i' = idx /\ i' = i + 1
    /\ UNCHANGED <<step, insensitive, index, nshards, paths, shard, ranges>>

NoCut ==
    /\ step = "loop" /\ i # nshards - 1
    /\ \A k \in 1..Len(Entry(idx)) : ~CutsAt(k)
    /\ i' = i + 1
    /\ UNCHANGED <<step, insensitive, index, nshards, last_s, last_i, shards_, paths, shard, ranges>>

LastCut ==
    /\ step = "loop" /\ i = nshards - 1
    /\ shards_' = Append(shards_, [start_s |-> last_s, end_s |-> << >>,
                                   start_i |-> last_i, end_i |-> Len(index)])
    /\ step' = "cut"
    /\ UNCHANGED <<insensitive, index, nshards, i, last_s, last_i, paths, shard, ranges>>

-----------------------------------------------------------------------------
\* StartDirtyScan.

\* GetDirtyCandidates returns them sorted, and none beside itself (Collect).
StartDirtyScan(candidates) ==
    /\ step = "cut"
    /\ SortedBy(candidates)
    /\ \A j \in 1..(Len(candidates) - 1) : candidates[j] # candidates[j + 1]
    /\ paths' = candidates /\ step' = "scan"
    /\ UNCHANGED <<insensitive, index, nshards, i, last_s, last_i, shards_, shard, ranges>>

\* How many candidates have been given to a scan.
Given == IF ranges = << >> THEN 0 ELSE ranges[Len(ranges)].last

\* while (!shard->Contains(str, StringView(*p))) ++shard;
NextShard ==
    /\ step = "scan" /\ Given < Len(paths) /\ shard <= Len(shards_)
    /\ ~ShardContains(shards_[shard], paths[Given + 1])
    /\ shard' = shard + 1
    /\ UNCHANGED <<step, insensitive, index, nshards, i, last_s, last_i, shards_, paths, ranges>>

\* One scan for this candidate and those after it in the same shard.
RunScan ==
    /\ step = "scan" /\ Given < Len(paths) /\ shard <= Len(shards_)
    /\ ShardContains(shards_[shard], paths[Given + 1])
    /\ \E n \in (Given + 1)..Len(paths) :
          /\ \A j \in (Given + 1)..n : ShardContains(shards_[shard], paths[j])
          /\ n < Len(paths) => ~ShardContains(shards_[shard], paths[n + 1])
          /\ ranges' = Append(ranges, [shard |-> shard, first |-> Given + 1, last |-> n])
    /\ UNCHANGED <<step, insensitive, index, nshards, i, last_s, last_i, shards_, paths, shard>>

Scanned ==
    /\ step = "scan" /\ Given = Len(paths)
    /\ step' = "scanned"
    /\ UNCHANGED <<insensitive, index, nshards, i, last_s, last_i, shards_, paths, shard, ranges>>

\* Where an action has many inputs, its first guard stands before them.
ShardsNext ==
    \/ /\ step = "idle"
       /\ \E n \in 0..MaxIndexSize, fold \in BOOLEAN, threads \in PoolSizes :
             \E entries \in [1..n -> Paths] : UpdateShards(entries, fold, threads)
    \/ Cut \/ NoCut \/ LastCut
    \/ /\ step = "cut"
       /\ \E n \in 0..MaxCandidates :
             \E candidates \in [1..n -> Paths] : StartDirtyScan(candidates)
    \/ NextShard \/ RunScan \/ Scanned

ShardsSpec == ShardsInit /\ [][ShardsNext]_shardsVars

-----------------------------------------------------------------------------
Cuts == step \in {"cut", "scan", "scanned"}

(* Every path git may find, in the index or not, is in exactly one shard,  *)
(* so that no change is missed and none is counted twice.                  *)
OneShardEach ==
    Cuts => \A path \in Paths :
       \E k \in 1..Len(shards_) :
          \A j \in 1..Len(shards_) : ShardContains(shards_[j], path) <=> j = k

(* The ranges of indices follow one another from 0 to the size of the      *)
(* index, and no CHECK at the end of UpdateShards fails.                   *)
ChecksHold ==
    Cuts =>
       /\ Len(shards_) \in 1..nshards
       /\ shards_[1].start_s = << >> /\ shards_[1].start_i = 0
       /\ shards_[Len(shards_)].end_s = << >> /\ shards_[Len(shards_)].end_i = Len(index)
       /\ \A k \in 2..Len(shards_) :
             /\ Leading(Entry(shards_[k].start_i), Len(shards_[k].start_s)) = shards_[k].start_s
             /\ Lt(shards_[k - 1].end_s, shards_[k].start_s)
             /\ shards_[k - 1].end_i = shards_[k].start_i
             /\ shards_[k - 1].start_i < shards_[k - 1].end_i
             /\ Lt(shards_[k - 1].start_s, shards_[k - 1].end_s)

(* The iterator of StartDirtyScan does not run past the last shard, and    *)
(* the scan of each candidate is one that covers its path.                 *)
CandidatesCovered ==
    /\ shards_ # << >> => shard <= Len(shards_)
    /\ \A r \in 1..Len(ranges) :
          \A j \in ranges[r].first..ranges[r].last : ShardContains(shards_[ranges[r].shard], paths[j])
    /\ \A r \in 2..Len(ranges) : ranges[r].shard > ranges[r - 1].shard

(* The cuts pass the CHECKs, and the loop over the candidates uses them    *)
(* as they are meant.                                                      *)
ShardsRight == ChecksHold /\ CandidatesCovered
===============================================================================
