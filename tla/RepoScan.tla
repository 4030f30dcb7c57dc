------------------------------ MODULE RepoScan ------------------------------
(***************************************************************************)
(* One Repo of gitstatusd (repo.cc): GetIndexStats on the main thread, the *)
(* staged and dirty scans it starts on the thread pool, one per shard of   *)
(* the index, and the counters and the mutex they share.                   *)
(*                                                                         *)
(* A scan is modelled delta by delta: libgit2 finds the changes of a shard *)
(* in an arbitrary order of their statuses and calls notify_cb for each.   *)
(* What libgit2 finds is data: StagedDeltas says how the index differs     *)
(* from HEAD's tree, trees how the working tree may differ from the index. *)
(* Scans are taken in any order: the order in which the pool (ThreadPool)  *)
(* starts them only removes interleavings.                                 *)
(***************************************************************************)
EXTENDS Integers, FiniteSets, Functions

CONSTANTS
    Shards,        \* the shards of the index
    Heads,         \* commits HEAD may point to
    NoHead,        \* HEAD of an empty repository
    Indexes,       \* versions of the index file
    NoIndex,       \* git_index_ before the first request
    StagedDeltas,  \* [head][index][shard][status]: changes from HEAD to index
    Entries,       \* [index][shard]: entries, intent-to-add and skip-worktree ones
    Trees,         \* [shard][status]: what the working tree may look like
    Limits,        \* lim_: the most to report of each kind, and dirtyMaxIndexSize
    NumThreads,    \* threads of the pool
    Faults         \* what may fail: "index", "commit", "scan", "candidates"

StagedStatus == {"added", "deleted", "modified", "conflicted"}
DirtyStatus == {"untracked", "deleted", "modified"}
Limited == {"staged", "conflicted", "unstaged", "untracked"}
Counters == Limited \cup {"stagedNew", "stagedDeleted", "unstagedDeleted", "skipWorktree"}

ASSUME ScanAssumption ==
    /\ IsFiniteSet(Shards) /\ Shards # {}
    /\ NoHead \notin Heads /\ Trees # {}
    /\ NoIndex \notin Indexes
    /\ \A c \in Limited : Limits[c] \in Nat
    /\ NumThreads \in Nat \ {0}
    /\ Faults \subseteq {"index", "commit", "scan", "candidates"}

ASSUME DataAssumption ==
    /\ \A h \in Heads, i \in Indexes :
          StagedDeltas[h][i] \in [Shards -> [StagedStatus -> Nat]]
    /\ \A i \in Indexes, s \in Shards :
          /\ Entries[i][s] \in [{"all", "intentToAdd", "skipWorktree"} -> Nat]
          /\ Entries[i][s]["intentToAdd"] <= Entries[i][s]["all"]
    /\ Trees \subseteq [Shards -> [DirtyStatus -> Nat]]

VARIABLES
    main,      \* where the main thread is
    lim,       \* lim_, lowered by the git config of the current request
    req,       \* the current request: HEAD, working tree, staged counters reused
    index,     \* version of the index in memory (git_index_)
    head,      \* head_: the commit the staged counters are about
    n,         \* the atomic counters
    error,     \* error_
    inflight,  \* inflight_
    jobs,      \* the scans that have not run DecInflight
    late,      \* failed scans between DecInflight and the end of their catch
    parked,    \* the main thread is in cv_.wait
    cache,     \* untracked_cache_
    failed     \* history: a scan of the current request has failed

vars == <<main, lim, req, index, head, n, error, inflight, jobs, late, parked, cache,
          failed>>

\* Scans of two requests may coexist, if GetDirtyCandidates fails: round tells
\* them apart.
Job == [kind : {"staged", "dirty"}, shard : Shards, round : {0, 1}]

\* A job: what it has left to find, the statuses libgit2 skips, where it is,
\* and the counter it has just incremented with the value it had before.
NewJob(left) == [left |-> left, skip |-> {}, at |-> "start", c |-> "none", v |-> 0]

Request == [head : Heads \cup {NoHead}, tree : Trees, reused : BOOLEAN, round : {0, 1}]

TypeOK ==
    /\ main \in {"idle", "read", "reset", "staged", "dirty", "wait", "verify", "report",
                 "dtor", "freed", "undefined"}
    /\ lim \in [Limited -> Nat]
    /\ req \in Request
    /\ index \in Indexes \cup {NoIndex}
    /\ head \in Heads \cup {NoHead}
    /\ n \in [Counters -> Nat]
    /\ error \in BOOLEAN
    /\ inflight \in Nat
    /\ DOMAIN jobs \subseteq Job
    /\ late \in Nat
    /\ parked \in BOOLEAN
    /\ cache \in {"unknown", "true", "false"}
    /\ failed \in BOOLEAN

FullLimits == [c \in Limited |-> Limits[c]]

Init ==
    /\ main = "idle"
    /\ lim = FullLimits
    /\ req = [head |-> NoHead, tree |-> CHOOSE t \in Trees : TRUE, reused |-> FALSE,
              round |-> 0]
    /\ index = NoIndex
    /\ head = NoHead
    /\ n = [c \in Counters |-> 0]
    /\ error = FALSE
    /\ inflight = 0
    /\ jobs = << >>
    /\ late = 0
    /\ parked = FALSE
    /\ cache = IF Limits["untracked"] > 0 THEN "unknown" ELSE "false"
    /\ failed = FALSE

-----------------------------------------------------------------------------
\* The main thread.

\* lim_ under the config of the repository: untracked says whether
\* status.showUntrackedFiles and bash.showUntrackedFiles leave untracked files
\* on, state is bash.showDirtyState.
Lowered(untracked, state) ==
    [c \in Limited |->
        CASE c = "untracked" -> IF untracked THEN Limits[c] ELSE 0
          [] OTHER           -> IF state THEN Limits[c] ELSE 0]

\* A request reaches GetIndexStats.  HEAD is whatever git has made of it by
\* the time ProcessRequest reads it.  Bound: scans of at most two requests.
Begin ==
    /\ main = "idle"
    /\ \A j \in DOMAIN jobs : j.round = req.round
    /\ main' = "read"
    /\ \E untracked, state \in BOOLEAN : lim' = Lowered(untracked, state)
    /\ \E h \in Heads \cup {NoHead}, tree \in Trees :
         req' = [head |-> h, tree |-> tree, reused |-> FALSE,
                 round |-> IF jobs = << >> THEN 0 ELSE 1 - req.round]
    /\ failed' = FALSE
    /\ UNCHANGED <<index, head, n, error, inflight, jobs, late, parked, cache>>

\* An exception leaves GetIndexStats: lim_ is restored on the way.
Throw ==
    /\ main' = "idle"
    /\ lim' = FullLimits

\* head_ once git_index_read_ex has found a new index.
AfterReload(h) == NoHead

\* git_repository_index, or git_index_read_ex and what a new index resets.  The
\* index file is whatever git has made of it by now.  The first time the index
\* may be there although the request fails: git_attr_get comes after it.  To
\* replace the entries under a scan of an earlier request is undefined behaviour.
ReadIndex ==
    /\ main = "read"
    /\ \/ /\ index' \in Indexes
          /\ head' = IF index \in {NoIndex, index'} THEN head ELSE AfterReload(head)
          /\ main' = IF index \in {NoIndex, index'} \/ jobs = << >> THEN "reset"
                     ELSE "undefined"
          /\ lim' = lim
       \/ /\ "index" \in Faults
          /\ Throw
          /\ IF index = NoIndex THEN index' \in Indexes \cup {NoIndex} ELSE index' = index
          /\ head' = head
    /\ UNCHANGED <<req, n, error, inflight, jobs, late, parked, cache, failed>>

Zero(cs) == [c \in Counters |-> IF c \in cs THEN 0 ELSE n[c]]

\* The counters of the dirty scan and error_ start afresh.
Reset_KeepsUnstaged == [c \in Counters |-> IF c = "untracked" THEN 0 ELSE n[c]]
Reset == Zero({"unstaged", "untracked", "unstagedDeleted"})

ResetDirty ==
    /\ main = "reset"
    /\ error' = FALSE
    /\ n' = Reset
    /\ main' = "staged"
    /\ UNCHANGED <<lim, req, index, head, inflight, jobs, late, parked, cache, failed>>

StagedCounters == {"staged", "conflicted", "stagedNew", "stagedDeleted", "skipWorktree"}

StagedOff == lim["staged"] = 0 /\ lim["conflicted"] = 0

\* Both limits are 0: nothing is counted and head_ forgotten.
StagedNone ==
    /\ StagedOff
    /\ head' = NoHead
    /\ n' = Zero(StagedCounters)
    /\ main' = "dirty"
    /\ UNCHANGED <<lim, req, inflight, jobs>>

\* Whether the staged counters are still those of the commit.
Unchanged(h) == h = head

StagedReuse ==
    /\ ~StagedOff
    /\ req.head # NoHead
    /\ Unchanged(req.head)
    /\ req' = [req EXCEPT !.reused = TRUE]
    /\ main' = "dirty"
    /\ UNCHANGED <<lim, head, n, inflight, jobs>>

\* The scans there are, with the given ones.
Joined(scans) ==
    [j \in DOMAIN scans \cup DOMAIN jobs |-> IF j \in DOMAIN scans THEN scans[j] ELSE jobs[j]]

\* RunAsync for every given scan.
RunAsync_Uncounted(scans) ==
    /\ jobs' = Joined(scans)
    /\ inflight' = inflight
RunAsync(scans) ==
    /\ jobs' = Joined(scans)
    /\ inflight' = inflight + Cardinality(DOMAIN scans)

JobsOf(kind, S) == [kind : {kind}, shard : S, round : {req.round}]

\* StartStagedScan: a scan per shard, unless the commit or its tree cannot be
\* read, which throws after head_ has been set and the counters zeroed.
StagedScan ==
    /\ ~StagedOff
    /\ req.head # NoHead
    /\ ~Unchanged(req.head)
    /\ head' = req.head
    /\ n' = Zero(StagedCounters)
    /\ \/ /\ RunAsync([j \in JobsOf("staged", Shards) |->
                         NewJob(StagedDeltas[req.head][index][j.shard])])
          /\ main' = "dirty"
          /\ lim' = lim
       \/ /\ "commit" \in Faults
          /\ Throw
          /\ UNCHANGED <<inflight, jobs>>
    /\ req' = req

EntryCount(field) == SumFunction([s \in Shards |-> Entries[index][s][field]])

IndexSize == EntryCount("all")

\* What an empty repository has staged: every entry except intent-to-add ones.
StagedInEmpty == IndexSize - EntryCount("intentToAdd")

\* No commit yet: the main thread counts the entries itself.
StagedEmptyRepo ==
    /\ ~StagedOff
    /\ req.head = NoHead
    /\ head' = NoHead
    /\ n' = [Zero(StagedCounters) EXCEPT
               !["staged"] = StagedInEmpty,
               !["stagedNew"] = StagedInEmpty,
               !["skipWorktree"] = EntryCount("skipWorktree")]
    /\ main' = "dirty"
    /\ UNCHANGED <<lim, req, inflight, jobs>>

Staged ==
    /\ main = "staged"
    /\ StagedNone \/ StagedReuse \/ StagedScan \/ StagedEmptyRepo
    /\ UNCHANGED <<index, error, late, parked, cache, failed>>

\* The shards in which GetDirtyCandidates has found a file whose stat differs:
\* those with a change, and possibly others.
CandidateShards(tree) ==
    {S \in SUBSET Shards : \A s \in Shards \ S : \A st \in DirtyStatus : tree[s][st] = 0}

DirtyOn ==
    /\ IndexSize <= Limits["dirtyMaxIndexSize"]
    /\ lim["unstaged"] > 0 \/ lim["untracked"] > 0

\* What the dirty scan of a shard will find; untracked files only if asked for.
DirtyLeft(s) ==
    [st \in DirtyStatus |-> IF st = "untracked" /\ lim["untracked"] = 0 THEN 0
                            ELSE req.tree[s][st]]

\* GetDirtyCandidates and StartDirtyScan.  If GetDirtyCandidates throws, nobody
\* waits for the staged scans of this request.
Dirty ==
    /\ main = "dirty"
    /\ \/ /\ ~DirtyOn
          /\ main' = "wait"
          /\ UNCHANGED <<lim, jobs, inflight>>
       \/ /\ DirtyOn
          /\ \E S \in CandidateShards(req.tree) :
               RunAsync([j \in JobsOf("dirty", S) |-> NewJob(DirtyLeft(j.shard))])
          /\ main' = "wait"
          /\ lim' = lim
       \/ /\ DirtyOn
          /\ "candidates" \in Faults
          /\ Throw
          /\ UNCHANGED <<jobs, inflight>>
    /\ UNCHANGED <<req, index, head, n, error, late, parked, cache, failed>>

WaitOver_OnError == inflight = 0 \/ error
WaitOver == inflight = 0

\* Wait: under the mutex, park or go on.
Wait ==
    /\ main = "wait"
    /\ ~parked
    /\ \/ WaitOver /\ main' = "verify" /\ parked' = FALSE
       \/ ~WaitOver /\ main' = main /\ parked' = TRUE
    /\ UNCHANGED <<lim, req, index, head, n, error, inflight, jobs, late, cache, failed>>

\* VERIFY(!Load(error_)).
Verify ==
    /\ main = "verify"
    /\ \/ ~error /\ main' = "report" /\ lim' = lim
       \/ error /\ Throw
    /\ UNCHANGED <<req, index, head, n, error, inflight, jobs, late, parked, cache, failed>>

\* GetIndexStats returns and lim_ is restored.
Report ==
    /\ main = "report"
    /\ main' = "idle"
    /\ lim' = FullLimits
    /\ UNCHANGED <<req, index, head, n, error, inflight, jobs, late, parked, cache, failed>>

-----------------------------------------------------------------------------
\* A scan on the pool.

\* What a scan does to a repository that is gone is not modelled.
Alive == main \notin {"freed", "undefined"}

Goes(j, rec) == jobs' = [jobs EXCEPT ![j] = rec]

\* Threads of the pool at work for this repository: a failed scan keeps its
\* thread until its catch is done.
Busy == Cardinality({j \in DOMAIN jobs : jobs[j].at # "start"}) + late

\* A thread takes the scan; a staged scan counts skip-worktree entries first.
Start(j) ==
    /\ jobs[j].at = "start"
    /\ Busy < NumThreads
    /\ Goes(j, [jobs[j] EXCEPT !.at = "iter"])
    /\ n' = IF j.kind = "staged"
            THEN [n EXCEPT !["skipWorktree"] = @ + Entries[index][j.shard]["skipWorktree"]]
            ELSE n
    /\ UNCHANGED <<error, inflight, late, parked, failed>>

\* The counter a delta belongs to, and the other one of its scan.
CounterOf(kind, st) ==
    CASE kind = "staged" -> IF st = "conflicted" THEN "conflicted" ELSE "staged"
      [] kind = "dirty"  -> IF st = "untracked" THEN "untracked" ELSE "unstaged"

OtherOf(c) ==
    CASE c = "staged"     -> "conflicted"
      [] c = "conflicted" -> "staged"
      [] c = "unstaged"   -> "untracked"
      [] c = "untracked"  -> "unstaged"

\* The counters notify_cb increments for a delta.
Counted(kind, st) ==
    {CounterOf(kind, st)} \cup
    (CASE kind = "staged" /\ st = "added"   -> {"stagedNew"}
       [] kind = "staged" /\ st = "deleted" -> {"stagedDeleted"}
       [] kind = "dirty" /\ st = "deleted"  -> {"unstagedDeleted"}
       [] OTHER                             -> {})

\* libgit2 finds a change and calls notify_cb, up to OnDelta's increment.
Found(j, st) ==
    /\ jobs[j].at = "iter"
    /\ st \in DOMAIN jobs[j].left \ jobs[j].skip
    /\ jobs[j].left[st] > 0
    /\ ~error
    /\ Goes(j, [jobs[j] EXCEPT !.left[st] = @ - 1, !.at = "decide", !.c = CounterOf(j.kind, st),
                               !.v = n[CounterOf(j.kind, st)]])
    /\ n' = [c \in Counters |-> IF c \in Counted(j.kind, st) THEN n[c] + 1 ELSE n[c]]
    /\ UNCHANGED <<error, inflight, late, parked, failed>>

\* notify_cb sees error_: GIT_EUSER ends the scan of this shard.
FoundAfterError(j) ==
    /\ jobs[j].at = "iter"
    /\ \E st \in DOMAIN jobs[j].left \ jobs[j].skip : jobs[j].left[st] > 0
    /\ error
    /\ Goes(j, [jobs[j] EXCEPT !.at = "dec"])
    /\ UNCHANGED <<n, error, inflight, late, parked, failed>>

\* OnDelta's verdict, from the value before its increment and from the other
\* counter now: go on, skip the deltas of this counter's statuses, or stop.
Verdict_StopsEarly(v, m1, other, m2) ==
    IF v + 1 < m1 THEN "insert" ELSE "stop"
Verdict(v, m1, other, m2) ==
    IF v + 1 < m1 THEN "insert" ELSE IF other < m2 THEN "skip" ELSE "stop"

Decide(j) ==
    /\ jobs[j].at = "decide"
    /\ LET c == jobs[j].c
           verdict == Verdict(jobs[j].v, lim[c], n[OtherOf(c)], lim[OtherOf(c)])
           same == {st \in DOMAIN jobs[j].left : CounterOf(j.kind, st) = c}
       IN Goes(j, [jobs[j] EXCEPT
                     !.at = IF verdict = "stop" THEN "dec" ELSE "iter",
                     !.skip = IF verdict = "skip" THEN @ \cup same ELSE @,
                     !.c = "none", !.v = 0])
    /\ UNCHANGED <<n, error, inflight, late, parked, failed>>

\* libgit2 has nothing more to find in the shard.
Exhausted(j) ==
    /\ jobs[j].at = "iter"
    /\ \A st \in DOMAIN jobs[j].left \ jobs[j].skip : jobs[j].left[st] = 0
    /\ Goes(j, [jobs[j] EXCEPT !.at = "dec"])
    /\ UNCHANGED <<n, error, inflight, late, parked, failed>>

\* libgit2 reports an error and the scan throws.
Fail(j) ==
    /\ "scan" \in Faults
    /\ jobs[j].at = "iter"
    /\ Goes(j, [jobs[j] EXCEPT !.at = "throw"])
    /\ failed' = TRUE
    /\ UNCHANGED <<n, error, inflight, late, parked>>

\* DecInflight wakes the main thread when the counter it has decremented was 1.
LastOut_Never(before) == FALSE
LastOut(before) == before = 1

\* Leaving the scope of ON_SCOPE_EXIT runs DecInflight, on the way to the catch
\* if the scan threw.
DecInflight(j) ==
    /\ jobs[j].at \in {"dec", "throw"}
    /\ jobs' = [i \in DOMAIN jobs \ {j} |-> jobs[i]]
    /\ inflight' = inflight - 1
    /\ parked' = IF LastOut(inflight) THEN FALSE ELSE parked
    /\ late' = IF jobs[j].at = "throw" THEN late + 1 ELSE late
    /\ UNCHANGED <<n, error, failed>>

\* The catch of RunAsync.
Catch ==
    /\ Alive
    /\ late > 0
    /\ late' = late - 1
    /\ error' = TRUE
    /\ parked' = IF error THEN parked ELSE FALSE
    /\ UNCHANGED <<main, lim, req, index, head, n, inflight, jobs, cache, failed>>

JobStep(j) ==
    /\ Alive
    /\ \/ Start(j)
       \/ \E st \in StagedStatus \cup DirtyStatus : Found(j, st)
       \/ FoundAfterError(j)
       \/ Decide(j)
       \/ Exhausted(j)
       \/ DecInflight(j)
    /\ UNCHANGED <<main, lim, req, index, head, cache>>

ScanFails ==
    /\ Alive
    /\ \E j \in DOMAIN jobs : Fail(j)
    /\ UNCHANGED <<main, lim, req, index, head, cache>>

-----------------------------------------------------------------------------
\* The task started by the constructor, which finds out whether the filesystem
\* updates the mtime of directories.
CheckDirMtime ==
    /\ cache = "unknown"
    /\ cache' \in {"true", "false"}
    /\ parked' = FALSE
    /\ UNCHANGED <<main, lim, req, index, head, n, error, inflight, jobs, late, failed>>

\* RepoCache drops the repository and ~Repo runs.
Drop ==
    /\ main = "idle"
    /\ main' = "dtor"
    /\ UNCHANGED <<lim, req, index, head, n, error, inflight, jobs, late, parked, cache, failed>>

\* What ~Repo waits for.
DtorReady == cache # "unknown"

Dtor ==
    /\ main = "dtor"
    /\ ~parked
    /\ \/ DtorReady /\ main' = "freed" /\ parked' = FALSE
       \/ ~DtorReady /\ main' = main /\ parked' = TRUE
    /\ UNCHANGED <<lim, req, index, head, n, error, inflight, jobs, late, cache, failed>>

MainStep == ReadIndex \/ ResetDirty \/ Staged \/ Dirty \/ Wait \/ Verify \/ Report \/ Dtor

Next ==
    \/ Begin
    \/ MainStep
    \/ \E j \in DOMAIN jobs : JobStep(j)
    \/ ScanFails
    \/ Catch
    \/ CheckDirMtime
    \/ Drop

Spec == Init /\ [][Next]_vars

\* The main thread runs, the pool runs every task it is given (ThreadPool), and
\* libgit2 comes to an end.
FairSpec ==
    /\ Spec
    /\ WF_vars(MainStep)
    /\ \A j \in Job : WF_vars(j \in DOMAIN jobs /\ JobStep(j))
    /\ WF_vars(Catch)
    /\ WF_vars(CheckDirMtime)

-----------------------------------------------------------------------------
Least(a, b) == IF a < b THEN a ELSE b

\* What is there to count, in the whole index.
StagedTotal(statuses) ==
    SumFunction([p \in Shards \X statuses |-> StagedDeltas[req.head][index][p[1]][p[2]]])

DirtyTotal(statuses) ==
    SumFunction([p \in Shards \X statuses |-> req.tree[p[1]][p[2]]])

TrueStaged == IF req.head = NoHead THEN StagedInEmpty
              ELSE StagedTotal({"added", "deleted", "modified"})
TrueConflicted == IF req.head = NoHead THEN 0 ELSE StagedTotal({"conflicted"})

Reported(c) == Least(n[c], lim[c])

\* The staged and conflicted counts of an answer are the true ones, cut at the
\* limits: what shards skip or stop early never makes a count too small.  Below
\* the limit the breakdown is exact as well, and skip-worktree entries are
\* counted in full even by shards that stop early.
StagedExact ==
    main = "report" =>
        /\ Reported("staged") = Least(TrueStaged, lim["staged"])
        /\ Reported("conflicted") = Least(TrueConflicted, lim["conflicted"])
        /\ req.head # NoHead /\ TrueStaged < lim["staged"] =>
             /\ n["stagedNew"] = StagedTotal({"added"})
             /\ n["stagedDeleted"] = StagedTotal({"deleted"})
        /\ ~StagedOff => n["skipWorktree"] = EntryCount("skipWorktree")

\* The same for the working tree, unless the index is too large to look.
DirtyExact ==
    main = "report" =>
        /\ Reported("unstaged") =
             IF DirtyOn THEN Least(DirtyTotal({"deleted", "modified"}), lim["unstaged"]) ELSE 0
        /\ Reported("untracked") =
             IF DirtyOn THEN Least(DirtyTotal({"untracked"}), lim["untracked"]) ELSE 0
        /\ req.head # NoHead /\ DirtyOn /\ DirtyTotal({"deleted", "modified"}) < lim["unstaged"] =>
             n["unstagedDeleted"] = DirtyTotal({"deleted"})

\* The counts of an answer that reuses the staged counters are those of HEAD
\* and of the index in memory, although they were counted for another request.
ReusedExact == req.reused => StagedExact

\* inflight_ counts the scans that may still touch the index and the counters.
InflightExact == inflight = Cardinality(DOMAIN jobs)

\* When Wait returns no scan is left, not even one of an earlier request that
\* failed before it waited: error_ and the counters are read undisturbed.
ScansDone == main \in {"verify", "report"} => jobs = << >>

\* ~Repo never frees what the constructor's task is going to use.
NoTaskAfterFree == main = "freed" => cache # "unknown"

\* Each task of the repository is waited for by those who must: the counter of
\* scans is exact, none runs while its results are read, and the task of the
\* constructor is not left behind.
TasksWaitedFor == InflightExact /\ ScansDone /\ NoTaskAfterFree

\* A request during which a scan failed is not answered with counts, as the
\* VERIFY after Wait says.
FailedScanRejected == main = "report" => ~failed

\* Every request comes to an end, whichever scans fail, and so does ~Repo.
RequestEnds == (main \in {"read", "wait", "dtor"}) ~> (main \in {"idle", "freed"})
=============================================================================
