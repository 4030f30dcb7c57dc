------------------------------- MODULE Collect -------------------------------
(***************************************************************************)
(* GetDirtyCandidates (index.cc): the main thread gives each split of the  *)
(* tree to the pool, waits until all tasks have ended, and returns what    *)
(* they have found, sorted, unless one has failed.  What a task does with  *)
(* a split is in IndexTree and DirScan.                                    *)
(*                                                                         *)
(* A section under the mutex is a step.  A path is a number, and Rank is   *)
(* its place in the order of the repository, where paths that differ only  *)
(* in case may have the same.                                              *)
(***************************************************************************)
EXTENDS Integers, Sequences, FiniteSets, Functions

CONSTANTS
    NumSplits,     \* splits_.size() - 1
    ScanPaths, Rank,
    MaxFound       \* bound: the candidates of a task

ASSUME CollectAssumption ==
    NumSplits \in Nat /\ Rank \in [ScanPaths -> Nat] /\ MaxFound \in Nat

VARIABLES
    collector,     \* the main thread: "schedule", "check", "wait", "awake",
                   \* "returned" or "threw"
    task,          \* what each task is about to do, in the order they are scheduled:
                   \* "scan", "insert", "catch", "leave", or it has "ended"
    candidates,    \* what each has found
    inflight_tasks, error, gathered,   \* inflight, error, res
    broken         \* history: the tasks that have failed

collectVars == <<collector, task, candidates, inflight_tasks, error, gathered, broken>>

CollectInit ==
    /\ collector = "schedule" /\ task = << >> /\ candidates = << >>
    /\ inflight_tasks = NumSplits /\ error = FALSE /\ gathered = << >> /\ broken = {}

ScheduleSplit ==
    /\ collector = "schedule"
    /\ \/ /\ Len(task) < NumSplits
          /\ task' = Append(task, "scan") /\ candidates' = Append(candidates, << >>)
          /\ UNCHANGED collector
       \/ Len(task) = NumSplits /\ collector' = "check" /\ UNCHANGED <<task, candidates>>
    /\ UNCHANGED <<inflight_tasks, error, gathered, broken>>

-----------------------------------------------------------------------------
\* A task, on a thread of the pool.

\* ScanDirs returns; without candidates there is nothing to lock for.
ScanReturns(t, found) ==
    /\ task[t] = "scan" /\ candidates' = [candidates EXCEPT ![t] = found]
    /\ task' = [task EXCEPT ![t] = IF found = << >> THEN "leave" ELSE "insert"]
    /\ UNCHANGED <<collector, inflight_tasks, error, gathered, broken>>

ScanThrows(t) ==
    /\ task[t] = "scan" /\ task' = [task EXCEPT ![t] = "catch"] /\ broken' = broken \cup {t}
    /\ UNCHANGED <<collector, candidates, inflight_tasks, error, gathered>>

InsertFound(t) ==
    /\ task[t] = "insert" /\ task' = [task EXCEPT ![t] = "leave"]
    /\ gathered' = gathered \o candidates[t]
    /\ UNCHANGED <<collector, candidates, inflight_tasks, error, broken>>

StoreError(t) ==
    /\ task[t] = "catch" /\ task' = [task EXCEPT ![t] = "leave"] /\ error' = TRUE
    /\ UNCHANGED <<collector, candidates, inflight_tasks, gathered, broken>>

\* The scope guard is outside of the try: it comes last.
GuardRuns_BeforeCatch(t) == task[t] \in {"catch", "leave"}
GuardRuns(t) == task[t] = "leave"

LeaveTask(t) ==
    /\ GuardRuns(t) /\ task' = [task EXCEPT ![t] = "ended"]
    /\ inflight_tasks' = inflight_tasks - 1
    /\ collector' = IF inflight_tasks' = 0 /\ collector = "wait" THEN "awake" ELSE collector
    /\ UNCHANGED <<candidates, error, gathered, broken>>

-----------------------------------------------------------------------------
\* std::sort by rank, and std::unique, which keeps of equal neighbours the first.
Sorted(s) == \A j, k \in DOMAIN s : j < k => Rank[s[j]] <= Rank[s[k]]
Orders(s) == {[k \in DOMAIN s |-> s[f[k]]] : f \in Bijection(DOMAIN s, DOMAIN s)}
FirstOfRun(s) == {k \in DOMAIN s : k = 1 \/ s[k] # s[k - 1]}
Ascending(S) == {f \in Bijection(1..Cardinality(S), S) : \A i, j \in DOMAIN f : i < j => f[i] < f[j]}
Unique(s) == {[i \in DOMAIN f |-> s[f[i]]] : f \in Ascending(FirstOfRun(s))}

WaitForTasks ==
    /\ collector \in {"check", "awake"}
    /\ \/ inflight_tasks > 0 /\ collector' = "wait" /\ UNCHANGED gathered
       \/ inflight_tasks = 0 /\ error /\ collector' = "threw" /\ UNCHANGED gathered
       \/ /\ inflight_tasks = 0 /\ ~error /\ collector' = "returned"
          /\ \E s \in Orders(gathered) : Sorted(s) /\ gathered' \in Unique(s)
    /\ UNCHANGED <<task, candidates, inflight_tasks, error, broken>>

WakesSpuriously ==
    /\ collector = "wait" /\ collector' = "awake"
    /\ UNCHANGED <<task, candidates, inflight_tasks, error, gathered, broken>>

CollectNext ==
    \/ ScheduleSplit \/ WaitForTasks \/ WakesSpuriously
    \/ \E t \in DOMAIN task :
          \/ ScanThrows(t) \/ InsertFound(t) \/ StoreError(t) \/ LeaveTask(t)
          \/ \E found \in UNION {[1..n -> ScanPaths] : n \in 0..MaxFound} : ScanReturns(t, found)

CollectSpec == CollectInit /\ [][CollectNext]_collectVars

-----------------------------------------------------------------------------
(* GetDirtyCandidates does not return, and with it drop the mutex and the  *)
(* vector the tasks use, before each of them has ended, and does not wait  *)
(* when they have.  It throws if and only if one has failed; otherwise it  *)
(* returns all that was found, in order, and each path once unless another *)
(* differs from it only in case.                                           *)
CollectRight ==
    /\ collector = "wait" => \E t \in DOMAIN task : task[t] # "ended"
    /\ collector \in {"returned", "threw"} =>
          /\ Len(task) = NumSplits /\ Range(task) \subseteq {"ended"}
          /\ collector = "threw" <=> broken # {}
    /\ collector = "returned" =>
          /\ Sorted(gathered) /\ Range(gathered) = UNION {Range(candidates[t]) : t \in DOMAIN candidates}
          /\ \A j, k \in DOMAIN gathered :
                j < k /\ gathered[j] = gathered[k] =>
                   \E i \in j..k : gathered[i] # gathered[j] /\ Rank[gathered[i]] = Rank[gathered[j]]
=============================================================================
