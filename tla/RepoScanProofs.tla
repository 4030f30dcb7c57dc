--------------------------- MODULE RepoScanProofs ---------------------------
(***************************************************************************)
(* Proofs about RepoScan for any index, commits, working trees, limits and *)
(* shards, whatever fails: who is still running when the main thread reads *)
(* the counters, and when it frees the repository.                         *)
(***************************************************************************)
EXTENDS RepoScan, FiniteSetTheorems, FunctionTheorems, WellFoundedInduction, TLAPS

\* inflight_ counts the scans, of which there are finitely many.
Tallied ==
    /\ jobs = [j \in DOMAIN jobs |-> jobs[j]]
    /\ IsFiniteSet(DOMAIN jobs)
    /\ inflight = Cardinality(DOMAIN jobs)

\* A request has started no scan of a kind before the step that does: this is
\* why RunAsync never starts one that is there already.
Fresh ==
    /\ req \in Request
    /\ main \in {"read", "reset", "staged"} => \A j \in DOMAIN jobs : j.round # req.round
    /\ main = "dirty" => \A j \in DOMAIN jobs : j.round # req.round \/ j.kind # "dirty"

IInv == Tallied /\ Fresh /\ ScansDone /\ NoTaskAfterFree

LEMMA InitIInv == Init => IInv
<1> SUFFICES ASSUME Init PROVE IInv
  OBVIOUS
<1>1. jobs = << >> /\ DOMAIN jobs = {} /\ inflight = 0
  BY DEF Init
<1>2. Tallied
  BY <1>1, FS_EmptySet DEF Tallied
<1>3. Fresh /\ ScansDone /\ NoTaskAfterFree
  BY ScanAssumption DEF Init, Request, Fresh, ScansDone, NoTaskAfterFree
<1>4. QED
  BY <1>2, <1>3 DEF IInv

\* As many scans as shards.
LEMMA ScansOfShards ==
  ASSUME NEW S, IsFiniteSet(S), NEW kind
  PROVE  IsFiniteSet(JobsOf(kind, S))
<1> DEFINE f == [s \in S |-> [kind |-> kind, shard |-> s, round |-> req.round]]
<1>1. f \in [S -> JobsOf(kind, S)]
  BY DEF JobsOf
<1>2. ASSUME NEW j \in JobsOf(kind, S)
      PROVE  \E s \in S : f[s] = j
  <2>1. j.shard \in S /\ j = [kind |-> kind, shard |-> j.shard, round |-> req.round]
    BY <1>2 DEF JobsOf
  <2>2. f[j.shard] = j
    BY <2>1
  <2>3. QED
    BY <2>1, <2>2
<1>3. f \in Surjection(S, JobsOf(kind, S))
  BY <1>1, <1>2, Fun_IsSurj
<1>4. QED
  BY <1>3, FS_Surjection

\* RunAsync counts every scan it starts.
LEMMA RunAsyncTallies ==
  ASSUME Tallied, NEW scans, RunAsync(scans), IsFiniteSet(DOMAIN scans),
         DOMAIN scans \cap DOMAIN jobs = {}
  PROVE  Tallied' /\ DOMAIN jobs' = DOMAIN jobs \cup DOMAIN scans
<1>1. jobs' = [j \in DOMAIN scans \cup DOMAIN jobs |->
                 IF j \in DOMAIN scans THEN scans[j] ELSE jobs[j]]
  BY DEF RunAsync, Joined
<1>2. DOMAIN jobs' = DOMAIN scans \cup DOMAIN jobs
  BY <1>1
<1>3. jobs' = [j \in DOMAIN jobs' |-> jobs'[j]]
  BY <1>1
<1>4. IsFiniteSet(DOMAIN scans \cup DOMAIN jobs)
  BY FS_Union DEF Tallied
<1>5. Cardinality(DOMAIN scans \cup DOMAIN jobs) =
        Cardinality(DOMAIN scans) + Cardinality(DOMAIN jobs)
  <2>1. Cardinality(DOMAIN scans \cap DOMAIN jobs) = 0
    BY FS_EmptySet
  <2>2. Cardinality(DOMAIN scans) \in Nat /\ Cardinality(DOMAIN jobs) \in Nat
    BY FS_CardinalityType DEF Tallied
  <2>3. QED
    BY <2>1, <2>2, FS_Union DEF Tallied
<1>6. inflight' = Cardinality(DOMAIN scans \cup DOMAIN jobs)
  <2>1. Cardinality(DOMAIN scans) \in Nat /\ Cardinality(DOMAIN jobs) \in Nat
    BY FS_CardinalityType DEF Tallied
  <2>2. QED
    BY <1>5, <2>1 DEF RunAsync, Tallied
<1>7. QED
  BY <1>2, <1>3, <1>4, <1>6 DEF Tallied

-----------------------------------------------------------------------------
LEMMA BeginKept == IInv /\ Begin => IInv'
<1> SUFFICES ASSUME IInv, Begin PROVE IInv'
  OBVIOUS
<1>1. UNCHANGED <<jobs, inflight, cache>> /\ main' = "read"
  BY DEF Begin
<1>2. req'.round = IF jobs = << >> THEN 0 ELSE 1 - req.round
  BY DEF Begin
<1>3. \A j \in DOMAIN jobs : j.round = req.round
  BY DEF Begin
<1>4. Fresh'
  <2>0. req \in Request /\ req' \in Request
    BY DEF Begin, Request, IInv, Fresh
  <2>1. CASE jobs = << >>
    BY <1>1, <1>2, <2>0, <2>1 DEF Fresh
  <2>2. CASE jobs # << >>
    BY <1>1, <1>2, <1>3, <2>0, <2>2 DEF Request, Fresh
  <2>3. QED
    BY <2>1, <2>2
<1>5. QED
  BY <1>1, <1>4 DEF IInv, Tallied, ScansDone, NoTaskAfterFree

\* Steps of the main thread that start no scan.
LEMMA QuietKept ==
  ASSUME IInv, ReadIndex \/ ResetDirty \/ Verify \/ Report \/ Drop
  PROVE  IInv'
BY DEF ReadIndex, ResetDirty, Verify, Report, Drop, Throw, IInv, Tallied, Fresh, ScansDone,
       NoTaskAfterFree

LEMMA StagedKept == IInv /\ Staged => IInv'
<1> SUFFICES ASSUME IInv, Staged PROVE IInv'
  OBVIOUS
<1>1. main = "staged" /\ cache' = cache
  BY DEF Staged
<1>2. CASE StagedNone \/ StagedReuse \/ StagedEmptyRepo
  <2>1. UNCHANGED <<jobs, inflight>> /\ main' = "dirty" /\ req'.round = req.round /\ req' \in Request
    BY <1>2 DEF StagedNone, StagedReuse, StagedEmptyRepo, Request, IInv, Fresh
  <2>2. QED
    BY <1>1, <2>1 DEF IInv, Tallied, Fresh, ScansDone, NoTaskAfterFree
<1>3. CASE StagedScan
  <2>1. CASE Throw /\ UNCHANGED <<inflight, jobs>>
    BY <1>1, <1>3, <2>1 DEF StagedScan, Throw, IInv, Tallied, Fresh, ScansDone, NoTaskAfterFree
  <2>2. ASSUME NEW scans, DOMAIN scans = JobsOf("staged", Shards), RunAsync(scans),
               main' = "dirty"
        PROVE  IInv'
    <3>1. IsFiniteSet(DOMAIN scans)
      BY <2>2, ScansOfShards, ScanAssumption
    <3>2. \A j \in DOMAIN scans : j.round = req.round /\ j.kind = "staged"
      BY <2>2 DEF JobsOf
    <3>3. DOMAIN scans \cap DOMAIN jobs = {}
      BY <1>1, <3>2 DEF IInv, Fresh
    <3>4. Tallied' /\ DOMAIN jobs' = DOMAIN jobs \cup DOMAIN scans
      BY <2>2, <3>1, <3>3, RunAsyncTallies DEF IInv
    <3>5. req' = req
      BY <1>3 DEF StagedScan
    <3>6. Fresh'
      BY <1>1, <2>2, <3>2, <3>4, <3>5 DEF IInv, Fresh
    <3>7. QED
      BY <1>1, <2>2, <3>4, <3>6 DEF IInv, ScansDone, NoTaskAfterFree
  <2>3. QED
    BY <1>3, <2>1, <2>2 DEF StagedScan
<1>4. QED
  BY <1>2, <1>3 DEF Staged

LEMMA DirtyKept == IInv /\ Dirty => IInv'
<1> SUFFICES ASSUME IInv, Dirty PROVE IInv'
  OBVIOUS
<1>1. main = "dirty" /\ cache' = cache /\ req' = req
  BY DEF Dirty
<1>2. CASE UNCHANGED <<jobs, inflight>> /\ main' \in {"wait", "idle"}
  BY <1>1, <1>2 DEF IInv, Tallied, Fresh, ScansDone, NoTaskAfterFree
<1>3. ASSUME NEW S \in SUBSET Shards, NEW scans, DOMAIN scans = JobsOf("dirty", S),
             RunAsync(scans), main' = "wait"
      PROVE  IInv'
  <2>1. IsFiniteSet(DOMAIN scans)
    BY <1>3, ScansOfShards, ScanAssumption, FS_Subset
  <2>2. \A j \in DOMAIN scans : j.round = req.round /\ j.kind = "dirty"
    BY <1>3 DEF JobsOf
  <2>3. DOMAIN scans \cap DOMAIN jobs = {}
    BY <1>1, <2>2 DEF IInv, Fresh
  <2>4. Tallied'
    BY <1>3, <2>1, <2>3, RunAsyncTallies DEF IInv
  <2>5. QED
    BY <1>1, <1>3, <2>4 DEF IInv, Fresh, ScansDone, NoTaskAfterFree
<1>4. QED
  BY <1>2, <1>3 DEF Dirty, Throw, CandidateShards

\* Wait goes on when inflight_ is 0, that is without a scan.
LEMMA WaitKept == IInv /\ Wait => IInv'
<1> SUFFICES ASSUME IInv, Wait PROVE IInv'
  OBVIOUS
<1>1. UNCHANGED <<req, jobs, inflight, cache>> /\ main = "wait"
  BY DEF Wait
<1>2. CASE WaitOver /\ main' = "verify"
  <2>1. DOMAIN jobs = {}
    BY <1>2, FS_EmptySet DEF WaitOver, IInv, Tallied
  <2>2. jobs = << >>
    BY <2>1 DEF IInv, Tallied
  <2>3. QED
    BY <1>1, <1>2, <2>2 DEF IInv, Tallied, Fresh, ScansDone, NoTaskAfterFree
<1>3. CASE main' = main
  BY <1>1, <1>3 DEF IInv, Tallied, Fresh, ScansDone, NoTaskAfterFree
<1>4. QED
  BY <1>2, <1>3 DEF Wait

\* A step of a scan changes it, or takes it away and counts one less.
LEMMA ScanKept ==
  ASSUME IInv, UNCHANGED <<main, req, cache>>, NEW j \in DOMAIN jobs,
         \/ \E rec : Goes(j, rec) /\ inflight' = inflight
         \/ DecInflight(j)
  PROVE  IInv'
<1>1. CASE \E rec : Goes(j, rec) /\ inflight' = inflight
  <2>1. PICK rec : Goes(j, rec) /\ inflight' = inflight
    BY <1>1
  <2>2. jobs' = [jobs EXCEPT ![j] = rec]
    BY <2>1 DEF Goes
  <2>3. DOMAIN jobs' = DOMAIN jobs
    BY <2>2
  <2>4. jobs' = [i \in DOMAIN jobs' |-> jobs'[i]]
    BY <2>2
  <2>5. jobs # << >>
    OBVIOUS
  <2>6. QED
    BY <2>1, <2>3, <2>4, <2>5 DEF IInv, Tallied, Fresh, ScansDone, NoTaskAfterFree
<1>2. CASE DecInflight(j)
  <2>1. jobs' = [i \in DOMAIN jobs \ {j} |-> jobs[i]] /\ inflight' = inflight - 1
    BY <1>2 DEF DecInflight
  <2>2. DOMAIN jobs' = DOMAIN jobs \ {j}
    BY <2>1
  <2>3. jobs' = [i \in DOMAIN jobs' |-> jobs'[i]]
    BY <2>1
  <2>4. /\ IsFiniteSet(DOMAIN jobs \ {j})
        /\ Cardinality(DOMAIN jobs \ {j}) = Cardinality(DOMAIN jobs) - 1
    BY FS_RemoveElement DEF IInv, Tallied
  <2>5. Tallied'
    BY <2>1, <2>2, <2>3, <2>4 DEF IInv, Tallied
  <2>6. jobs # << >>
    OBVIOUS
  <2>7. QED
    BY <2>2, <2>5, <2>6 DEF IInv, Fresh, ScansDone, NoTaskAfterFree
<1>3. QED
  BY <1>1, <1>2

LEMMA JobKept == IInv /\ ((\E j \in DOMAIN jobs : JobStep(j)) \/ ScanFails) => IInv'
<1>1. ASSUME IInv, NEW j \in DOMAIN jobs, JobStep(j)
      PROVE  IInv'
  <2>1. UNCHANGED <<main, req, cache>>
    BY <1>1 DEF JobStep
  <2>2. \/ \E rec : Goes(j, rec) /\ inflight' = inflight
        \/ DecInflight(j)
    BY <1>1 DEF JobStep, Start, Found, FoundAfterError, Decide, Exhausted
  <2>3. QED
    BY <1>1, <2>1, <2>2, ScanKept
<1>2. ASSUME IInv, ScanFails
      PROVE  IInv'
  <2>1. UNCHANGED <<main, req, cache>>
    BY <1>2 DEF ScanFails
  <2>2. PICK j \in DOMAIN jobs : Fail(j)
    BY <1>2 DEF ScanFails
  <2>3. \E rec : Goes(j, rec) /\ inflight' = inflight
    BY <2>2 DEF Fail
  <2>4. QED
    BY <1>2, <2>1, <2>3, ScanKept
<1>3. QED
  BY <1>1, <1>2

LEMMA OtherKept ==
  ASSUME IInv, Catch \/ CheckDirMtime \/ Dtor \/ UNCHANGED vars
  PROVE  IInv'
BY DEF Catch, CheckDirMtime, Dtor, DtorReady, vars, IInv, Tallied, Fresh, ScansDone,
       NoTaskAfterFree

-----------------------------------------------------------------------------
\* The inductive invariant holds whatever fails and whatever git changes.
THEOREM ScanInvariant == Spec => []IInv
<1>1. IInv /\ [Next]_vars => IInv'
  BY BeginKept, QuietKept, StagedKept, DirtyKept, WaitKept, JobKept, OtherKept
  DEF Next, MainStep
<1>2. QED
  BY <1>1, InitIInv, PTL DEF Spec

\* inflight_ is the number of scans that have not run DecInflight, of this
\* request and of one that failed before it waited.
THEOREM InflightAlwaysExact == Spec => []InflightExact
<1>1. IInv => InflightExact
  BY DEF IInv, Tallied, InflightExact
<1>2. QED
  BY <1>1, ScanInvariant, PTL

\* Whatever failed before, no scan is left when the main thread reads error_ and
\* the counters.
THEOREM ScansAlwaysDone == Spec => []ScansDone
<1>1. IInv => ScansDone
  BY DEF IInv
<1>2. QED
  BY <1>1, ScanInvariant, PTL

\* The repository is not freed before the constructor's task has run.
THEOREM NeverTaskAfterFree == Spec => []NoTaskAfterFree
<1>1. IInv => NoTaskAfterFree
  BY DEF IInv
<1>2. QED
  BY <1>1, ScanInvariant, PTL

\* The main thread waits for whom it must, whatever fails.
THEOREM TasksAlwaysWaitedFor == Spec => []TasksWaitedFor
<1>1. InflightExact /\ ScansDone /\ NoTaskAfterFree => TasksWaitedFor
  BY DEF TasksWaitedFor
<1>2. QED
  BY <1>1, InflightAlwaysExact, ScansAlwaysDone, NeverTaskAfterFree, PTL

-----------------------------------------------------------------------------
\* Sums over a finite set.  SumFunctionOnSet takes an element away, sums what is
\* left and adds: that the sum exists, and which element it takes does not
\* matter, is shown for the smallest set on which it could fail.

Picked(s) == CHOOSE x \in s : TRUE

\* g sums f over the subsets of S.
SumsUp(g, f, S) ==
    g = [s \in SUBSET S |-> IF s = {} THEN 0 ELSE f[Picked(s)] + g[s \ {Picked(s)}]]

LEMMA LeastOf ==
  ASSUME NEW S, S \subseteq Nat, S # {}
  PROVE  \E m \in S : \A k \in S : m <= k
<1>1. PICK m \in S : \A k \in S : ~(<<k, m>> \in OpToRel(<, Nat))
  BY NatLessThanWellFounded, WFMin
<1>2. \A k \in S : ~(k < m)
  BY <1>1 DEF OpToRel
<1>3. \A k \in S : m <= k
  BY <1>2
<1>4. QED
  BY <1>3, Zenon

\* What is picked is there, and the rest is smaller.
LEMMA PickedOut ==
  ASSUME NEW S, IsFiniteSet(S), NEW s \in SUBSET S, s # {}
  PROVE  /\ Picked(s) \in s /\ s \ {Picked(s)} \in SUBSET S
         /\ IsFiniteSet(s) /\ Cardinality(s) \in Nat /\ Cardinality(s) > 0
         /\ Cardinality(s \ {Picked(s)}) = Cardinality(s) - 1
<1>1. Picked(s) \in s
  BY DEF Picked
<1>2. IsFiniteSet(s) /\ Cardinality(s) \in Nat
  BY FS_Subset, FS_CardinalityType
<1>3. Cardinality(s) # 0
  BY <1>2, FS_EmptySet
<1>4. Cardinality(s \ {Picked(s)}) = Cardinality(s) - 1
  BY <1>1, <1>2, FS_RemoveElement
<1>5. QED
  BY <1>1, <1>2, <1>3, <1>4

\* Of the sets that are wrong one is smallest.
LEMMA SmallestWrong ==
  ASSUME NEW S, IsFiniteSet(S), NEW Wrong, Wrong \subseteq SUBSET S, Wrong # {}
  PROVE  \E s \in Wrong : \A r \in SUBSET S : Cardinality(r) < Cardinality(s) => r \notin Wrong
<1> DEFINE N == {Cardinality(s) : s \in Wrong}
<1>1. \A s \in SUBSET S : Cardinality(s) \in Nat
  BY FS_Subset, FS_CardinalityType
<1>2. N \subseteq Nat /\ N # {}
  BY <1>1
<1> HIDE DEF N
<1>3. PICK m \in N : \A k \in N : m <= k
  BY <1>2, LeastOf
<1>4. PICK s \in Wrong : m = Cardinality(s)
  BY <1>3 DEF N
<1>5. ASSUME NEW r \in SUBSET S, Cardinality(r) < Cardinality(s), r \in Wrong
      PROVE  FALSE
  <2>1. Cardinality(r) \in N
    BY <1>5 DEF N
  <2>2. Cardinality(s) <= Cardinality(r)
    BY <2>1, <1>3, <1>4
  <2>3. QED
    BY <2>2, <1>1, <1>5
<1>6. QED
  BY <1>5

LEMMA SumExists ==
  ASSUME NEW S, IsFiniteSet(S), NEW f
  PROVE  \E g : SumsUp(g, f, S)
<1> DEFINE Upto(k) == {s \in SUBSET S : Cardinality(s) <= k}
           Part(g, k) == g = [s \in Upto(k) |-> IF s = {} THEN 0 ELSE f[Picked(s)] + g[s \ {Picked(s)}]]
           Bad == {k \in Nat : ~\E g : Part(g, k)}
<1>1. \A s \in SUBSET S : Cardinality(s) \in Nat
  BY FS_Subset, FS_CardinalityType
<1>2. Bad = {}
  <2>1. SUFFICES ASSUME Bad # {} PROVE FALSE
    OBVIOUS
  <2>2. PICK k \in Bad : \A i \in Bad : k <= i
    <3>1. Bad \subseteq Nat
      OBVIOUS
    <3> HIDE DEF Bad
    <3>2. QED
      BY <2>1, <3>1, LeastOf
  <2>3. \E g : Part(g, k)
    <3>1. CASE k = 0
      <4> DEFINE g == [s \in Upto(k) |-> 0]
      <4>1. \A s \in Upto(k) : s = {}
        <5>1. \A s \in Upto(k) : IsFiniteSet(s) /\ Cardinality(s) = 0
          BY <1>1, <3>1, FS_Subset
        <5>2. QED
          BY <5>1, FS_EmptySet
      <4>2. Part(g, k)
        BY <4>1
      <4>3. QED
        BY <4>2
    <3>2. CASE k # 0
      <4>1. k - 1 \in Nat /\ k - 1 \notin Bad
        <5>1. k \in Nat
          OBVIOUS
        <5> HIDE DEF Bad
        <5>2. QED
          BY <2>2, <3>2, <5>1
      <4>2. PICK h : Part(h, k - 1)
        BY <4>1
      <4> DEFINE g == [s \in Upto(k) |-> IF s = {} THEN 0 ELSE f[Picked(s)] + h[s \ {Picked(s)}]]
      <4>3. \A s \in Upto(k - 1) : s \in Upto(k) /\ g[s] = h[s]
        <5>1. TAKE s \in Upto(k - 1)
        <5>2. s \in Upto(k)
          BY <1>1, <4>1
        <5>3. h[s] = IF s = {} THEN 0 ELSE f[Picked(s)] + h[s \ {Picked(s)}]
          BY <4>2
        <5>4. QED
          BY <5>2, <5>3
      <4>4. ASSUME NEW s \in Upto(k), s # {}
            PROVE  s \ {Picked(s)} \in Upto(k - 1)
        <5>1. s \in SUBSET S /\ Cardinality(s) <= k
          OBVIOUS
        <5>2. /\ s \ {Picked(s)} \in SUBSET S /\ Cardinality(s) \in Nat
              /\ Cardinality(s \ {Picked(s)}) = Cardinality(s) - 1
          BY <4>4, <5>1, PickedOut
        <5>3. k \in Nat
          OBVIOUS
        <5>4. Cardinality(s) - 1 <= k - 1
          BY <5>1, <5>2, <5>3
        <5>5. QED
          BY <5>2, <5>4
      <4>5. \A s \in Upto(k) : s # {} => g[s \ {Picked(s)}] = h[s \ {Picked(s)}]
        BY <4>3, <4>4
      <4>6. Part(g, k)
        BY <4>5
      <4>7. QED
        BY <4>6
    <3>3. QED
      BY <3>1, <3>2
  <2>4. QED
    BY <2>2, <2>3
<1>3. Cardinality(S) \in Nat
  BY <1>1
<1>4. \A s \in SUBSET S : Cardinality(s) <= Cardinality(S)
  BY FS_Subset
<1>5. Upto(Cardinality(S)) = SUBSET S
  BY <1>4
<1>6. \E g : Part(g, Cardinality(S))
  BY <1>2, <1>3
<1>7. QED
  BY <1>5, <1>6 DEF SumsUp

LEMMA SumsTo ==
  ASSUME NEW S, IsFiniteSet(S), NEW f
  PROVE  \E g : SumsUp(g, f, S) /\ SumFunctionOnSet(f, S) = g[S]
<1> DEFINE g == CHOOSE g : SumsUp(g, f, S)
<1>1. SumsUp(g, f, S)
  BY SumExists
<1>2. SumFunctionOnSet(f, S) = g[S]
  BY DEF SumFunctionOnSet, FoldFunctionOnSet, MapThenFoldSet, SumsUp, Picked
<1>3. QED
  BY <1>1, <1>2

\* What is summed of a smaller set, and of another function that agrees on it.
LEMMA SumsAgree ==
  ASSUME NEW S, IsFiniteSet(S), NEW T \in SUBSET S, NEW f, NEW e,
         \A x \in T : f[x] = e[x],
         NEW g, SumsUp(g, f, S), NEW h, SumsUp(h, e, T)
  PROVE  \A s \in SUBSET T : g[s] = h[s]
<1> DEFINE Wrong == {s \in SUBSET T : g[s] # h[s]}
<1>1. SUFFICES ASSUME Wrong # {} PROVE FALSE
  OBVIOUS
<1>2. Wrong \subseteq SUBSET S
  OBVIOUS
<1>3. PICK s \in Wrong : \A r \in SUBSET S : Cardinality(r) < Cardinality(s) => r \notin Wrong
  <2> HIDE DEF Wrong
  <2>1. QED
    BY <1>1, <1>2, SmallestWrong
<1>4. s \in SUBSET S /\ s \in SUBSET T /\ g[s] # h[s]
  OBVIOUS
<1>5. s # {}
  BY <1>4 DEF SumsUp
<1>6. /\ Picked(s) \in s /\ s \ {Picked(s)} \in SUBSET S
      /\ Cardinality(s \ {Picked(s)}) < Cardinality(s)
  BY <1>4, <1>5, PickedOut
<1>7. s \ {Picked(s)} \in SUBSET T /\ s \ {Picked(s)} \notin Wrong
  BY <1>3, <1>4, <1>6
<1>8. /\ g[s] = f[Picked(s)] + g[s \ {Picked(s)}]
      /\ h[s] = e[Picked(s)] + h[s \ {Picked(s)}]
  BY <1>4, <1>5 DEF SumsUp
<1>9. QED
  BY <1>4, <1>6, <1>7, <1>8

LEMMA SumsNat ==
  ASSUME NEW S, IsFiniteSet(S), NEW f, \A x \in S : f[x] \in Nat, NEW g, SumsUp(g, f, S)
  PROVE  \A s \in SUBSET S : g[s] \in Nat
<1> DEFINE Wrong == {s \in SUBSET S : g[s] \notin Nat}
<1>1. SUFFICES ASSUME Wrong # {} PROVE FALSE
  OBVIOUS
<1>2. Wrong \subseteq SUBSET S
  OBVIOUS
<1>3. PICK s \in Wrong : \A r \in SUBSET S : Cardinality(r) < Cardinality(s) => r \notin Wrong
  <2> HIDE DEF Wrong
  <2>1. QED
    BY <1>1, <1>2, SmallestWrong
<1>4. s \in SUBSET S /\ g[s] \notin Nat
  OBVIOUS
<1>5. s # {}
  BY <1>4 DEF SumsUp
<1>6. /\ Picked(s) \in s /\ s \ {Picked(s)} \in SUBSET S
      /\ Cardinality(s \ {Picked(s)}) < Cardinality(s)
  BY <1>4, <1>5, PickedOut
<1>7. g[s \ {Picked(s)}] \in Nat
  BY <1>3, <1>6
<1>8. g[s] = f[Picked(s)] + g[s \ {Picked(s)}]
  BY <1>4, <1>5 DEF SumsUp
<1>9. QED
  BY <1>4, <1>6, <1>7, <1>8

\* Whichever element is taken away.
LEMMA SumsAnyOut ==
  ASSUME NEW S, IsFiniteSet(S), NEW f, \A x \in S : f[x] \in Nat, NEW g, SumsUp(g, f, S)
  PROVE  \A s \in SUBSET S : \A x \in s : g[s] = f[x] + g[s \ {x}]
<1> DEFINE Wrong == {s \in SUBSET S : \E x \in s : g[s] # f[x] + g[s \ {x}]}
<1>1. SUFFICES ASSUME Wrong # {} PROVE FALSE
  OBVIOUS
<1>2. Wrong \subseteq SUBSET S
  OBVIOUS
<1>3. PICK s \in Wrong : \A r \in SUBSET S : Cardinality(r) < Cardinality(s) => r \notin Wrong
  <2> HIDE DEF Wrong
  <2>1. QED
    BY <1>1, <1>2, SmallestWrong
<1>4. PICK x \in s : g[s] # f[x] + g[s \ {x}]
  OBVIOUS
<1> DEFINE p == Picked(s)
<1>5. s \in SUBSET S /\ s # {}
  BY <1>4
<1>6. /\ p \in s /\ s \ {p} \in SUBSET S /\ IsFiniteSet(s) /\ Cardinality(s) \in Nat
      /\ Cardinality(s \ {p}) < Cardinality(s)
  BY <1>5, PickedOut
<1>7. g[s] = f[p] + g[s \ {p}]
  BY <1>5 DEF SumsUp
<1> HIDE DEF p
<1>8. x # p /\ x \in s \ {p} /\ p \in s \ {x} /\ s \ {x} \in SUBSET S
  BY <1>4, <1>5, <1>6, <1>7
<1>9. Cardinality(s \ {x}) < Cardinality(s)
  BY <1>4, <1>6, FS_RemoveElement
<1>10. g[s \ {p}] = f[x] + g[(s \ {p}) \ {x}]
  BY <1>3, <1>6, <1>8
<1>11. g[s \ {x}] = f[p] + g[(s \ {x}) \ {p}]
  BY <1>3, <1>8, <1>9
<1>12. (s \ {p}) \ {x} = (s \ {x}) \ {p} /\ (s \ {p}) \ {x} \in SUBSET S
  BY <1>5
<1>13. f[x] \in Nat /\ f[p] \in Nat /\ g[(s \ {p}) \ {x}] \in Nat
  BY <1>5, <1>6, <1>8, <1>12, SumsNat
<1>14. g[s] = f[p] + (f[x] + g[(s \ {p}) \ {x}])
  BY <1>7, <1>10
<1>15. g[s \ {x}] = f[p] + g[(s \ {p}) \ {x}]
  BY <1>11, <1>12
<1>16. g[s] = f[x] + g[s \ {x}]
  BY <1>13, <1>14, <1>15
<1>17. QED
  BY <1>4, <1>16

LEMMA SumEmpty == ASSUME NEW f PROVE SumFunctionOnSet(f, {}) = 0
<1>1. PICK g : SumsUp(g, f, {}) /\ SumFunctionOnSet(f, {}) = g[{}]
  BY FS_EmptySet, SumsTo
<1>2. QED
  BY <1>1 DEF SumsUp

LEMMA SumNat ==
  ASSUME NEW S, IsFiniteSet(S), NEW f, \A x \in S : f[x] \in Nat
  PROVE  SumFunctionOnSet(f, S) \in Nat
<1>1. PICK g : SumsUp(g, f, S) /\ SumFunctionOnSet(f, S) = g[S]
  BY SumsTo
<1>2. QED
  BY <1>1, SumsNat

LEMMA SumSame ==
  ASSUME NEW S, IsFiniteSet(S), NEW f, NEW e, \A x \in S : f[x] = e[x]
  PROVE  SumFunctionOnSet(f, S) = SumFunctionOnSet(e, S)
<1>1. PICK g : SumsUp(g, f, S) /\ SumFunctionOnSet(f, S) = g[S]
  BY SumsTo
<1>2. PICK h : SumsUp(h, e, S) /\ SumFunctionOnSet(e, S) = h[S]
  BY SumsTo
<1>3. g[S] = h[S]
  <2>1. S \in SUBSET S
    OBVIOUS
  <2>2. SumsUp(g, f, S) /\ SumsUp(h, e, S)
    BY <1>1, <1>2
  <2>3. \A s \in SUBSET S : g[s] = h[s]
    BY ONLY IsFiniteSet(S), \A x \in S : f[x] = e[x], <2>1, <2>2, SumsAgree
  <2>4. QED
    BY <2>1, <2>3
<1>4. QED
  BY <1>1, <1>2, <1>3

LEMMA SumOut ==
  ASSUME NEW S, IsFiniteSet(S), NEW f, \A x \in S : f[x] \in Nat, NEW x \in S
  PROVE  /\ SumFunctionOnSet(f, S) = f[x] + SumFunctionOnSet(f, S \ {x})
         /\ SumFunctionOnSet(f, S \ {x}) \in Nat
<1>1. PICK g : SumsUp(g, f, S) /\ SumFunctionOnSet(f, S) = g[S]
  BY SumsTo
<1>2. IsFiniteSet(S \ {x})
  BY FS_RemoveElement
<1>3. PICK h : SumsUp(h, f, S \ {x}) /\ SumFunctionOnSet(f, S \ {x}) = h[S \ {x}]
  BY <1>2, SumsTo
<1>4. g[S \ {x}] = h[S \ {x}]
  BY <1>1, <1>3, SumsAgree
<1>5. g[S] = f[x] + g[S \ {x}]
  BY <1>1, SumsAnyOut
<1>6. QED
  BY <1>1, <1>2, <1>3, <1>4, <1>5, SumNat

\* What changes in one place changes the sum by as much.
LEMMA SumChanged ==
  ASSUME NEW S, IsFiniteSet(S), NEW f, NEW e, NEW x \in S,
         \A y \in S : f[y] \in Nat /\ e[y] \in Nat,
         \A y \in S \ {x} : f[y] = e[y]
  PROVE  SumFunctionOnSet(f, S) + e[x] = SumFunctionOnSet(e, S) + f[x]
<1>1. IsFiniteSet(S \ {x})
  BY FS_RemoveElement
<1>2. SumFunctionOnSet(f, S \ {x}) = SumFunctionOnSet(e, S \ {x})
  BY <1>1, SumSame
<1>3. /\ SumFunctionOnSet(f, S) = f[x] + SumFunctionOnSet(f, S \ {x})
      /\ SumFunctionOnSet(f, S \ {x}) \in Nat
  BY SumOut
<1>4. SumFunctionOnSet(e, S) = e[x] + SumFunctionOnSet(e, S \ {x})
  BY SumOut
<1>5. QED
  BY <1>2, <1>3, <1>4

\* What is no larger anywhere has no larger sum.
LEMMA SumAtMost ==
  ASSUME NEW S, IsFiniteSet(S), NEW f, NEW e,
         \A x \in S : f[x] \in Nat /\ e[x] \in Nat /\ f[x] <= e[x]
  PROVE  SumFunctionOnSet(f, S) <= SumFunctionOnSet(e, S)
<1>1. PICK g : SumsUp(g, f, S) /\ SumFunctionOnSet(f, S) = g[S]
  BY SumsTo
<1>2. PICK h : SumsUp(h, e, S) /\ SumFunctionOnSet(e, S) = h[S]
  BY SumsTo
<1>3. \A s \in SUBSET S : g[s] \in Nat /\ h[s] \in Nat
  BY <1>1, <1>2, SumsNat
<1> DEFINE Wrong == {s \in SUBSET S : ~(g[s] <= h[s])}
<1>4. SUFFICES ASSUME Wrong # {} PROVE FALSE
  BY <1>1, <1>2
<1>5. Wrong \subseteq SUBSET S
  OBVIOUS
<1>6. PICK s \in Wrong : \A r \in SUBSET S : Cardinality(r) < Cardinality(s) => r \notin Wrong
  <2> HIDE DEF Wrong
  <2>1. QED
    BY <1>4, <1>5, SmallestWrong
<1>7. s \in SUBSET S /\ ~(g[s] <= h[s])
  OBVIOUS
<1>8. s # {}
  BY <1>1, <1>2, <1>7 DEF SumsUp
<1> DEFINE p == Picked(s)
<1>9. p \in s /\ s \ {p} \in SUBSET S /\ Cardinality(s \ {p}) < Cardinality(s)
  BY <1>7, <1>8, PickedOut
<1>10. g[s] = f[p] + g[s \ {p}] /\ h[s] = e[p] + h[s \ {p}]
  BY <1>1, <1>2, <1>7, <1>8 DEF SumsUp
<1> HIDE DEF p
<1>11. g[s \ {p}] <= h[s \ {p}]
  BY <1>6, <1>9
<1>12. f[p] \in Nat /\ e[p] \in Nat /\ f[p] <= e[p] /\ g[s \ {p}] \in Nat /\ h[s \ {p}] \in Nat
  BY <1>3, <1>7, <1>9
<1>13. QED
  BY <1>7, <1>10, <1>11, <1>12

\* A sum of nothing but zeros.
LEMMA SumZero ==
  ASSUME NEW S, IsFiniteSet(S), NEW f, \A x \in S : f[x] = 0
  PROVE  SumFunctionOnSet(f, S) = 0
<1>1. PICK g : SumsUp(g, f, S) /\ SumFunctionOnSet(f, S) = g[S]
  BY SumsTo
<1> DEFINE Wrong == {s \in SUBSET S : g[s] # 0}
<1>2. SUFFICES ASSUME Wrong # {} PROVE FALSE
  BY <1>1
<1>3. Wrong \subseteq SUBSET S
  OBVIOUS
<1>4. PICK s \in Wrong : \A r \in SUBSET S : Cardinality(r) < Cardinality(s) => r \notin Wrong
  <2> HIDE DEF Wrong
  <2>1. QED
    BY <1>2, <1>3, SmallestWrong
<1>5. s \in SUBSET S /\ g[s] # 0
  OBVIOUS
<1>6. s # {}
  BY <1>1, <1>5 DEF SumsUp
<1>7. /\ Picked(s) \in s /\ s \ {Picked(s)} \in SUBSET S
      /\ Cardinality(s \ {Picked(s)}) < Cardinality(s)
  BY <1>5, <1>6, PickedOut
<1>8. g[s] = f[Picked(s)] + g[s \ {Picked(s)}]
  BY <1>1, <1>5, <1>6 DEF SumsUp
<1>9. g[s \ {Picked(s)}] = 0
  BY <1>4, <1>7
<1>10. QED
  BY <1>5, <1>7, <1>8, <1>9
-----------------------------------------------------------------------------
\* Types.

ScanStatus(kind) == IF kind = "staged" THEN StagedStatus ELSE DirtyStatus
ScanCounters(kind) == IF kind = "staged" THEN {"staged", "conflicted"} ELSE {"unstaged", "untracked"}

\* A scan of a kind, wherever it is.
Scans(kind) ==
    [left : [ScanStatus(kind) -> Nat], skip : SUBSET ScanStatus(kind),
     at : {"start", "iter", "decide", "dec", "throw"}, c : Limited \cup {"none"}, v : Nat]

JobsTyped ==
    \A j \in DOMAIN jobs :
       /\ j \in Job /\ jobs[j] \in Scans(j.kind)
       /\ jobs[j].at = "decide" => jobs[j].c \in ScanCounters(j.kind)

\* The index has been read before anything is made of it.
IndexRead ==
    /\ jobs # << >> => index \in Indexes
    /\ main \in {"reset", "staged", "dirty", "wait", "verify", "report"} => index \in Indexes

TypeIInv == TypeOK /\ JobsTyped /\ IndexRead

-----------------------------------------------------------------------------
\* The counts of an answer, when nothing fails but reading the index.

\* What is summed: the counters of deltas, what libgit2 finds for each, and the
\* limited counter that tells whether it may be cut.
StagedSums == {"staged", "conflicted", "stagedNew", "stagedDeleted"}
DirtySums == {"unstaged", "untracked", "unstagedDeleted"}
Sums == StagedSums \cup DirtySums
KindOf(k) == IF k \in StagedSums THEN "staged" ELSE "dirty"

StatusesOf(k) ==
    CASE k = "staged"                          -> {"added", "deleted", "modified"}
      [] k = "conflicted"                      -> {"conflicted"}
      [] k = "stagedNew"                       -> {"added"}
      [] k = "unstaged"                        -> {"deleted", "modified"}
      [] k = "untracked"                       -> {"untracked"}
      [] k \in {"stagedDeleted", "unstagedDeleted"} -> {"deleted"}

GateOf(k) ==
    CASE k \in {"staged", "stagedNew", "stagedDeleted"} -> "staged"
      [] k \in {"unstaged", "unstagedDeleted"}          -> "unstaged"
      [] k \in {"conflicted", "untracked"}              -> k

\* The staged counters outlive a request and with it its lim_.
Cap(k) == IF k \in StagedSums THEN Limits[GateOf(k)] ELSE lim[GateOf(k)]

Scan(kind, s) == [kind |-> kind, shard |-> s, round |-> 0]
LeftOf(kind, s, st) == IF Scan(kind, s) \in DOMAIN jobs THEN jobs[Scan(kind, s)].left[st] ELSE 0
ToFind(k, s, st) == IF k \in StagedSums THEN StagedDeltas[head][index][s][st] ELSE req.tree[s][st]

\* What scans have left to find, and what there was to find.
Left(k) == [p \in Shards \X StatusesOf(k) |-> LeftOf(KindOf(k), p[1], p[2])]
Whole(k) == [p \in Shards \X StatusesOf(k) |-> ToFind(k, p[1], p[2])]
SumLeft(k) == SumFunctionOnSet(Left(k), Shards \X StatusesOf(k))
SumWhole(k) == SumFunctionOnSet(Whole(k), Shards \X StatusesOf(k))

\* What has been counted and what is left are what there was, and if some of it
\* has been left out the limit has been reached.
Conserved(k) ==
    /\ n[k] + SumLeft(k) <= SumWhole(k)
    /\ n[k] + SumLeft(k) = SumWhole(k) \/ n[GateOf(k)] >= Cap(k)

\* Skip-worktree entries are counted as a scan starts.
SkipLeft ==
    [s \in Shards |-> IF Scan("staged", s) \in DOMAIN jobs /\ jobs[Scan("staged", s)].at = "start"
                      THEN Entries[index][s]["skipWorktree"] ELSE 0]
SkipConserved == n["skipWorktree"] + SumFunctionOnSet(SkipLeft, Shards) = EntryCount("skipWorktree")

\* What a scan skips, and what it leaves when it stops, is beyond a limit.
Beyond(kind, st) == n[CounterOf(kind, st)] >= lim[CounterOf(kind, st)]

ScanRight(j) ==
    /\ j = Scan(j.kind, j.shard) /\ jobs[j].at # "throw"
    /\ jobs[j].at = "decide" => jobs[j].v < n[jobs[j].c]
    /\ \A st \in jobs[j].skip : Beyond(j.kind, st)
    /\ jobs[j].at = "dec" =>
          \A st \in ScanStatus(j.kind) : jobs[j].left[st] = 0 \/ Beyond(j.kind, st)

JobsRight == \A j \in DOMAIN jobs : ScanRight(j)

\* Scans run between the step that starts them and the end of Wait.
Phases ==
    /\ error = FALSE /\ late = 0 /\ req.round = 0 /\ main # "undefined"
    /\ ~StagedOff => lim["staged"] = Limits["staged"] /\ lim["conflicted"] = Limits["conflicted"]
    /\ index = NoIndex => head = NoHead
    /\ jobs # << >> => main \in {"dirty", "wait"}
    /\ \A j \in DOMAIN jobs :
          /\ j.kind = "dirty" => main = "wait" /\ DirtyOn
          /\ j.kind = "staged" => ~StagedOff /\ head = req.head /\ head # NoHead

\* What head_ says of the staged counters.
StagedKnown == head # NoHead => SkipConserved /\ \A k \in StagedSums : Conserved(k)

StagedDone ==
    main \in {"dirty", "wait", "verify", "report"} =>
       \/ StagedOff /\ \A k \in StagedSums : n[k] = 0
       \/ /\ ~StagedOff /\ req.head = NoHead
          /\ n["staged"] = StagedInEmpty /\ n["conflicted"] = 0
          /\ n["skipWorktree"] = EntryCount("skipWorktree")
       \/ ~StagedOff /\ req.head # NoHead /\ head = req.head

DirtyDone ==
    /\ main \in {"staged", "dirty"} => \A k \in DirtySums : n[k] = 0
    /\ main \in {"wait", "verify", "report"} =>
          \A k \in DirtySums : IF DirtyOn THEN Conserved(k) ELSE n[k] = 0

ExactIInv == IInv /\ TypeIInv /\ JobsRight /\ Phases /\ StagedKnown /\ StagedDone /\ DirtyDone

-----------------------------------------------------------------------------
\* Booleans apart, which no step gives any other value.
Flags == error \in BOOLEAN /\ parked \in BOOLEAN /\ failed \in BOOLEAN

Plain ==
    /\ main \in {"idle", "read", "reset", "staged", "dirty", "wait", "verify", "report",
                 "dtor", "freed", "undefined"}
    /\ lim \in [Limited -> Nat] /\ req \in Request
    /\ index \in Indexes \cup {NoIndex} /\ head \in Heads \cup {NoHead}
    /\ n \in [Counters -> Nat] /\ late \in Nat /\ cache \in {"unknown", "true", "false"}

LEMMA TypeSplit == IInv => (TypeOK <=> Plain /\ Flags /\ DOMAIN jobs \subseteq Job)
<1> SUFFICES ASSUME IInv PROVE TypeOK <=> Plain /\ Flags /\ DOMAIN jobs \subseteq Job
  OBVIOUS
<1>1. inflight \in Nat
  BY FS_CardinalityType DEF IInv, Tallied
<1>2. QED
  BY <1>1, Zenon DEF TypeOK, Plain, Flags

LEMMA FlagsKept == Flags /\ [Next]_vars => Flags'
<1> SUFFICES ASSUME Flags, [Next]_vars PROVE Flags'
  OBVIOUS
<1> USE DEF Flags
<1>1. CASE Begin
  BY <1>1, Zenon DEF Begin
<1>2. CASE MainStep
  <2>1. CASE ReadIndex
    BY <2>1, Zenon DEF ReadIndex
  <2>2. CASE ResetDirty
    BY <2>2, Zenon DEF ResetDirty
  <2>3. CASE Staged
    BY <2>3, Zenon DEF Staged
  <2>4. CASE Dirty
    BY <2>4, Zenon DEF Dirty
  <2>5. CASE Wait
    BY <2>5, Zenon DEF Wait
  <2>6. CASE Verify
    BY <2>6, Zenon DEF Verify
  <2>7. CASE Report
    BY <2>7, Zenon DEF Report
  <2>8. CASE Dtor
    BY <2>8, Zenon DEF Dtor
  <2>9. QED
    BY <1>2, <2>1, <2>2, <2>3, <2>4, <2>5, <2>6, <2>7, <2>8 DEF MainStep
<1>3. CASE \E j \in DOMAIN jobs : JobStep(j)
  <2>1. PICK j \in DOMAIN jobs : JobStep(j)
    BY <1>3
  <2>2. UNCHANGED <<error, failed>>
    BY <2>1, Zenon DEF JobStep, Start, Found, FoundAfterError, Decide, Exhausted, DecInflight
  <2>3. parked' = parked \/ parked' = FALSE
    BY <2>1, Zenon DEF JobStep, Start, Found, FoundAfterError, Decide, Exhausted, DecInflight
  <2>4. QED
    BY <2>2, <2>3, Zenon
<1>4. CASE ScanFails
  BY <1>4, Zenon DEF ScanFails, Fail
<1>5. CASE Catch
  BY <1>5, Zenon DEF Catch
<1>6. CASE CheckDirMtime
  BY <1>6, Zenon DEF CheckDirMtime
<1>7. CASE Drop
  BY <1>7, Zenon DEF Drop
<1>8. CASE UNCHANGED vars
  BY <1>8, Zenon DEF vars
<1>9. QED
  BY <1>1, <1>2, <1>3, <1>4, <1>5, <1>6, <1>7, <1>8 DEF Next

LEMMA LoweredTyped ==
  ASSUME NEW untracked, NEW state
  PROVE  Lowered(untracked, state) \in [Limited -> Nat]
BY ScanAssumption DEF Lowered, Limited

LEMMA FullTyped == FullLimits \in [Limited -> Nat]
BY ScanAssumption DEF FullLimits

LEMMA ZeroTyped ==
  ASSUME n \in [Counters -> Nat], NEW cs
  PROVE  Zero(cs) \in [Counters -> Nat]
BY DEF Zero

\* Entries that an empty repository has staged.
LEMMA EntriesCounted ==
  ASSUME index \in Indexes
  PROVE  /\ \A field \in {"all", "intentToAdd", "skipWorktree"} : EntryCount(field) \in Nat
         /\ StagedInEmpty \in Nat
<1> DEFINE E(field) == [s \in Shards |-> Entries[index][s][field]]
<1>1. IsFiniteSet(Shards)
  BY ScanAssumption
<1>2. \A field : EntryCount(field) = SumFunctionOnSet(E(field), Shards)
  BY DEF EntryCount, SumFunction
<1>3. ASSUME NEW field \in {"all", "intentToAdd", "skipWorktree"}
      PROVE  EntryCount(field) \in Nat /\ \A s \in Shards : E(field)[s] \in Nat
  <2> DEFINE f == E(field)
  <2>1. \A s \in Shards : f[s] = Entries[index][s][field]
    OBVIOUS
  <2>2. \A s \in Shards : Entries[index][s] \in [{"all", "intentToAdd", "skipWorktree"} -> Nat]
    BY DataAssumption
  <2>3. \A s \in Shards : f[s] \in Nat
    BY <1>3, <2>1, <2>2
  <2>4. EntryCount(field) = SumFunctionOnSet(f, Shards)
    BY <1>2
  <2> HIDE DEF f
  <2>5. SumFunctionOnSet(f, Shards) \in Nat
    BY <1>1, <2>3, SumNat
  <2>6. QED
    BY <2>3, <2>4, <2>5 DEF f
<1>4. \A s \in Shards : E("intentToAdd")[s] <= E("all")[s]
  BY DataAssumption
<1>5. EntryCount("intentToAdd") <= EntryCount("all")
  <2> DEFINE f == E("intentToAdd")
             e == E("all")
  <2>1. \A s \in Shards : f[s] \in Nat /\ e[s] \in Nat /\ f[s] <= e[s]
    BY <1>3, <1>4
  <2>2. EntryCount("intentToAdd") = SumFunctionOnSet(f, Shards)
    BY <1>2
  <2>3. EntryCount("all") = SumFunctionOnSet(e, Shards)
    BY <1>2
  <2> HIDE DEF f, e
  <2>4. SumFunctionOnSet(f, Shards) <= SumFunctionOnSet(e, Shards)
    BY <1>1, <2>1, SumAtMost
  <2>5. QED
    BY <2>2, <2>3, <2>4
<1>6. EntryCount("all") \in Nat /\ EntryCount("intentToAdd") \in Nat
  BY <1>3
<1>7. QED
  BY <1>3, <1>5, <1>6 DEF StagedInEmpty, IndexSize

\* A scan that is started is one.
LEMMA NewJobTyped ==
  ASSUME NEW kind \in {"staged", "dirty"}, NEW left \in [ScanStatus(kind) -> Nat]
  PROVE  NewJob(left) \in Scans(kind) /\ NewJob(left).at = "start"
BY DEF NewJob, Scans

LEMMA JoinedTyped ==
  ASSUME JobsTyped, NEW scans, jobs' = Joined(scans), NEW kind \in {"staged", "dirty"},
         NEW S \in SUBSET Shards, DOMAIN scans = JobsOf(kind, S), req \in Request,
         \A j \in DOMAIN scans : scans[j] \in Scans(kind) /\ scans[j].at = "start"
  PROVE  JobsTyped'
<1>1. /\ DOMAIN jobs' = DOMAIN scans \cup DOMAIN jobs
      /\ \A j \in DOMAIN jobs' : jobs'[j] = IF j \in DOMAIN scans THEN scans[j] ELSE jobs[j]
  BY DEF Joined
<1>2. \A j \in DOMAIN scans : j \in Job /\ j.kind = kind
  BY DEF JobsOf, Job, Request
<1>3. QED
  BY <1>1, <1>2 DEF JobsTyped

\* The types that a step of the main thread that starts no scan disturbs.
LEMMA MainTyped ==
  ASSUME IInv, TypeIInv, Begin \/ ReadIndex \/ ResetDirty \/ Wait \/ Verify \/ Report \/ Drop \/ Dtor
  PROVE  Plain' /\ JobsTyped' /\ IndexRead'
<1>1. Plain /\ jobs' = jobs
  BY TypeSplit DEF TypeIInv, Begin, ReadIndex, ResetDirty, Wait, Verify, Report, Drop, Dtor
<1>2. JobsTyped'
  BY <1>1 DEF TypeIInv, JobsTyped
<1>3. CASE Begin
  <2>1. PICK untracked \in BOOLEAN, state \in BOOLEAN : lim' = Lowered(untracked, state)
    BY <1>3, Zenon DEF Begin
  <2>2. lim' \in [Limited -> Nat]
    BY <2>1, LoweredTyped
  <2>3. req' \in Request
    BY <1>1, <1>3 DEF Begin, Plain, Request
  <2>4. main' = "read" /\ UNCHANGED <<index, head, n, late, cache, jobs>>
    BY <1>3 DEF Begin
  <2>5. QED
    BY <1>1, <1>2, <2>2, <2>3, <2>4 DEF Plain, TypeIInv, IndexRead
<1>4. CASE ReadIndex
  <2>1. lim' \in [Limited -> Nat]
    BY <1>1, <1>4, FullTyped DEF ReadIndex, Throw, Plain
  <2>2. head' \in Heads \cup {NoHead} /\ index' \in Indexes \cup {NoIndex}
    BY <1>1, <1>4 DEF ReadIndex, AfterReload, Plain
  <2>3. main' \in {"idle", "reset", "undefined"} /\ UNCHANGED <<req, n, late, cache, jobs>>
    BY <1>4 DEF ReadIndex, Throw
  <2>4. (jobs # << >> => index' \in Indexes) /\ (main' # "idle" => index' \in Indexes)
    BY <1>4 DEF ReadIndex, Throw, TypeIInv, IndexRead
  <2>5. QED
    BY <1>1, <1>2, <2>1, <2>2, <2>3, <2>4 DEF Plain, IndexRead
<1>5. CASE ResetDirty
  <2>1. n' \in [Counters -> Nat]
    BY <1>1, <1>5, ZeroTyped DEF ResetDirty, Reset, Plain
  <2>2. main = "reset" /\ main' = "staged" /\ UNCHANGED <<lim, req, index, head, late, cache, jobs>>
    BY <1>5 DEF ResetDirty
  <2>3. QED
    BY <1>1, <1>2, <2>1, <2>2 DEF Plain, TypeIInv, IndexRead
<1>6. CASE Wait \/ Verify \/ Report \/ Drop \/ Dtor
  <2>1. UNCHANGED <<req, index, head, n, late, cache, jobs>>
    BY <1>6 DEF Wait, Verify, Report, Drop, Dtor
  <2>2. lim' \in {lim, FullLimits}
    BY <1>6 DEF Wait, Verify, Report, Drop, Dtor, Throw
  <2>3. /\ main' \in {"idle", "wait", "verify", "report", "dtor", "freed"}
        /\ main' \in {"wait", "verify", "report"} => main \in {"wait", "verify", "report"}
    BY <1>6 DEF Wait, Verify, Report, Drop, Dtor, Throw
  <2>4. QED
    BY <1>1, <1>2, <2>1, <2>2, <2>3, FullTyped DEF Plain, TypeIInv, IndexRead
<1>7. QED
  BY <1>3, <1>4, <1>5, <1>6

LEMMA StagedTyped ==
  ASSUME IInv, TypeIInv, Staged
  PROVE  Plain' /\ JobsTyped' /\ IndexRead'
<1>1. Plain
  BY TypeSplit DEF TypeIInv
<1>2. main = "staged" /\ UNCHANGED <<index, error, late, parked, cache, failed>>
  BY DEF Staged
<1>3. index \in Indexes
  BY <1>2 DEF TypeIInv, IndexRead
<1>4. CASE StagedNone \/ StagedReuse \/ StagedEmptyRepo
  <2>1. main' = "dirty" /\ UNCHANGED <<lim, jobs>>
    BY <1>4 DEF StagedNone, StagedReuse, StagedEmptyRepo
  <2>2. req' \in Request /\ head' \in Heads \cup {NoHead}
    BY <1>1, <1>4 DEF StagedNone, StagedReuse, StagedEmptyRepo, Plain, Request
  <2>3. n' \in [Counters -> Nat]
    <3>1. Zero(StagedCounters) \in [Counters -> Nat]
      BY <1>1, ZeroTyped DEF Plain
    <3>2. EntryCount("skipWorktree") \in Nat /\ StagedInEmpty \in Nat
      BY <1>3, EntriesCounted
    <3>3. QED
      BY <1>1, <1>4, <3>1, <3>2 DEF StagedNone, StagedReuse, StagedEmptyRepo, Plain
  <2>4. QED
    BY <1>1, <1>2, <1>3, <2>1, <2>2, <2>3 DEF Plain, TypeIInv, IndexRead, JobsTyped
<1>5. CASE StagedScan
  <2>1. req' = req /\ req.head \in Heads /\ head' = req.head /\ n' = Zero(StagedCounters)
    BY <1>1, <1>5 DEF StagedScan, Plain, Request
  <2>2. n' \in [Counters -> Nat]
    BY <1>1, <2>1, ZeroTyped DEF Plain
  <2>3. CASE Throw /\ UNCHANGED jobs
    BY <1>1, <1>2, <1>3, <2>1, <2>2, <2>3, FullTyped DEF Throw, Plain, TypeIInv, IndexRead, JobsTyped
  <2>4. ASSUME NEW scans, jobs' = Joined(scans), main' = "dirty", lim' = lim,
               scans = [j \in JobsOf("staged", Shards) |->
                          NewJob(StagedDeltas[req.head][index][j.shard])]
        PROVE  Plain' /\ JobsTyped' /\ IndexRead'
    <3>1. DOMAIN scans = JobsOf("staged", Shards)
      BY <2>4
    <3>2. ASSUME NEW j \in DOMAIN scans
          PROVE  scans[j] \in Scans("staged") /\ scans[j].at = "start"
      <4>1. j.shard \in Shards
        BY <3>1 DEF JobsOf
      <4>2. StagedDeltas[req.head][index][j.shard] \in [StagedStatus -> Nat]
        BY <1>3, <2>1, <4>1, DataAssumption
      <4>3. scans[j] = NewJob(StagedDeltas[req.head][index][j.shard])
        BY <2>4, <3>1
      <4>4. QED
        BY <4>2, <4>3, NewJobTyped DEF ScanStatus
    <3>3. JobsTyped'
      BY <1>1, <2>4, <3>1, <3>2, JoinedTyped DEF Plain, TypeIInv
    <3>4. QED
      BY <1>1, <1>2, <1>3, <2>1, <2>2, <2>4, <3>3 DEF Plain, IndexRead
  <2>5. QED
    BY <1>5, <2>3, <2>4 DEF StagedScan, RunAsync
<1>6. QED
  BY <1>4, <1>5 DEF Staged

LEMMA DirtyTyped ==
  ASSUME IInv, TypeIInv, Dirty
  PROVE  Plain' /\ JobsTyped' /\ IndexRead'
<1>1. Plain
  BY TypeSplit DEF TypeIInv
<1>2. main = "dirty" /\ UNCHANGED <<req, index, head, n, error, late, parked, cache, failed>>
  BY DEF Dirty
<1>3. index \in Indexes
  BY <1>2 DEF TypeIInv, IndexRead
<1>4. CASE UNCHANGED jobs /\ main' \in {"wait", "idle"} /\ lim' \in {lim, FullLimits}
  BY <1>1, <1>2, <1>3, <1>4, FullTyped DEF Plain, TypeIInv, IndexRead, JobsTyped
<1>5. ASSUME NEW S \in SUBSET Shards, NEW scans, jobs' = Joined(scans), main' = "wait", lim' = lim,
             scans = [j \in JobsOf("dirty", S) |-> NewJob(DirtyLeft(j.shard))]
      PROVE  Plain' /\ JobsTyped' /\ IndexRead'
  <2>1. DOMAIN scans = JobsOf("dirty", S)
    BY <1>5
  <2>2. ASSUME NEW j \in DOMAIN scans
        PROVE  scans[j] \in Scans("dirty") /\ scans[j].at = "start"
    <3>1. j.shard \in Shards
      BY <1>5, <2>1 DEF JobsOf
    <3>2. req.tree[j.shard] \in [DirtyStatus -> Nat]
      BY <1>1, <3>1, DataAssumption DEF Plain, Request
    <3>3. DirtyLeft(j.shard) \in [DirtyStatus -> Nat]
      BY <3>2 DEF DirtyLeft
    <3>4. scans[j] = NewJob(DirtyLeft(j.shard))
      BY <1>5, <2>1
    <3>5. QED
      BY <3>3, <3>4, NewJobTyped DEF ScanStatus
  <2>3. JobsTyped'
    BY <1>1, <1>5, <2>1, <2>2, JoinedTyped DEF Plain, TypeIInv
  <2>4. QED
    BY <1>1, <1>2, <1>3, <1>5, <2>3 DEF Plain, IndexRead
<1>6. QED
  BY <1>4, <1>5 DEF Dirty, Throw, RunAsync, CandidateShards

\* A step of a scan that leaves it a scan.
LEMMA ScanTyped ==
  ASSUME IInv, TypeIInv, NEW j \in DOMAIN jobs, NEW rec \in Scans(j.kind), Goes(j, rec),
         rec.at = "decide" => rec.c \in ScanCounters(j.kind),
         n' \in [Counters -> Nat], UNCHANGED <<main, lim, req, index, head, late, cache>>
  PROVE  Plain' /\ JobsTyped' /\ IndexRead'
<1>1. Plain
  BY TypeSplit DEF TypeIInv
<1>2. /\ DOMAIN jobs' = DOMAIN jobs /\ jobs # << >>
      /\ \A i \in DOMAIN jobs : jobs'[i] = IF i = j THEN rec ELSE jobs[i]
  BY DEF Goes
<1>3. JobsTyped'
  BY <1>2 DEF TypeIInv, JobsTyped
<1>4. QED
  BY <1>1, <1>2, <1>3 DEF Plain, TypeIInv, IndexRead

LEMMA CounterTyped ==
  ASSUME NEW kind \in {"staged", "dirty"}, NEW st \in ScanStatus(kind)
  PROVE  CounterOf(kind, st) \in ScanCounters(kind) /\ CounterOf(kind, st) \in Limited
BY DEF CounterOf, ScanCounters, ScanStatus, StagedStatus, DirtyStatus, Limited

LEMMA JobTyped ==
  ASSUME IInv, TypeIInv, NEW j \in DOMAIN jobs, JobStep(j) \/ (Fail(j) /\ UNCHANGED <<main, lim, req, index, head, cache>>)
  PROVE  Plain' /\ JobsTyped' /\ IndexRead'
<1>1. Plain
  BY TypeSplit DEF TypeIInv
<1>2. UNCHANGED <<main, lim, req, index, head, cache>>
  BY DEF JobStep
<1>3. j \in Job /\ jobs[j] \in Scans(j.kind) /\ j.kind \in {"staged", "dirty"} /\ j.shard \in Shards
  BY DEF TypeIInv, JobsTyped, Job
<1>4. n \in [Counters -> Nat] /\ late \in Nat
  BY <1>1 DEF Plain
<1>5. index \in Indexes
  <2>1. jobs # << >>
    OBVIOUS
  <2>2. QED
    BY <2>1 DEF TypeIInv, IndexRead
<1>6. CASE Start(j)
  <2> DEFINE rec == [jobs[j] EXCEPT !.at = "iter"]
  <2>1. rec \in Scans(j.kind) /\ rec.at = "iter"
    BY <1>3 DEF Scans
  <2>2. Entries[index][j.shard]["skipWorktree"] \in Nat
    BY <1>3, <1>5, DataAssumption
  <2>3. n' \in [Counters -> Nat]
    <3>1. "skipWorktree" \in Counters /\ n["skipWorktree"] \in Nat
      BY <1>4 DEF Counters
    <3>2. n' = n \/ n' = [n EXCEPT !["skipWorktree"] = @ + Entries[index][j.shard]["skipWorktree"]]
      BY <1>6 DEF Start
    <3>3. n["skipWorktree"] + Entries[index][j.shard]["skipWorktree"] \in Nat
      BY <2>2, <3>1
    <3>4. QED
      BY <1>4, <3>2, <3>3
  <2>4. Goes(j, rec) /\ late' = late
    BY <1>6 DEF Start
  <2> HIDE DEF rec
  <2>5. QED
    BY <1>2, <2>1, <2>3, <2>4, ScanTyped
<1>7. ASSUME NEW st, Found(j, st)
      PROVE  Plain' /\ JobsTyped' /\ IndexRead'
  <2> DEFINE rec == [jobs[j] EXCEPT !.left[st] = @ - 1, !.at = "decide",
                                    !.c = CounterOf(j.kind, st), !.v = n[CounterOf(j.kind, st)]]
  <2>1. /\ st \in DOMAIN jobs[j].left /\ jobs[j].left[st] > 0
        /\ n' = [c \in Counters |-> IF c \in Counted(j.kind, st) THEN n[c] + 1 ELSE n[c]]
        /\ Goes(j, rec) /\ late' = late
    BY <1>7 DEF Found
  <2>2. st \in ScanStatus(j.kind)
    BY <1>3, <2>1 DEF Scans
  <2>3. CounterOf(j.kind, st) \in ScanCounters(j.kind) /\ CounterOf(j.kind, st) \in Limited
    BY <1>3, <2>2, CounterTyped
  <2>4. n[CounterOf(j.kind, st)] \in Nat
    BY <1>4, <2>3 DEF Counters
  <2>5. [jobs[j].left EXCEPT ![st] = @ - 1] \in [ScanStatus(j.kind) -> Nat]
    BY <1>3, <2>1, <2>2 DEF Scans
  <2>6. rec \in Scans(j.kind) /\ rec.c = CounterOf(j.kind, st)
    BY <1>3, <2>3, <2>4, <2>5 DEF Scans
  <2>7. n' \in [Counters -> Nat]
    BY <1>4, <2>1
  <2> HIDE DEF rec
  <2>8. QED
    BY <1>2, <2>1, <2>3, <2>6, <2>7, ScanTyped
<1>8. CASE FoundAfterError(j) \/ Exhausted(j)
  <2> DEFINE rec == [jobs[j] EXCEPT !.at = "dec"]
  <2>1. rec \in Scans(j.kind) /\ rec.at = "dec"
    BY <1>3 DEF Scans
  <2>2. Goes(j, rec) /\ late' = late /\ n' = n
    BY <1>8 DEF FoundAfterError, Exhausted
  <2> HIDE DEF rec
  <2>3. QED
    BY <1>2, <1>4, <2>1, <2>2, ScanTyped
<1>9. CASE Decide(j)
  <2>1. PICK at \in {"dec", "iter"}, skip \in SUBSET ScanStatus(j.kind) :
           Goes(j, [jobs[j] EXCEPT !.at = at, !.skip = skip, !.c = "none", !.v = 0])
    <3> DEFINE c == jobs[j].c
               verdict == Verdict(jobs[j].v, lim[c], n[OtherOf(c)], lim[OtherOf(c)])
               same == {st \in DOMAIN jobs[j].left : CounterOf(j.kind, st) = c}
    <3>1. Goes(j, [jobs[j] EXCEPT !.at = IF verdict = "stop" THEN "dec" ELSE "iter",
                                  !.skip = IF verdict = "skip" THEN @ \cup same ELSE @,
                                  !.c = "none", !.v = 0])
      BY <1>9 DEF Decide
    <3>2. jobs[j].skip \cup same \in SUBSET ScanStatus(j.kind) /\ jobs[j].skip \in SUBSET ScanStatus(j.kind)
      BY <1>3 DEF Scans
    <3> HIDE DEF verdict, same, c
    <3>3. QED
      BY <3>1, <3>2
  <2> DEFINE rec == [jobs[j] EXCEPT !.at = at, !.skip = skip, !.c = "none", !.v = 0]
  <2>2. rec \in Scans(j.kind) /\ rec.at # "decide"
    BY <1>3 DEF Scans
  <2>3. Goes(j, rec) /\ late' = late /\ n' = n
    BY <1>9, <2>1 DEF Decide
  <2> HIDE DEF rec
  <2>4. QED
    BY <1>2, <1>4, <2>2, <2>3, ScanTyped
<1>10. CASE Fail(j)
  <2> DEFINE rec == [jobs[j] EXCEPT !.at = "throw"]
  <2>1. rec \in Scans(j.kind) /\ rec.at = "throw"
    BY <1>3 DEF Scans
  <2>2. Goes(j, rec) /\ late' = late /\ n' = n
    BY <1>10 DEF Fail
  <2> HIDE DEF rec
  <2>3. QED
    BY <1>2, <1>4, <2>1, <2>2, ScanTyped
<1>11. CASE DecInflight(j)
  <2>1. jobs' = [i \in DOMAIN jobs \ {j} |-> jobs[i]] /\ late' \in Nat /\ n' = n
    BY <1>4, <1>11 DEF DecInflight
  <2>2. JobsTyped'
    BY <2>1 DEF TypeIInv, JobsTyped
  <2>3. IndexRead'
    BY <1>2, <1>5 DEF IndexRead
  <2>4. QED
    BY <1>1, <1>2, <2>1, <2>2, <2>3 DEF Plain
<1>12. QED
  BY <1>6, <1>7, <1>8, <1>9, <1>10, <1>11 DEF JobStep

LEMMA RestTyped ==
  ASSUME IInv, TypeIInv, Catch \/ CheckDirMtime \/ UNCHANGED vars
  PROVE  Plain' /\ JobsTyped' /\ IndexRead'
<1>1. Plain
  BY TypeSplit DEF TypeIInv
<1>2. UNCHANGED <<main, lim, req, index, head, n, jobs>>
  BY DEF Catch, CheckDirMtime, vars
<1>3. late' \in Nat
  <2>1. late' = late \/ (late > 0 /\ late' = late - 1)
    BY DEF Catch, CheckDirMtime, vars
  <2>2. late \in Nat
    BY <1>1 DEF Plain
  <2>3. QED
    BY <2>1, <2>2
<1>4. cache' \in {"unknown", "true", "false"}
  BY <1>1 DEF Catch, CheckDirMtime, vars, Plain
<1>5. QED
  BY <1>1, <1>2, <1>3, <1>4 DEF Plain, TypeIInv, IndexRead, JobsTyped

LEMMA TypeInit == Init => TypeIInv
<1> SUFFICES ASSUME Init PROVE TypeIInv
  OBVIOUS
<1>1. Plain
  BY ScanAssumption, FullTyped DEF Init, Plain, Request
<1>2. Flags
  BY Zenon DEF Init, Flags
<1>3. DOMAIN jobs = {}
  BY DEF Init
<1>4. TypeOK
  BY <1>1, <1>2, <1>3, InitIInv, TypeSplit
<1>5. QED
  BY <1>3, <1>4 DEF TypeIInv, JobsTyped, IndexRead, Init

LEMMA TypeKept == IInv /\ TypeIInv /\ [Next]_vars => TypeIInv'
<1> SUFFICES ASSUME IInv, TypeIInv, [Next]_vars PROVE TypeIInv'
  OBVIOUS
<1>1. Plain' /\ JobsTyped' /\ IndexRead'
  <2>1. CASE Begin \/ Drop
    BY <2>1, MainTyped
  <2>2. CASE MainStep
    BY <2>2, MainTyped, StagedTyped, DirtyTyped DEF MainStep
  <2>3. CASE \E j \in DOMAIN jobs : JobStep(j)
    BY <2>3, JobTyped
  <2>4. CASE ScanFails
    BY <2>4, JobTyped DEF ScanFails
  <2>5. CASE Catch \/ CheckDirMtime \/ UNCHANGED vars
    BY <2>5, RestTyped
  <2>6. QED
    BY <2>1, <2>2, <2>3, <2>4, <2>5 DEF Next
<1>2. Flags'
  BY FlagsKept, TypeSplit DEF TypeIInv
<1>3. IInv'
  BY BeginKept, QuietKept, StagedKept, DirtyKept, WaitKept, JobKept, OtherKept
  DEF Next, MainStep
<1>4. TypeOK'
  <2>1. DOMAIN jobs' \subseteq Job
    BY <1>1 DEF JobsTyped
  <2>2. inflight' \in Nat
    BY <1>3, FS_CardinalityType DEF IInv, Tallied
  <2>3. QED
    BY <1>1, <1>2, <2>1, <2>2, Zenon DEF TypeOK, Plain, Flags
<1>5. QED
  BY <1>1, <1>4 DEF TypeIInv

\* Every variable keeps its type whatever fails, and a scan the form libgit2 and
\* notify_cb give it.
THEOREM TypesAlways == Spec => []TypeOK
<1>1. IInv /\ TypeIInv /\ [Next]_vars => (IInv /\ TypeIInv)'
  BY TypeKept, BeginKept, QuietKept, StagedKept, DirtyKept, WaitKept, JobKept, OtherKept
  DEF Next, MainStep
<1>2. IInv /\ TypeIInv => TypeOK
  BY DEF TypeIInv
<1>3. QED
  BY <1>1, <1>2, InitIInv, TypeInit, PTL DEF Spec

-----------------------------------------------------------------------------
\* Which counter a delta belongs to, and what may cut it.
LEMMA SumFacts ==
  ASSUME NEW k \in Sums
  PROVE  /\ KindOf(k) \in {"staged", "dirty"} /\ StatusesOf(k) \subseteq ScanStatus(KindOf(k))
         /\ GateOf(k) \in ScanCounters(KindOf(k)) /\ GateOf(k) \in Limited
         /\ k \in Counters /\ GateOf(k) \in Counters
         /\ \A st \in StatusesOf(k) : CounterOf(KindOf(k), st) = GateOf(k)
BY DEF Sums, StagedSums, DirtySums, KindOf, StatusesOf, ScanStatus, StagedStatus, DirtyStatus,
       GateOf, ScanCounters, Limited, Counters, CounterOf

LEMMA CountedFacts ==
  ASSUME NEW kind \in {"staged", "dirty"}, NEW st \in ScanStatus(kind)
  PROVE  /\ \A k \in Sums : k \in Counted(kind, st) <=> KindOf(k) = kind /\ st \in StatusesOf(k)
         /\ "skipWorktree" \notin Counted(kind, st)
         /\ CounterOf(kind, st) \in Counted(kind, st) /\ CounterOf(kind, st) \in Counters
BY DEF Sums, StagedSums, DirtySums, KindOf, StatusesOf, ScanStatus, StagedStatus, DirtyStatus,
       Counters, Limited, CounterOf, Counted

LEMMA PairsFinite ==
  ASSUME NEW k \in Sums
  PROVE  IsFiniteSet(Shards \X StatusesOf(k))
<1>1. \A x : IsFiniteSet({x})
  BY FS_Singleton
<1>2. ASSUME NEW x, NEW y
      PROVE  IsFiniteSet({x, y})
  <2>1. {x, y} = {x} \cup {y}
    OBVIOUS
  <2>2. IsFiniteSet({x}) /\ IsFiniteSet({y})
    BY <1>1
  <2>3. IsFiniteSet({x} \cup {y})
    BY <2>2, FS_Union
  <2>4. QED
    BY <2>1, <2>3
<1>3. IsFiniteSet(StatusesOf(k))
  <2>1. CASE \E x : StatusesOf(k) = {x}
    BY <1>1, <2>1
  <2>2. CASE \E x, y : StatusesOf(k) = {x, y}
    BY <1>2, <2>2
  <2>3. CASE StatusesOf(k) = {"added", "deleted", "modified"}
    <3>1. StatusesOf(k) = {"added", "deleted"} \cup {"modified"}
      BY <2>3
    <3>2. IsFiniteSet({"added", "deleted"})
      BY <1>2
    <3>3. QED
      BY <3>1, <3>2, FS_AddElement
  <2>4. \/ \E x : StatusesOf(k) = {x}
        \/ \E x, y : StatusesOf(k) = {x, y}
        \/ StatusesOf(k) = {"added", "deleted", "modified"}
    BY DEF Sums, StagedSums, DirtySums, StatusesOf
  <2>5. QED
    BY <2>1, <2>2, <2>3, <2>4
<1>4. QED
  BY <1>3, ScanAssumption, FS_Product

\* What scans have left are numbers.
LEMMA LeftNat ==
  ASSUME JobsTyped, JobsRight, NEW k \in Sums
  PROVE  /\ \A p \in Shards \X StatusesOf(k) : Left(k)[p] \in Nat
         /\ SumLeft(k) \in Nat
<1>1. ASSUME NEW p \in Shards \X StatusesOf(k)
      PROVE  Left(k)[p] \in Nat
  <2> DEFINE j == Scan(KindOf(k), p[1])
  <2>1. p[2] \in ScanStatus(KindOf(k)) /\ Left(k)[p] = LeftOf(KindOf(k), p[1], p[2])
    BY SumFacts DEF Left
  <2>2. CASE j \in DOMAIN jobs
    <3>1. jobs[j] \in Scans(j.kind) /\ j.kind = KindOf(k)
      BY <2>2 DEF JobsTyped, Scan
    <3>2. jobs[j].left \in [ScanStatus(KindOf(k)) -> Nat]
      BY <3>1 DEF Scans
    <3>3. QED
      BY <2>1, <2>2, <3>2 DEF LeftOf
  <2>3. CASE j \notin DOMAIN jobs
    BY <2>1, <2>3 DEF LeftOf
  <2>4. QED
    BY <2>2, <2>3
<1>2. SumLeft(k) \in Nat
  BY <1>1, PairsFinite, SumNat DEF SumLeft
<1>3. QED
  BY <1>1, <1>2

LEMMA WholeNat ==
  ASSUME NEW k \in Sums, req \in Request, index \in Indexes, k \in StagedSums => head \in Heads
  PROVE  /\ \A p \in Shards \X StatusesOf(k) : Whole(k)[p] \in Nat
         /\ SumWhole(k) \in Nat
<1>1. ASSUME NEW p \in Shards \X StatusesOf(k)
      PROVE  Whole(k)[p] \in Nat
  <2>1. /\ p[1] \in Shards /\ p[2] \in StatusesOf(k) /\ p[2] \in ScanStatus(KindOf(k))
        /\ Whole(k)[p] = ToFind(k, p[1], p[2])
    BY SumFacts DEF Whole
  <2>2. CASE k \in StagedSums
    <3>1. StagedDeltas[head][index] \in [Shards -> [StagedStatus -> Nat]]
      BY <2>2, DataAssumption
    <3>2. p[2] \in StagedStatus
      BY <2>1, <2>2 DEF KindOf, ScanStatus
    <3>3. QED
      BY <2>1, <2>2, <3>1, <3>2 DEF ToFind
  <2>3. CASE k \notin StagedSums
    <3>1. req.tree \in [Shards -> [DirtyStatus -> Nat]]
      BY DataAssumption DEF Request
    <3>2. p[2] \in DirtyStatus
      BY <2>1, <2>3 DEF KindOf, ScanStatus
    <3>3. QED
      BY <2>1, <2>3, <3>1, <3>2 DEF ToFind
  <2>4. QED
    BY <2>2, <2>3
<1>2. SumWhole(k) \in Nat
  BY <1>1, PairsFinite, SumNat DEF SumWhole
<1>3. QED
  BY <1>1, <1>2

\* A step that leaves a sum and its scans alone keeps it.
LEMMA Unmoved ==
  ASSUME NEW k \in Sums, Conserved(k), n \in [Counters -> Nat],
         n' \in [Counters -> Nat], n'[k] = n[k], n'[GateOf(k)] >= n[GateOf(k)], Cap(k) \in Nat, Cap(k)' = Cap(k),
         \A s \in Shards, st \in StatusesOf(k) :
            /\ LeftOf(KindOf(k), s, st)' = LeftOf(KindOf(k), s, st)
            /\ ToFind(k, s, st)' = ToFind(k, s, st)
  PROVE  Conserved(k)'
<1>1. Left(k)' = Left(k) /\ Whole(k)' = Whole(k)
  BY DEF Left, Whole
<1>2. SumLeft(k)' = SumLeft(k) /\ SumWhole(k)' = SumWhole(k)
  BY <1>1 DEF SumLeft, SumWhole
<1>3. n[GateOf(k)] \in Nat /\ n'[GateOf(k)] \in Nat
  BY SumFacts
<1>4. QED
  BY <1>2, <1>3 DEF Conserved

\* When no scan is left, what is counted is what there was.
LEMMA NothingLeft ==
  ASSUME NEW k \in Sums, jobs = << >>
  PROVE  SumLeft(k) = 0
<1>1. \A p \in Shards \X StatusesOf(k) : Left(k)[p] = 0
  BY DEF Left, LeftOf
<1>2. QED
  BY <1>1, PairsFinite, SumZero DEF SumLeft

-----------------------------------------------------------------------------
\* The steps of a scan.

\* What a scan may do to the others and to the counters of the other kind.
LEMMA StepOfScan ==
  ASSUME ExactIInv, n' \in [Counters -> Nat],
         UNCHANGED <<main, lim, req, index, head, error, late>>, NEW j \in DOMAIN jobs,
         DOMAIN jobs' \subseteq DOMAIN jobs,
         \A i \in DOMAIN jobs : i # j => i \in DOMAIN jobs' /\ jobs'[i] = jobs[i],
         \A c \in Counters : n'[c] >= n[c],
         \A k \in Sums : KindOf(k) # j.kind => n'[k] = n[k],
         j.kind # "staged" => n'["skipWorktree"] = n["skipWorktree"],
         \A k \in Sums : KindOf(k) = j.kind /\ Conserved(k) => Conserved(k)',
         j.kind = "staged" /\ SkipConserved => SkipConserved',
         j \in DOMAIN jobs' => ScanRight(j)'
  PROVE  JobsRight' /\ Phases' /\ StagedKnown' /\ StagedDone' /\ DirtyDone'
<1>1. /\ IInv /\ TypeOK /\ JobsTyped /\ IndexRead /\ JobsRight /\ Phases /\ StagedKnown /\ StagedDone
      /\ DirtyDone
  BY DEF ExactIInv, TypeIInv
<1>2. n \in [Counters -> Nat] /\ n' \in [Counters -> Nat] /\ lim \in [Limited -> Nat]
  BY <1>1 DEF TypeOK
<1>3. main \in {"dirty", "wait"} /\ j.kind \in {"staged", "dirty"} /\ index \in Indexes
  BY <1>1 DEF Phases, JobsTyped, Job, IndexRead
<1>4. JobsRight'
  <2>1. SUFFICES ASSUME NEW i \in DOMAIN jobs', i # j PROVE ScanRight(i)'
    BY DEF JobsRight
  <2>2. i \in DOMAIN jobs /\ jobs'[i] = jobs[i] /\ ScanRight(i) /\ jobs[i] \in Scans(i.kind)
        /\ i.kind \in {"staged", "dirty"}
    BY <1>1, <2>1 DEF JobsRight, JobsTyped, Job
  <2>3. \A st \in ScanStatus(i.kind) : Beyond(i.kind, st) => Beyond(i.kind, st)'
    <3>1. TAKE st \in ScanStatus(i.kind)
    <3>2. CounterOf(i.kind, st) \in Counters /\ CounterOf(i.kind, st) \in Limited
      BY <2>2, CountedFacts, CounterTyped
    <3>3. n[CounterOf(i.kind, st)] \in Nat /\ n'[CounterOf(i.kind, st)] \in Nat
          /\ n'[CounterOf(i.kind, st)] >= n[CounterOf(i.kind, st)]
          /\ lim[CounterOf(i.kind, st)] \in Nat
      BY <1>2, <3>2
    <3>4. QED
      BY <3>3 DEF Beyond
  <2>4. jobs[i].at = "decide" => jobs[i].v < n'[jobs[i].c]
    <3>1. SUFFICES ASSUME jobs[i].at = "decide" PROVE jobs[i].v < n'[jobs[i].c]
      OBVIOUS
    <3>2. jobs[i].c \in Counters
      BY <1>1, <2>2, <3>1 DEF JobsTyped, ScanCounters, Counters, Limited
    <3>3. jobs[i].v < n[jobs[i].c] /\ jobs[i].v \in Nat
      BY <2>2, <3>1 DEF ScanRight, Scans
    <3>4. QED
      BY <1>2, <3>2, <3>3
  <2>5. jobs[i].skip \subseteq ScanStatus(i.kind)
    BY <2>2 DEF Scans
  <2>6. QED
    BY <2>2, <2>3, <2>4, <2>5 DEF ScanRight
<1>5. Phases'
  <2>1. StagedOff' = StagedOff /\ DirtyOn' = DirtyOn
    BY DEF StagedOff, DirtyOn, IndexSize, EntryCount
  <2>2. QED
    BY <1>1, <1>3, <2>1 DEF Phases
<1>6. ASSUME NEW k \in Sums, KindOf(k) # j.kind, Conserved(k), k \in StagedSums => head \in Heads
      PROVE  Conserved(k)'
  <2>1. Cap(k)' = Cap(k) /\ Cap(k) \in Nat /\ GateOf(k) \in Counters
    BY <1>2, SumFacts, ScanAssumption DEF Cap
  <2>2. \A s \in Shards, st \in StatusesOf(k) :
           /\ LeftOf(KindOf(k), s, st)' = LeftOf(KindOf(k), s, st)
           /\ ToFind(k, s, st)' = ToFind(k, s, st)
    <3>1. TAKE s \in Shards, st \in StatusesOf(k)
    <3>2. Scan(KindOf(k), s) # j
      BY <1>6 DEF Scan
    <3>3. LeftOf(KindOf(k), s, st)' = LeftOf(KindOf(k), s, st)
      BY <3>2 DEF LeftOf
    <3>4. QED
      BY <3>3 DEF ToFind
  <2>3. QED
    BY <1>2, <1>6, <2>1, <2>2, Unmoved
<1>7. StagedKnown'
  <2>1. SUFFICES ASSUME head # NoHead
                 PROVE  SkipConserved' /\ \A k \in StagedSums : Conserved(k)'
    BY DEF StagedKnown
  <2>2. SkipConserved /\ (\A k \in StagedSums : Conserved(k)) /\ head \in Heads
    BY <1>1, <2>1 DEF StagedKnown, TypeOK
  <2>3. \A k \in StagedSums : k \in Sums /\ KindOf(k) = "staged"
    BY DEF Sums, KindOf
  <2>4. CASE j.kind = "staged"
    BY <2>2, <2>3, <2>4
  <2>5. CASE j.kind # "staged"
    <3>1. SkipLeft' = SkipLeft
      <4>1. \A s \in Shards : Scan("staged", s) # j
        BY <2>5 DEF Scan
      <4>2. QED
        BY <4>1 DEF SkipLeft
    <3>2. SkipConserved'
      BY <2>2, <2>5, <3>1 DEF SkipConserved, EntryCount
    <3>3. QED
      BY <1>6, <2>2, <2>3, <2>5, <3>2
  <2>6. QED
    BY <2>4, <2>5
<1>8. StagedDone'
  <2>1. StagedOff' = StagedOff /\ StagedInEmpty' = StagedInEmpty
        /\ EntryCount("skipWorktree")' = EntryCount("skipWorktree")
    BY DEF StagedOff, StagedInEmpty, IndexSize, EntryCount
  <2>2. CASE j.kind # "staged"
    <3>1. \A k \in StagedSums : n'[k] = n[k]
      BY <2>2 DEF Sums, KindOf
    <3>2. QED
      BY <1>1, <2>1, <2>2, <3>1 DEF StagedDone, StagedSums
  <2>3. CASE j.kind = "staged"
    <3>1. ~StagedOff /\ req.head # NoHead /\ head = req.head
      BY <1>1, <2>3 DEF Phases
    <3>2. QED
      BY <2>1, <3>1 DEF StagedDone
  <2>4. QED
    BY <2>2, <2>3
<1>9. DirtyDone'
  <2>1. DirtyOn' = DirtyOn
    BY DEF DirtyOn, IndexSize, EntryCount
  <2>2. \A k \in DirtySums : k \in Sums /\ KindOf(k) = "dirty" /\ k \notin StagedSums
    BY DEF Sums, KindOf, DirtySums, StagedSums
  <2>3. CASE j.kind = "dirty"
    <3>1. main = "wait" /\ DirtyOn
      BY <1>1, <2>3 DEF Phases
    <3>2. \A k \in DirtySums : Conserved(k)
      BY <1>1, <3>1 DEF DirtyDone
    <3>3. \A k \in DirtySums : Conserved(k)'
      BY <2>2, <2>3, <3>2
    <3>4. QED
      BY <2>1, <3>1, <3>3 DEF DirtyDone
  <2>4. CASE j.kind # "dirty"
    <3>1. \A k \in DirtySums : n'[k] = n[k] /\ (Conserved(k) => Conserved(k)')
      BY <1>6, <2>2, <2>4
    <3>2. QED
      BY <1>1, <2>1, <3>1 DEF DirtyDone
  <2>5. QED
    BY <2>3, <2>4
<1>10. QED
  BY <1>4, <1>5, <1>7, <1>8, <1>9

\* A scan that goes from one place to another and finds nothing.
LEMMA MovesRight ==
  ASSUME ExactIInv, NEW j \in DOMAIN jobs, NEW rec, Goes(j, rec), rec.left = jobs[j].left,
         n' = n, jobs[j].at # "start", rec.at # "start",
         UNCHANGED <<main, lim, req, index, head, error, late>>, ScanRight(j)'
  PROVE  JobsRight' /\ Phases' /\ StagedKnown' /\ StagedDone' /\ DirtyDone'
<1>1. TypeOK /\ JobsTyped /\ Phases /\ JobsRight /\ n \in [Counters -> Nat] /\ lim \in [Limited -> Nat]
  BY DEF ExactIInv, TypeIInv, TypeOK
<1>2. /\ DOMAIN jobs' = DOMAIN jobs /\ jobs'[j] = rec
      /\ \A i \in DOMAIN jobs : i # j => jobs'[i] = jobs[i]
  BY DEF Goes
<1>3. ASSUME NEW k \in Sums, Conserved(k)
      PROVE  Conserved(k)'
  <2>1. Cap(k)' = Cap(k) /\ Cap(k) \in Nat /\ GateOf(k) \in Counters /\ k \in Counters
    BY <1>1, SumFacts, ScanAssumption DEF Cap
  <2>2. \A i \in DOMAIN jobs : jobs'[i].left = jobs[i].left
    BY <1>2
  <2>3. \A s \in Shards, st \in StatusesOf(k) :
           /\ LeftOf(KindOf(k), s, st)' = LeftOf(KindOf(k), s, st)
           /\ ToFind(k, s, st)' = ToFind(k, s, st)
    BY <1>2, <2>2 DEF LeftOf, ToFind
  <2>4. n'[GateOf(k)] >= n[GateOf(k)]
    BY <1>1, <2>1
  <2>5. QED
    BY <1>1, <1>3, <2>1, <2>3, <2>4, Unmoved
<1>4. SkipConserved => SkipConserved'
  <2>1. \A i \in DOMAIN jobs : jobs'[i].at = "start" <=> jobs[i].at = "start"
    BY <1>2
  <2>2. SkipLeft' = SkipLeft
    BY <1>2, <2>1 DEF SkipLeft
  <2>3. QED
    BY <2>2 DEF SkipConserved, EntryCount
<1>5. \A c \in Counters : n'[c] >= n[c]
  BY <1>1
<1>6. n' \in [Counters -> Nat]
  BY <1>1
<1>7. QED
  BY <1>2, <1>3, <1>4, <1>5, <1>6, StepOfScan

LEMMA StartRight ==
  ASSUME ExactIInv, NEW j \in DOMAIN jobs, Start(j),
         UNCHANGED <<main, lim, req, index, head, cache>>
  PROVE  JobsRight' /\ Phases' /\ StagedKnown' /\ StagedDone' /\ DirtyDone'
<1>1. /\ TypeOK /\ JobsTyped /\ IndexRead /\ Phases /\ JobsRight
      /\ n \in [Counters -> Nat] /\ lim \in [Limited -> Nat]
  BY DEF ExactIInv, TypeIInv, TypeOK
<1> DEFINE e == Entries[index][j.shard]["skipWorktree"]
           rec == [jobs[j] EXCEPT !.at = "iter"]
<1>2. /\ jobs[j].at = "start" /\ Goes(j, rec) /\ UNCHANGED <<error, late>>
      /\ n' = IF j.kind = "staged" THEN [n EXCEPT !["skipWorktree"] = @ + e] ELSE n
  BY DEF Start
<1>3. /\ j \in Job /\ jobs[j] \in Scans(j.kind) /\ index \in Indexes /\ ScanRight(j)
      /\ j.shard \in Shards
  <2>1. jobs # << >>
    OBVIOUS
  <2>2. QED
    BY <1>1, <2>1 DEF JobsTyped, IndexRead, JobsRight, Job
<1>4. rec.left = jobs[j].left /\ rec.at = "iter" /\ rec.skip = jobs[j].skip
  BY <1>3 DEF Scans
<1> HIDE DEF rec
<1>5. /\ DOMAIN jobs' = DOMAIN jobs /\ jobs'[j] = rec
      /\ \A i \in DOMAIN jobs : i # j => jobs'[i] = jobs[i]
  BY <1>2 DEF Goes
<1>6. e \in Nat /\ "skipWorktree" \in Counters
  BY <1>3, DataAssumption DEF Counters
<1>7. /\ n' \in [Counters -> Nat] /\ \A c \in Counters : n'[c] >= n[c]
      /\ \A c \in Counters : c # "skipWorktree" => n'[c] = n[c]
  BY <1>1, <1>2, <1>6
<1>8. \A k \in Sums : n'[k] = n[k] /\ n'[GateOf(k)] = n[GateOf(k)]
  <2>1. \A k \in Sums : k \in Counters /\ k # "skipWorktree" /\ GateOf(k) \in Counters
                         /\ GateOf(k) # "skipWorktree"
    BY SumFacts DEF Sums, StagedSums, DirtySums, Limited
  <2>2. QED
    BY <1>7, <2>1
<1>9. ASSUME NEW k \in Sums, Conserved(k)
      PROVE  Conserved(k)'
  <2>1. Cap(k)' = Cap(k) /\ Cap(k) \in Nat /\ GateOf(k) \in Counters /\ k \in Counters
    BY <1>1, SumFacts, ScanAssumption DEF Cap
  <2>2. \A i \in DOMAIN jobs : jobs'[i].left = jobs[i].left
    BY <1>4, <1>5
  <2>3. \A s \in Shards, st \in StatusesOf(k) :
           /\ LeftOf(KindOf(k), s, st)' = LeftOf(KindOf(k), s, st)
           /\ ToFind(k, s, st)' = ToFind(k, s, st)
    BY <1>5, <2>2 DEF LeftOf, ToFind
  <2>4. n'[GateOf(k)] >= n[GateOf(k)]
    BY <1>7, <2>1
  <2>5. QED
    BY <1>1, <1>7, <1>8, <1>9, <2>1, <2>3, <2>4, Unmoved
<1>10. ASSUME j.kind = "staged", SkipConserved
       PROVE  SkipConserved'
  <2> DEFINE f == SkipLeft
             g == SkipLeft'
             s == j.shard
  <2>1. j = Scan("staged", s) /\ \A r \in Shards : r # s => Scan("staged", r) # j
    BY <1>3, <1>10 DEF ScanRight, Scan
  <2>2. f[s] = e /\ g[s] = 0
    BY <1>2, <1>3, <1>4, <1>5, <2>1 DEF SkipLeft
  <2>3. \A r \in Shards \ {s} : f[r] = g[r]
    BY <1>5, <2>1 DEF SkipLeft
  <2>4. \A r \in Shards : f[r] \in Nat /\ g[r] \in Nat
    BY <1>3, DataAssumption DEF SkipLeft
  <2>5. IsFiniteSet(Shards)
    BY ScanAssumption
  <2> HIDE DEF f, g, s
  <2>6. SumFunctionOnSet(f, Shards) + g[s] = SumFunctionOnSet(g, Shards) + f[s]
    BY <1>3, <2>3, <2>4, <2>5, SumChanged DEF s
  <2>7. SumFunctionOnSet(f, Shards) \in Nat /\ SumFunctionOnSet(g, Shards) \in Nat
    BY <2>4, <2>5, SumNat
  <2>8. n["skipWorktree"] \in Nat /\ n'["skipWorktree"] = n["skipWorktree"] + e
    BY <1>1, <1>2, <1>6, <1>10
  <2>9. n["skipWorktree"] + SumFunctionOnSet(f, Shards) = EntryCount("skipWorktree")
    BY <1>10 DEF SkipConserved, f
  <2>10. n'["skipWorktree"] + SumFunctionOnSet(g, Shards) = EntryCount("skipWorktree")
    BY <1>6, <2>2, <2>6, <2>7, <2>8, <2>9
  <2>11. EntryCount("skipWorktree")' = EntryCount("skipWorktree")
    BY DEF EntryCount
  <2>12. QED
    BY <2>10, <2>11 DEF SkipConserved, g
<1>11. ScanRight(j)'
  <2>1. \A st \in ScanStatus(j.kind) : Beyond(j.kind, st)' <=> Beyond(j.kind, st)
    <3>1. TAKE st \in ScanStatus(j.kind)
    <3>2. CounterOf(j.kind, st) \in Limited
      BY <1>3, CounterTyped DEF Job
    <3>3. n'[CounterOf(j.kind, st)] = n[CounterOf(j.kind, st)]
      BY <1>7, <3>2 DEF Limited, Counters
    <3>4. QED
      BY <3>3 DEF Beyond
  <2>2. jobs[j].skip \subseteq ScanStatus(j.kind)
    BY <1>3 DEF Scans
  <2>3. QED
    BY <1>3, <1>4, <1>5, <2>1, <2>2 DEF ScanRight
<1>12. j.kind # "staged" => n'["skipWorktree"] = n["skipWorktree"]
  BY <1>2
<1>13. QED
  BY <1>2, <1>5, <1>7, <1>8, <1>9, <1>10, <1>11, <1>12, StepOfScan

\* A delta is counted once, in its counter and in the breakdown it belongs to.
LEMMA FoundRight ==
  ASSUME ExactIInv, NEW j \in DOMAIN jobs, NEW st, Found(j, st),
         UNCHANGED <<main, lim, req, index, head, cache>>
  PROVE  JobsRight' /\ Phases' /\ StagedKnown' /\ StagedDone' /\ DirtyDone'
<1>1. /\ TypeOK /\ JobsTyped /\ IndexRead /\ Phases /\ JobsRight
      /\ n \in [Counters -> Nat] /\ lim \in [Limited -> Nat]
  BY DEF ExactIInv, TypeIInv, TypeOK
<1> DEFINE c == CounterOf(j.kind, st)
           rec == [jobs[j] EXCEPT !.left[st] = @ - 1, !.at = "decide", !.c = c, !.v = n[c]]
<1>2. /\ jobs[j].at = "iter" /\ Goes(j, rec) /\ UNCHANGED <<error, late>>
      /\ st \in DOMAIN jobs[j].left /\ jobs[j].left[st] > 0
      /\ n' = [x \in Counters |-> IF x \in Counted(j.kind, st) THEN n[x] + 1 ELSE n[x]]
  BY DEF Found
<1>3. /\ j \in Job /\ jobs[j] \in Scans(j.kind) /\ ScanRight(j)
      /\ j.shard \in Shards /\ j.kind \in {"staged", "dirty"}
  BY <1>1 DEF JobsTyped, JobsRight, Job
<1>4. st \in ScanStatus(j.kind)
  BY <1>2, <1>3 DEF Scans
<1>5. /\ rec.at = "decide" /\ rec.skip = jobs[j].skip /\ rec.c = c /\ rec.v = n[c]
      /\ rec.left = [jobs[j].left EXCEPT ![st] = @ - 1]
  BY <1>3 DEF Scans
<1> HIDE DEF rec
<1>6. /\ DOMAIN jobs' = DOMAIN jobs /\ jobs'[j] = rec
      /\ \A i \in DOMAIN jobs : i # j => jobs'[i] = jobs[i]
  BY <1>2 DEF Goes
<1>7. /\ \A k \in Sums : k \in Counted(j.kind, st) <=> KindOf(k) = j.kind /\ st \in StatusesOf(k)
      /\ "skipWorktree" \notin Counted(j.kind, st)
      /\ c \in Counted(j.kind, st) /\ c \in Counters
  BY <1>3, <1>4, CountedFacts
<1>8. n' \in [Counters -> Nat] /\ \A x \in Counters : n'[x] >= n[x]
  BY <1>1, <1>2
<1>9. \A k \in Sums : n'[k] = IF KindOf(k) = j.kind /\ st \in StatusesOf(k) THEN n[k] + 1 ELSE n[k]
  <2>1. \A k \in Sums : k \in Counters
    BY SumFacts
  <2>2. QED
    BY <1>2, <1>7, <2>1
<1>10. ASSUME NEW k \in Sums, KindOf(k) = j.kind, Conserved(k)
       PROVE  Conserved(k)'
  <2>1. Cap(k)' = Cap(k) /\ Cap(k) \in Nat /\ GateOf(k) \in Counters /\ k \in Counters
    BY <1>1, SumFacts, ScanAssumption DEF Cap
  <2>2. j = Scan(KindOf(k), j.shard) /\ \A s \in Shards : s # j.shard => Scan(KindOf(k), s) # j
    BY <1>3, <1>10 DEF ScanRight, Scan
  <2>3. \A s \in Shards, x \in StatusesOf(k) : ToFind(k, s, x)' = ToFind(k, s, x)
    BY DEF ToFind
  <2>4. \A s \in Shards, x \in StatusesOf(k) :
           s # j.shard \/ x # st => LeftOf(KindOf(k), s, x)' = LeftOf(KindOf(k), s, x)
    <3>1. TAKE s \in Shards, x \in StatusesOf(k)
    <3>2. CASE s # j.shard
      BY <1>6, <2>2, <3>2 DEF LeftOf
    <3>3. CASE s = j.shard /\ x # st
      <4>1. x \in ScanStatus(j.kind)
        BY <1>10, SumFacts
      <4>2. rec.left[x] = jobs[j].left[x]
        BY <1>3, <1>5, <3>3, <4>1 DEF Scans
      <4>3. QED
        BY <1>6, <2>2, <3>3, <4>2 DEF LeftOf
    <3>4. QED
      BY <3>2, <3>3
  <2>5. CASE st \notin StatusesOf(k)
    <3>1. n'[k] = n[k] /\ n'[GateOf(k)] >= n[GateOf(k)]
      BY <1>8, <1>9, <2>1, <2>5
    <3>2. QED
      BY <1>1, <1>8, <1>10, <2>1, <2>3, <2>4, <2>5, <3>1, Unmoved
  <2>6. CASE st \in StatusesOf(k)
    <3> DEFINE P == Shards \X StatusesOf(k)
               p == <<j.shard, st>>
               f == Left(k)
               g == Left(k)'
    <3>1. p \in P /\ IsFiniteSet(P)
      BY <1>3, <2>6, PairsFinite
    <3>2. f[p] = jobs[j].left[st] /\ g[p] = jobs[j].left[st] - 1
      <4>1. LeftOf(KindOf(k), j.shard, st) = jobs[j].left[st]
        BY <2>2 DEF LeftOf
      <4>2. LeftOf(KindOf(k), j.shard, st)' = jobs[j].left[st] - 1
        BY <1>2, <1>5, <1>6, <2>2 DEF LeftOf
      <4>3. QED
        BY <1>3, <2>6, <4>1, <4>2 DEF Left
    <3>3. \A q \in P : f[q] \in Nat
      BY <1>1, LeftNat
    <3>4. \A q \in P \ {p} : g[q] = f[q]
      <4>1. TAKE q \in P \ {p}
      <4>2. q[1] \in Shards /\ q[2] \in StatusesOf(k) /\ (q[1] # j.shard \/ q[2] # st)
        OBVIOUS
      <4>3. QED
        BY <2>4, <4>2 DEF Left
    <3>5. jobs[j].left[st] \in Nat /\ g[p] \in Nat
      BY <1>2, <3>1, <3>2, <3>3
    <3>6. \A q \in P : g[q] \in Nat
      BY <3>3, <3>4, <3>5
    <3>7. SumLeft(k) = SumFunctionOnSet(f, P) /\ SumLeft(k)' = SumFunctionOnSet(g, P)
      BY DEF SumLeft
    <3> HIDE DEF f, g, P, p
    <3>8. SumFunctionOnSet(f, P) + g[p] = SumFunctionOnSet(g, P) + f[p]
      BY <3>1, <3>3, <3>4, <3>6, SumChanged
    <3>9. SumFunctionOnSet(f, P) \in Nat /\ SumFunctionOnSet(g, P) \in Nat
      BY <3>1, <3>3, <3>6, SumNat
    <3>10. SumLeft(k)' + 1 = SumLeft(k) /\ SumLeft(k)' \in Nat
      BY <3>2, <3>5, <3>7, <3>8, <3>9
    <3>11. SumWhole(k)' = SumWhole(k)
      BY <2>3 DEF SumWhole, Whole
    <3>12. n'[k] = n[k] + 1 /\ n[k] \in Nat
      BY <1>1, <1>9, <1>10, <2>1, <2>6
    <3>13. n'[k] + SumLeft(k)' = n[k] + SumLeft(k)
      BY <3>10, <3>12
    <3>14. n[GateOf(k)] >= Cap(k) => n'[GateOf(k)] >= Cap(k)'
      BY <1>1, <1>8, <2>1
    <3>15. QED
      BY <1>10, <3>11, <3>13, <3>14 DEF Conserved
  <2>7. QED
    BY <2>5, <2>6
<1>11. SkipConserved => SkipConserved'
  <2>1. n'["skipWorktree"] = n["skipWorktree"]
    BY <1>2, <1>7 DEF Counters
  <2>2. \A i \in DOMAIN jobs : jobs'[i].at = "start" <=> jobs[i].at = "start"
    BY <1>2, <1>5, <1>6
  <2>3. SkipLeft' = SkipLeft
    BY <1>6, <2>2 DEF SkipLeft
  <2>4. QED
    BY <2>1, <2>3 DEF SkipConserved, EntryCount
<1>12. ScanRight(j)'
  <2>1. n[c] < n'[c]
    BY <1>1, <1>2, <1>7
  <2>2. \A x \in ScanStatus(j.kind) : Beyond(j.kind, x) => Beyond(j.kind, x)'
    <3>1. TAKE x \in ScanStatus(j.kind)
    <3>2. CounterOf(j.kind, x) \in Counters /\ CounterOf(j.kind, x) \in Limited
      BY <1>3, CountedFacts, CounterTyped
    <3>3. /\ n[CounterOf(j.kind, x)] \in Nat /\ n'[CounterOf(j.kind, x)] \in Nat
          /\ n'[CounterOf(j.kind, x)] >= n[CounterOf(j.kind, x)]
          /\ lim[CounterOf(j.kind, x)] \in Nat
      BY <1>1, <1>8, <3>2
    <3>4. QED
      BY <3>3 DEF Beyond
  <2>3. jobs[j].skip \subseteq ScanStatus(j.kind)
    BY <1>3 DEF Scans
  <2>4. QED
    BY <1>3, <1>5, <1>6, <2>1, <2>2, <2>3 DEF ScanRight
<1>13. \A k \in Sums : KindOf(k) # j.kind => n'[k] = n[k]
  BY <1>9
<1>14. j.kind # "staged" => n'["skipWorktree"] = n["skipWorktree"]
  BY <1>2, <1>7 DEF Counters
<1>15. QED
  BY <1>2, <1>6, <1>8, <1>10, <1>11, <1>12, <1>13, <1>14, StepOfScan

LEMMA DecideRight ==
  ASSUME ExactIInv, NEW j \in DOMAIN jobs, Decide(j),
         UNCHANGED <<main, lim, req, index, head, cache>>
  PROVE  JobsRight' /\ Phases' /\ StagedKnown' /\ StagedDone' /\ DirtyDone'
<1>1. /\ TypeOK /\ JobsTyped /\ Phases /\ JobsRight
      /\ n \in [Counters -> Nat] /\ lim \in [Limited -> Nat]
  BY DEF ExactIInv, TypeIInv, TypeOK
<1> DEFINE c == jobs[j].c
           verdict == Verdict(jobs[j].v, lim[c], n[OtherOf(c)], lim[OtherOf(c)])
           same == {st \in DOMAIN jobs[j].left : CounterOf(j.kind, st) = c}
           rec == [jobs[j] EXCEPT !.at = IF verdict = "stop" THEN "dec" ELSE "iter",
                                  !.skip = IF verdict = "skip" THEN @ \cup same ELSE @,
                                  !.c = "none", !.v = 0]
<1>2. jobs[j].at = "decide" /\ Goes(j, rec) /\ n' = n /\ UNCHANGED <<error, late>>
  BY DEF Decide
<1>3. /\ j \in Job /\ jobs[j] \in Scans(j.kind) /\ ScanRight(j) /\ c \in ScanCounters(j.kind)
      /\ j.kind \in {"staged", "dirty"}
  BY <1>1, <1>2 DEF JobsTyped, JobsRight, Job
<1>4. /\ rec.at = IF verdict = "stop" THEN "dec" ELSE "iter"
      /\ rec.skip = IF verdict = "skip" THEN jobs[j].skip \cup same ELSE jobs[j].skip
      /\ rec.left = jobs[j].left
  BY <1>3 DEF Scans
<1>5. /\ c \in Counters /\ c \in Limited /\ OtherOf(c) \in Counters /\ OtherOf(c) \in Limited
      /\ \A st \in ScanStatus(j.kind) : CounterOf(j.kind, st) \in {c, OtherOf(c)}
  BY <1>3 DEF ScanCounters, OtherOf, Counters, Limited, CounterOf, ScanStatus, StagedStatus, DirtyStatus
<1>6. n[c] \in Nat /\ n[OtherOf(c)] \in Nat /\ lim[c] \in Nat /\ lim[OtherOf(c)] \in Nat
  BY <1>1, <1>5
<1>7. jobs[j].v < n[c] /\ jobs[j].v \in Nat
  BY <1>2, <1>3 DEF ScanRight, Scans
<1>8. verdict # "insert" => n[c] >= lim[c]
  BY <1>6, <1>7 DEF Verdict
<1>9. verdict = "stop" => n[c] >= lim[c] /\ n[OtherOf(c)] >= lim[OtherOf(c)]
  BY <1>6, <1>7 DEF Verdict
<1> HIDE DEF rec, verdict
<1>10. \A i \in DOMAIN jobs' : jobs'[i] = IF i = j THEN rec ELSE jobs[i]
  BY <1>2 DEF Goes
<1>11. \A st : Beyond(j.kind, st)' <=> Beyond(j.kind, st)
  BY <1>2 DEF Beyond
<1>12. ScanRight(j)'
  <2>1. \A st \in rec.skip : Beyond(j.kind, st)
    <3>1. \A st \in jobs[j].skip : Beyond(j.kind, st)
      BY <1>3 DEF ScanRight
    <3>2. verdict = "skip" => \A st \in same : Beyond(j.kind, st)
      BY <1>8 DEF Beyond
    <3> HIDE DEF same
    <3>3. QED
      BY <1>4, <3>1, <3>2
  <2>2. rec.at = "dec" => \A st \in ScanStatus(j.kind) : Beyond(j.kind, st)
    <3>1. rec.at = "dec" => verdict = "stop"
      BY <1>4
    <3>2. QED
      BY <1>5, <1>9, <3>1 DEF Beyond
  <2>3. rec.at \in {"iter", "dec"}
    BY <1>4
  <2>4. jobs'[j] = rec
    BY <1>2, <1>10 DEF Goes
  <2>5. j = Scan(j.kind, j.shard)
    BY <1>3 DEF ScanRight
  <2>6. QED
    BY <1>11, <2>1, <2>2, <2>3, <2>4, <2>5 DEF ScanRight
<1>13. jobs[j].at # "start" /\ rec.at # "start"
  BY <1>2, <1>4
<1>14. QED
  BY <1>2, <1>4, <1>12, <1>13, MovesRight

LEMMA ExhaustedRight ==
  ASSUME ExactIInv, NEW j \in DOMAIN jobs, Exhausted(j),
         UNCHANGED <<main, lim, req, index, head, cache>>
  PROVE  JobsRight' /\ Phases' /\ StagedKnown' /\ StagedDone' /\ DirtyDone'
<1>1. JobsTyped /\ JobsRight
  BY DEF ExactIInv, TypeIInv
<1> DEFINE rec == [jobs[j] EXCEPT !.at = "dec"]
<1>2. /\ jobs[j].at = "iter" /\ Goes(j, rec) /\ n' = n /\ UNCHANGED <<error, late>>
      /\ \A st \in DOMAIN jobs[j].left \ jobs[j].skip : jobs[j].left[st] = 0
  BY DEF Exhausted
<1>3. jobs[j] \in Scans(j.kind) /\ ScanRight(j)
  BY <1>1 DEF JobsTyped, JobsRight
<1>4. rec.at = "dec" /\ rec.skip = jobs[j].skip /\ rec.left = jobs[j].left
  BY <1>3 DEF Scans
<1> HIDE DEF rec
<1>5. jobs'[j] = rec
  BY <1>2 DEF Goes
<1>6. DOMAIN jobs[j].left = ScanStatus(j.kind)
  BY <1>3 DEF Scans
<1>7. \A st : Beyond(j.kind, st)' <=> Beyond(j.kind, st)
  BY <1>2 DEF Beyond
<1>8. ScanRight(j)'
  BY <1>2, <1>3, <1>4, <1>5, <1>6, <1>7 DEF ScanRight
<1>9. QED
  BY <1>2, <1>4, <1>8, MovesRight

\* A scan that ends has left nothing that is not beyond a limit.
LEMMA DecRight ==
  ASSUME ExactIInv, NEW j \in DOMAIN jobs, DecInflight(j),
         UNCHANGED <<main, lim, req, index, head, cache>>
  PROVE  JobsRight' /\ Phases' /\ StagedKnown' /\ StagedDone' /\ DirtyDone'
<1>1. /\ TypeOK /\ JobsTyped /\ IndexRead /\ Phases /\ JobsRight /\ StagedKnown
      /\ n \in [Counters -> Nat] /\ lim \in [Limited -> Nat]
      /\ req \in Request /\ head \in Heads \cup {NoHead}
  BY DEF ExactIInv, TypeIInv, TypeOK
<1>2. /\ j \in Job /\ jobs[j] \in Scans(j.kind) /\ ScanRight(j) /\ index \in Indexes
      /\ j.shard \in Shards /\ j.kind \in {"staged", "dirty"}
  <2>1. jobs # << >>
    OBVIOUS
  <2>2. QED
    BY <1>1, <2>1 DEF JobsTyped, JobsRight, IndexRead, Job
<1>3. jobs[j].at = "dec" /\ UNCHANGED <<n, error, late>>
  BY <1>2 DEF DecInflight, ScanRight
<1>4. /\ DOMAIN jobs' = DOMAIN jobs \ {j}
      /\ \A i \in DOMAIN jobs : i # j => i \in DOMAIN jobs' /\ jobs'[i] = jobs[i]
  BY DEF DecInflight
<1>5. ASSUME NEW k \in Sums, KindOf(k) = j.kind, Conserved(k)
      PROVE  Conserved(k)'
  <2> DEFINE P == Shards \X StatusesOf(k)
             f == Left(k)
             g == Left(k)'
  <2>1. /\ Cap(k)' = Cap(k) /\ Cap(k) \in Nat /\ GateOf(k) \in Counters /\ k \in Counters
        /\ GateOf(k) \in Limited
    BY <1>1, SumFacts, ScanAssumption DEF Cap
  <2>2. j = Scan(KindOf(k), j.shard)
    BY <1>2, <1>5 DEF ScanRight
  <2>3. \A s \in Shards, st \in StatusesOf(k) :
           LeftOf(KindOf(k), s, st)' = IF s = j.shard THEN 0 ELSE LeftOf(KindOf(k), s, st)
    <3>1. TAKE s \in Shards, st \in StatusesOf(k)
    <3>2. CASE s = j.shard
      <4>1. Scan(KindOf(k), s) \notin DOMAIN jobs'
        BY <1>4, <2>2, <3>2
      <4>2. QED
        BY <3>2, <4>1 DEF LeftOf
    <3>3. CASE s # j.shard
      <4>1. Scan(KindOf(k), s) # j
        BY <3>3 DEF Scan
      <4>2. QED
        BY <1>4, <3>3, <4>1 DEF LeftOf
    <3>4. QED
      BY <3>2, <3>3
  <2>4. \A p \in P : f[p] \in Nat /\ g[p] \in {0, f[p]}
    <3>1. \A p \in P : f[p] \in Nat
      BY <1>1, LeftNat
    <3>2. \A p \in P : g[p] \in {0, f[p]}
      BY <2>3 DEF Left
    <3>3. QED
      BY <3>1, <3>2
  <2>5. SumWhole(k)' = SumWhole(k)
    BY DEF SumWhole, Whole, ToFind
  <2>6. SumLeft(k) = SumFunctionOnSet(f, P) /\ SumLeft(k)' = SumFunctionOnSet(g, P)
    BY DEF SumLeft
  <2>7. IsFiniteSet(P)
    BY PairsFinite
  <2>8. CASE n[GateOf(k)] >= Cap(k)
    <3> HIDE DEF f, g, P
    <3>1. SumFunctionOnSet(g, P) <= SumFunctionOnSet(f, P)
      BY <2>4, <2>7, SumAtMost
    <3>2. SumLeft(k) \in Nat /\ SumLeft(k)' \in Nat
      <4>1. \A p \in P : g[p] \in Nat
        BY <2>4
      <4>2. QED
        BY <2>4, <2>6, <2>7, <4>1, SumNat
    <3>3. SumWhole(k) \in Nat
      <4>1. k \in StagedSums => head \in Heads
        BY <1>1, <1>2, <1>5 DEF Phases, KindOf
      <4>2. QED
        BY <1>1, <1>2, <4>1, WholeNat
    <3>4. n[k] \in Nat
      BY <1>1, <2>1
    <3>5. n[k] + SumLeft(k) <= SumWhole(k)
      BY <1>5 DEF Conserved
    <3>6. n[k] + SumLeft(k)' <= SumWhole(k)
      BY <2>6, <3>1, <3>2, <3>3, <3>4, <3>5
    <3>7. QED
      BY <1>3, <2>1, <2>5, <2>8, <3>6 DEF Conserved
  <2>9. CASE ~(n[GateOf(k)] >= Cap(k))
    <3>1. Cap(k) = lim[GateOf(k)]
      BY <1>1, <1>5 DEF Phases, Cap, KindOf, GateOf, StagedSums
    <3>2. ASSUME NEW st \in StatusesOf(k)
          PROVE  jobs[j].left[st] = 0
      <4>1. st \in ScanStatus(j.kind) /\ CounterOf(j.kind, st) = GateOf(k)
        BY <1>5, SumFacts
      <4>2. ~Beyond(j.kind, st)
        BY <2>9, <3>1, <4>1 DEF Beyond
      <4>3. QED
        BY <1>2, <1>3, <4>1, <4>2 DEF ScanRight
    <3>3. \A s \in Shards, st \in StatusesOf(k) :
             /\ LeftOf(KindOf(k), s, st)' = LeftOf(KindOf(k), s, st)
             /\ ToFind(k, s, st)' = ToFind(k, s, st)
      BY <2>2, <2>3, <3>2 DEF LeftOf, ToFind
    <3>4. n' \in [Counters -> Nat] /\ n'[k] = n[k] /\ n'[GateOf(k)] >= n[GateOf(k)]
      BY <1>1, <1>3, <2>1
    <3>5. QED
      BY <1>1, <1>5, <2>1, <3>3, <3>4, Unmoved
  <2>10. QED
    BY <2>8, <2>9
<1>6. SkipConserved => SkipConserved'
  <2>1. \A s \in Shards : (Scan("staged", s) \in DOMAIN jobs' /\ jobs'[Scan("staged", s)].at = "start")
                             <=> (Scan("staged", s) \in DOMAIN jobs /\ jobs[Scan("staged", s)].at = "start")
    BY <1>3, <1>4
  <2>2. SkipLeft' = SkipLeft
    BY <2>1 DEF SkipLeft
  <2>3. QED
    BY <1>3, <2>2 DEF SkipConserved, EntryCount
<1>7. \A c \in Counters : n'[c] >= n[c]
  BY <1>1, <1>3
<1>8. \A k \in Sums : n'[k] = n[k]
  BY <1>3
<1>9. n' \in [Counters -> Nat] /\ n'["skipWorktree"] = n["skipWorktree"]
  BY <1>1, <1>3
<1>10. DOMAIN jobs' \subseteq DOMAIN jobs /\ j \notin DOMAIN jobs'
  BY <1>4
<1>11. QED
  BY <1>3, <1>4, <1>5, <1>6, <1>7, <1>8, <1>9, <1>10, StepOfScan

-----------------------------------------------------------------------------
\* The steps of the main thread, when nothing fails but reading the index.

LEMMA Full ==
  /\ FullLimits["staged"] = Limits["staged"] /\ FullLimits["conflicted"] = Limits["conflicted"]
BY DEF FullLimits, Limited

\* What the staged counters say is about HEAD and the index, and does not
\* depend on lim_ nor on the working tree.
LEMMA StagedKnownKept ==
  ASSUME ExactIInv, UNCHANGED <<index, jobs>>, n' \in [Counters -> Nat],
         \A k \in StagedSums : n'[k] = n[k], n'["skipWorktree"] = n["skipWorktree"],
         head' \in {head, NoHead}
  PROVE  StagedKnown'
<1>1. SUFFICES ASSUME head' # NoHead
               PROVE  SkipConserved' /\ \A k \in StagedSums : Conserved(k)'
  BY DEF StagedKnown
<1>2. head' = head /\ SkipConserved /\ \A k \in StagedSums : Conserved(k)
  BY <1>1 DEF ExactIInv, StagedKnown
<1>3. SkipConserved'
  BY <1>2 DEF SkipConserved, SkipLeft, EntryCount
<1>4. ASSUME NEW k \in StagedSums
      PROVE  Conserved(k)'
  <2>1. k \in Sums /\ GateOf(k) \in StagedSums /\ KindOf(k) = "staged"
    BY DEF Sums, StagedSums, GateOf, KindOf
  <2>2. Cap(k)' = Cap(k) /\ Cap(k) \in Nat /\ GateOf(k) \in Counters
    BY <2>1, SumFacts, ScanAssumption DEF Cap
  <2>3. n \in [Counters -> Nat]
    BY DEF ExactIInv, TypeIInv, TypeOK
  <2>4. n'[k] = n[k] /\ n'[GateOf(k)] >= n[GateOf(k)]
    BY <2>1, <2>2, <2>3
  <2>5. \A s \in Shards, st \in StatusesOf(k) :
           /\ LeftOf(KindOf(k), s, st)' = LeftOf(KindOf(k), s, st)
           /\ ToFind(k, s, st)' = ToFind(k, s, st)
    BY <1>2 DEF LeftOf, ToFind
  <2>6. QED
    BY <1>2, <2>1, <2>2, <2>3, <2>4, <2>5, Unmoved
<1>5. QED
  BY <1>3, <1>4

\* Between requests, and before a request has started a scan.
LEMMA BetweenRight ==
  ASSUME ExactIInv, TypeIInv', UNCHANGED <<jobs, error, late>>, jobs = << >>,
         main' \in {"idle", "read", "reset", "dtor", "freed"}, req'.round = 0, head' \in {head, NoHead},
         index' = index \/ head' = NoHead,
         n' = n, lim' \in {lim, FullLimits} \/ \E untracked, state \in BOOLEAN : lim' = Lowered(untracked, state)
  PROVE  JobsRight' /\ Phases' /\ StagedKnown' /\ StagedDone' /\ DirtyDone'
<1>1. Phases /\ n \in [Counters -> Nat]
  BY DEF ExactIInv, TypeIInv, TypeOK
<1>2. DOMAIN jobs' = {}
  OBVIOUS
<1>3. ~StagedOff' => lim'["staged"] = Limits["staged"] /\ lim'["conflicted"] = Limits["conflicted"]
  <2>1. CASE lim' = lim
    BY <1>1, <2>1 DEF Phases, StagedOff
  <2>2. CASE lim' = FullLimits
    BY <2>2, Full
  <2>3. ASSUME NEW untracked \in BOOLEAN, NEW state \in BOOLEAN, lim' = Lowered(untracked, state)
        PROVE  ~StagedOff' => lim'["staged"] = Limits["staged"] /\ lim'["conflicted"] = Limits["conflicted"]
    BY <2>3 DEF Lowered, StagedOff, Limited
  <2>4. QED
    BY <2>1, <2>2, <2>3
<1>4. Phases'
  BY <1>1, <1>2, <1>3 DEF Phases
<1>5. StagedKnown'
  <2>1. CASE head' = NoHead
    BY <2>1 DEF StagedKnown
  <2>2. CASE index' = index
    BY <1>1, <2>2, StagedKnownKept
  <2>3. QED
    BY <2>1, <2>2
<1>6. QED
  BY <1>2, <1>4, <1>5 DEF JobsRight, StagedDone, DirtyDone

LEMMA BeginRight ==
  ASSUME ExactIInv, TypeIInv', Begin
  PROVE  JobsRight' /\ Phases' /\ StagedKnown' /\ StagedDone' /\ DirtyDone'
<1>1. jobs = << >>
  BY DEF Begin, ExactIInv, Phases
<1>2. req'.round = 0 /\ main' = "read" /\ UNCHANGED <<index, head, n, error, jobs, late>>
  BY <1>1 DEF Begin
<1>3. \E untracked, state \in BOOLEAN : lim' = Lowered(untracked, state)
  BY Zenon DEF Begin
<1>4. QED
  BY <1>1, <1>2, <1>3, BetweenRight

\* A new index makes head_ forget the commit: what was counted was about the
\* other index.
LEMMA ReadIndexRight ==
  ASSUME ExactIInv, TypeIInv', ReadIndex
  PROVE  JobsRight' /\ Phases' /\ StagedKnown' /\ StagedDone' /\ DirtyDone'
<1>1. jobs = << >> /\ Phases
  BY DEF ReadIndex, ExactIInv, Phases
<1>2. /\ main' \in {"reset", "idle"} /\ UNCHANGED <<req, n, error, jobs, late>>
      /\ lim' \in {lim, FullLimits}
  BY <1>1 DEF ReadIndex, Throw
<1>3. head' \in {head, NoHead}
  BY DEF ReadIndex, AfterReload
<1>4. index' = index \/ head' = NoHead
  BY <1>1 DEF ReadIndex, AfterReload, Phases
<1>5. QED
  BY <1>1, <1>2, <1>3, <1>4, BetweenRight DEF Phases

LEMMA EndRight ==
  ASSUME ExactIInv, TypeIInv', Report \/ Drop \/ Dtor
  PROVE  JobsRight' /\ Phases' /\ StagedKnown' /\ StagedDone' /\ DirtyDone'
<1>1. jobs = << >> /\ Phases
  BY DEF Report, Drop, Dtor, ExactIInv, Phases
<1>2. /\ main' \in {"idle", "dtor", "freed"} /\ UNCHANGED <<req, index, head, n, error, jobs, late>>
      /\ lim' \in {lim, FullLimits}
  BY DEF Report, Drop, Dtor
<1>3. QED
  BY <1>1, <1>2, BetweenRight DEF Phases

\* Wait and Verify: once the scans are done nothing changes any more.
LEMMA WaitRight ==
  ASSUME ExactIInv, IInv', Wait \/ Verify
  PROVE  JobsRight' /\ Phases' /\ StagedKnown' /\ StagedDone' /\ DirtyDone'
<1>1. /\ JobsRight /\ Phases /\ StagedDone /\ DirtyDone /\ n \in [Counters -> Nat]
      /\ IInv
  BY DEF ExactIInv, TypeIInv, TypeOK
<1>2. UNCHANGED <<req, index, head, n, error, jobs, late, lim>>
  BY <1>1 DEF Wait, Verify, Phases
<1>3. /\ main \in {"wait", "verify"} /\ main' \in {"wait", "verify", "report"}
      /\ main' = "wait" => main = "wait"
      /\ main' # "wait" => jobs = << >>
  <2>1. CASE Wait
    BY <1>1, <1>2, <2>1 DEF Wait, Phases, IInv, ScansDone
  <2>2. CASE Verify
    BY <1>1, <1>2, <2>2 DEF Verify, Phases, IInv, ScansDone
  <2>3. QED
    BY <2>1, <2>2
<1>4. /\ StagedOff' = StagedOff /\ DirtyOn' = DirtyOn /\ StagedInEmpty' = StagedInEmpty
      /\ EntryCount("skipWorktree")' = EntryCount("skipWorktree")
  BY <1>2 DEF StagedOff, DirtyOn, StagedInEmpty, IndexSize, EntryCount
<1>5. JobsRight'
  BY <1>1, <1>2 DEF JobsRight, ScanRight, Beyond
<1>6. Phases'
  <2>1. main' # "undefined" /\ (jobs' # << >> => main' \in {"dirty", "wait"})
    BY <1>2, <1>3
  <2>2. ASSUME NEW j \in DOMAIN jobs'
        PROVE  /\ j.kind = "dirty" => main' = "wait" /\ DirtyOn'
               /\ j.kind = "staged" => ~StagedOff' /\ head' = req'.head /\ head' # NoHead
    <3>1. j \in DOMAIN jobs /\ jobs # << >>
      BY <1>2, <2>2
    <3>2. main' = "wait"
      BY <1>3, <3>1
    <3>3. QED
      BY <1>1, <1>2, <1>4, <3>1, <3>2 DEF Phases
  <2>3. ~StagedOff' => lim'["staged"] = Limits["staged"] /\ lim'["conflicted"] = Limits["conflicted"]
    BY <1>1, <1>2, <1>4 DEF Phases
  <2>4. error' = FALSE /\ late' = 0 /\ req'.round = 0 /\ (index' = NoIndex => head' = NoHead)
    BY <1>1, <1>2 DEF Phases
  <2>5. QED
    BY <2>1, <2>2, <2>3, <2>4 DEF Phases
<1>7. StagedKnown'
  BY <1>1, <1>2, StagedKnownKept
<1>8. StagedDone'
  <2>1. \/ StagedOff /\ \A k \in StagedSums : n[k] = 0
        \/ /\ ~StagedOff /\ req.head = NoHead
           /\ n["staged"] = StagedInEmpty /\ n["conflicted"] = 0
           /\ n["skipWorktree"] = EntryCount("skipWorktree")
        \/ ~StagedOff /\ req.head # NoHead /\ head = req.head
    BY <1>1, <1>3 DEF StagedDone
  <2>2. QED
    BY <1>2, <1>4, <2>1 DEF StagedDone
<1>9. DirtyDone'
  <2>1. \A k : Conserved(k)' <=> Conserved(k)
    BY <1>2 DEF Conserved, SumLeft, SumWhole, Left, LeftOf, Whole, ToFind, Cap
  <2>2. \A k \in DirtySums : IF DirtyOn THEN Conserved(k) ELSE n[k] = 0
    BY <1>1, <1>3 DEF DirtyDone
  <2>3. \A k \in DirtySums : IF DirtyOn' THEN Conserved(k)' ELSE n'[k] = 0
    BY <1>2, <1>4, <2>1, <2>2
  <2>4. main' \notin {"staged", "dirty"}
    BY <1>3
  <2>5. QED
    BY <2>3, <2>4 DEF DirtyDone
<1>10. QED
  BY <1>5, <1>6, <1>7, <1>8, <1>9

LEMMA ResetRight ==
  ASSUME ExactIInv, TypeIInv', ResetDirty
  PROVE  JobsRight' /\ Phases' /\ StagedKnown' /\ StagedDone' /\ DirtyDone'
<1>1. jobs = << >> /\ Phases /\ n \in [Counters -> Nat] /\ n' \in [Counters -> Nat]
  BY DEF ResetDirty, ExactIInv, Phases, TypeIInv, TypeOK
<1>2. main' = "staged" /\ error' = FALSE /\ UNCHANGED <<lim, req, index, head, jobs, late>>
  BY DEF ResetDirty
<1>3. n' = Zero({"unstaged", "untracked", "unstagedDeleted"})
  BY DEF ResetDirty, Reset
<1>4. /\ \A k \in StagedSums : n'[k] = n[k]
      /\ n'["skipWorktree"] = n["skipWorktree"] /\ \A k \in DirtySums : n'[k] = 0
  BY <1>3 DEF Zero, StagedSums, DirtySums, Counters, Limited
<1>5. Phases'
  BY <1>1, <1>2 DEF Phases, StagedOff
<1>6. StagedKnown'
  BY <1>1, <1>2, <1>4, StagedKnownKept
<1>7. QED
  BY <1>1, <1>2, <1>4, <1>5, <1>6 DEF JobsRight, StagedDone, DirtyDone

\* Every scan that is started, and those there were.
LEMMA ScansStarted ==
  ASSUME NEW kind \in {"staged", "dirty"}, NEW S \in SUBSET Shards, NEW scans,
         DOMAIN scans = JobsOf(kind, S), jobs' = Joined(scans), req.round = 0
  PROVE  /\ \A j \in DOMAIN jobs' : j \in DOMAIN jobs \/ \E s \in S : j = Scan(kind, s)
         /\ \A s \in S : /\ Scan(kind, s) \in DOMAIN scans /\ Scan(kind, s) \in DOMAIN jobs'
                         /\ jobs'[Scan(kind, s)] = scans[Scan(kind, s)]
         /\ \A j \in DOMAIN jobs : j.kind # kind => j \in DOMAIN jobs' /\ jobs'[j] = jobs[j]
<1>1. /\ DOMAIN jobs' = DOMAIN scans \cup DOMAIN jobs
      /\ \A j \in DOMAIN jobs' : jobs'[j] = IF j \in DOMAIN scans THEN scans[j] ELSE jobs[j]
  BY DEF Joined
<1>2. \A s \in S : Scan(kind, s) \in DOMAIN scans
  BY DEF JobsOf, Scan
<1>3. \A j \in DOMAIN scans : j.kind = kind /\ \E s \in S : j = Scan(kind, s)
  BY DEF JobsOf, Scan
<1>4. QED
  BY <1>1, <1>2, <1>3

\* A scan that has just been started.
LEMMA NewScanRight ==
  ASSUME NEW kind \in {"staged", "dirty"}, NEW s, NEW left,
         jobs'[Scan(kind, s)] = NewJob(left)
  PROVE  /\ ScanRight(Scan(kind, s))'
         /\ jobs'[Scan(kind, s)].left = left /\ jobs'[Scan(kind, s)].at = "start"
BY DEF ScanRight, NewJob, Scan

\* Nothing has been counted and scans have everything left to find.
LEMMA AllLeft ==
  ASSUME NEW k \in Sums, n'[k] = 0,
         \A s \in Shards, st \in StatusesOf(k) :
            LeftOf(KindOf(k), s, st)' = ToFind(k, s, st)' /\ ToFind(k, s, st)' \in Nat
  PROVE  Conserved(k)'
<1> DEFINE P == Shards \X StatusesOf(k)
           f == Left(k)'
<1>1. Left(k)' = Whole(k)'
  BY DEF Left, Whole
<1>2. SumLeft(k)' = SumWhole(k)'
  BY <1>1 DEF SumLeft, SumWhole
<1>3. \A p \in P : f[p] \in Nat
  BY DEF Left
<1>4. SumLeft(k)' = SumFunctionOnSet(f, P)
  BY DEF SumLeft
<1> HIDE DEF f
<1>5. SumLeft(k)' \in Nat
  BY <1>3, <1>4, PairsFinite, SumNat
<1>6. QED
  BY <1>2, <1>5 DEF Conserved

LEMMA StagedScanRight ==
  ASSUME ExactIInv, Staged, StagedScan, "commit" \notin Faults
  PROVE  JobsRight' /\ Phases' /\ StagedKnown' /\ StagedDone' /\ DirtyDone'
<1>1. /\ main = "staged" /\ jobs = << >> /\ Phases /\ DirtyDone /\ index \in Indexes
      /\ req \in Request /\ n \in [Counters -> Nat]
  BY DEF Staged, ExactIInv, Phases, TypeIInv, IndexRead, TypeOK
<1>2. /\ ~StagedOff /\ req.head # NoHead /\ head' = req.head /\ n' = Zero(StagedCounters)
      /\ main' = "dirty" /\ UNCHANGED <<lim, req, index, error, late>>
  BY DEF Staged, StagedScan
<1>3. PICK scans : /\ jobs' = Joined(scans)
                   /\ scans = [j \in JobsOf("staged", Shards) |->
                                 NewJob(StagedDeltas[req.head][index][j.shard])]
  BY DEF StagedScan, RunAsync
<1>4. DOMAIN scans = JobsOf("staged", Shards) /\ req.round = 0
  BY <1>1, <1>3 DEF Phases
<1>5. /\ \A j \in DOMAIN jobs' : \E s \in Shards : j = Scan("staged", s)
      /\ \A s \in Shards : /\ Scan("staged", s) \in DOMAIN scans /\ Scan("staged", s) \in DOMAIN jobs'
                           /\ jobs'[Scan("staged", s)] = scans[Scan("staged", s)]
  BY <1>1, <1>3, <1>4, ScansStarted, SMTT(20)
<1>6. \A s \in Shards :
         jobs'[Scan("staged", s)] = NewJob(StagedDeltas[req.head][index][s])
  BY <1>3, <1>4, <1>5 DEF Scan
<1>7. JobsRight'
  BY <1>5, <1>6, NewScanRight DEF JobsRight
<1>8. StagedOff' = StagedOff
  BY <1>2 DEF StagedOff
<1>9. Phases'
  <2>1. \A j \in DOMAIN jobs' : j.kind = "staged"
    BY <1>5 DEF Scan
  <2>2. index' # NoIndex
    BY <1>1, <1>2, ScanAssumption
  <2>3. QED
    BY <1>1, <1>2, <1>8, <2>1, <2>2 DEF Phases
<1>10. \A c \in StagedCounters : n'[c] = 0
  BY <1>2 DEF Zero, StagedCounters, Counters, Limited
<1>11. ASSUME NEW k \in StagedSums
       PROVE  Conserved(k)'
  <2>1. k \in Sums /\ KindOf(k) = "staged" /\ n'[k] = 0 /\ StatusesOf(k) \subseteq StagedStatus
    BY <1>10, SumFacts DEF Sums, KindOf, StagedSums, StagedCounters, ScanStatus
  <2>2. StagedDeltas[req.head][index] \in [Shards -> [StagedStatus -> Nat]]
    BY <1>1, <1>2, DataAssumption DEF Request
  <2>3. ASSUME NEW s \in Shards, NEW st \in StatusesOf(k)
        PROVE  LeftOf(KindOf(k), s, st)' = ToFind(k, s, st)' /\ ToFind(k, s, st)' \in Nat
    <3>1. ToFind(k, s, st)' = StagedDeltas[req.head][index][s][st]
      BY <1>2 DEF ToFind
    <3>2. jobs'[Scan("staged", s)].left = StagedDeltas[req.head][index][s]
      BY <1>6, NewScanRight
    <3>3. LeftOf("staged", s, st)' = StagedDeltas[req.head][index][s][st]
      BY <1>5, <3>2 DEF LeftOf
    <3>4. st \in StagedStatus
      BY <2>1
    <3>5. QED
      BY <2>1, <2>2, <3>1, <3>3, <3>4
  <2>4. QED
    BY <2>1, <2>3, AllLeft
<1>12. SkipConserved'
  <2>1. SkipLeft' = [s \in Shards |-> Entries[index][s]["skipWorktree"]]
    <3>1. \A s \in Shards : jobs'[Scan("staged", s)].at = "start"
      BY <1>6, NewScanRight
    <3>2. QED
      BY <1>2, <1>5, <3>1 DEF SkipLeft
  <2>2. EntryCount("skipWorktree")' = SumFunctionOnSet(SkipLeft', Shards)
    BY <1>2, <2>1 DEF EntryCount, SumFunction
  <2>3. EntryCount("skipWorktree")' = EntryCount("skipWorktree") /\ EntryCount("skipWorktree") \in Nat
    BY <1>1, <1>2, EntriesCounted DEF EntryCount
  <2>4. n'["skipWorktree"] = 0
    BY <1>10 DEF StagedCounters
  <2>5. QED
    BY <2>2, <2>3, <2>4 DEF SkipConserved
<1>13. StagedKnown'
  BY <1>11, <1>12 DEF StagedKnown
<1>14. StagedDone'
  BY <1>2, <1>8 DEF StagedDone
<1>15. DirtyDone'
  <2>1. \A k \in DirtySums : n[k] = 0 /\ k \in Counters /\ k \notin StagedCounters
    BY <1>1 DEF DirtyDone, DirtySums, Counters, Limited, StagedCounters
  <2>2. \A k \in DirtySums : n'[k] = 0
    BY <1>2, <2>1 DEF Zero
  <2>3. QED
    BY <1>2, <2>2 DEF DirtyDone
<1>16. QED
  BY <1>7, <1>9, <1>13, <1>14, <1>15

LEMMA StagedRight ==
  ASSUME ExactIInv, Staged, "commit" \notin Faults
  PROVE  JobsRight' /\ Phases' /\ StagedKnown' /\ StagedDone' /\ DirtyDone'
<1>1. /\ main = "staged" /\ jobs = << >> /\ Phases /\ DirtyDone /\ index \in Indexes
      /\ req \in Request /\ n \in [Counters -> Nat]
  BY DEF Staged, ExactIInv, Phases, TypeIInv, IndexRead, TypeOK
<1>2. UNCHANGED <<index, error, late>>
  BY DEF Staged
<1>3. CASE StagedScan
  BY <1>3, StagedScanRight
<1>4. CASE StagedNone \/ StagedReuse \/ StagedEmptyRepo
  <2>1. main' = "dirty" /\ UNCHANGED <<lim, jobs>> /\ req'.head = req.head /\ req'.round = 0
    BY <1>1, <1>4 DEF StagedNone, StagedReuse, StagedEmptyRepo, Request, Phases
  <2>2. StagedOff' = StagedOff
    BY <2>1 DEF StagedOff
  <2>3. \A c \in Counters \ StagedCounters : n'[c] = n[c]
    BY <1>4 DEF StagedNone, StagedReuse, StagedEmptyRepo, Zero, StagedCounters
  <2>4. DirtyDone'
    <3>1. \A k \in DirtySums : n[k] = 0 /\ k \in Counters \ StagedCounters
      BY <1>1 DEF DirtyDone, DirtySums, Counters, Limited, StagedCounters
    <3>2. QED
      BY <2>1, <2>3, <3>1 DEF DirtyDone
  <2>5. JobsRight'
    BY <1>1, <2>1 DEF JobsRight
  <2>6. Phases'
    <3>1. index = NoIndex => head' = NoHead
      BY <1>1, ScanAssumption
    <3>2. DOMAIN jobs' = {}
      BY <1>1, <2>1
    <3>3. QED
      BY <1>1, <1>2, <2>1, <2>2, <3>1, <3>2 DEF Phases
  <2>7. CASE StagedNone
    <3>1. head' = NoHead /\ StagedOff /\ \A k \in StagedSums : n'[k] = 0
      BY <2>7 DEF StagedNone, Zero, StagedSums, StagedCounters, Counters, Limited
    <3>2. QED
      BY <2>1, <2>2, <2>4, <2>5, <2>6, <3>1 DEF StagedKnown, StagedDone
  <2>8. CASE StagedReuse
    <3>1. ~StagedOff /\ req.head # NoHead /\ req.head = head /\ head' = head /\ n' = n
      BY <2>8 DEF StagedReuse, Unchanged
    <3>2. StagedKnown'
      BY <1>1, <1>2, <2>1, <3>1, StagedKnownKept
    <3>3. QED
      BY <2>1, <2>2, <2>4, <2>5, <2>6, <3>1, <3>2 DEF StagedDone
  <2>9. CASE StagedEmptyRepo
    <3>1. ~StagedOff /\ req.head = NoHead /\ head' = NoHead
      BY <2>9 DEF StagedEmptyRepo
    <3>2. /\ n'["staged"] = StagedInEmpty /\ n'["conflicted"] = 0
          /\ n'["skipWorktree"] = EntryCount("skipWorktree")
      BY <2>9 DEF StagedEmptyRepo, Zero, StagedCounters, Counters, Limited
    <3>3. StagedInEmpty' = StagedInEmpty /\ EntryCount("skipWorktree")' = EntryCount("skipWorktree")
      BY <1>2 DEF StagedInEmpty, IndexSize, EntryCount
    <3>4. StagedDone'
      BY <2>1, <2>2, <3>1, <3>2, <3>3 DEF StagedDone
    <3>5. QED
      BY <2>4, <2>5, <2>6, <3>1, <3>4 DEF StagedKnown
  <2>10. QED
    BY <1>4, <2>7, <2>8, <2>9
<1>5. QED
  BY <1>3, <1>4 DEF Staged

\* The dirty scan of a shard without candidates is left out: there is nothing to
\* find in it.
LEMMA DirtyScanRight ==
  ASSUME ExactIInv, Dirty, DirtyOn, NEW S \in CandidateShards(req.tree), NEW scans,
         scans = [j \in JobsOf("dirty", S) |-> NewJob(DirtyLeft(j.shard))],
         jobs' = Joined(scans), main' = "wait", lim' = lim
  PROVE  JobsRight' /\ Phases' /\ StagedKnown' /\ StagedDone' /\ DirtyDone'
<1>1. /\ main = "dirty" /\ JobsRight /\ Phases /\ StagedKnown /\ StagedDone /\ DirtyDone
      /\ JobsTyped /\ index \in Indexes /\ req \in Request
      /\ n \in [Counters -> Nat] /\ lim \in [Limited -> Nat]
  BY DEF Dirty, ExactIInv, TypeIInv, IndexRead, TypeOK
<1>2. UNCHANGED <<req, index, head, n, error, late>>
  BY DEF Dirty
<1>3. /\ S \in SUBSET Shards /\ DOMAIN scans = JobsOf("dirty", S) /\ req.round = 0
      /\ \A s \in Shards \ S : \A st \in DirtyStatus : req.tree[s][st] = 0
  BY <1>1 DEF CandidateShards, Phases
<1>4. \A j \in DOMAIN jobs : j.kind = "staged"
  BY <1>1 DEF Phases, JobsTyped, Job
<1>5. /\ \A j \in DOMAIN jobs' : j \in DOMAIN jobs \/ \E s \in S : j = Scan("dirty", s)
      /\ \A s \in S : /\ Scan("dirty", s) \in DOMAIN scans /\ Scan("dirty", s) \in DOMAIN jobs'
                      /\ jobs'[Scan("dirty", s)] = scans[Scan("dirty", s)]
      /\ \A j \in DOMAIN jobs : j.kind # "dirty" => j \in DOMAIN jobs' /\ jobs'[j] = jobs[j]
  BY <1>3, ScansStarted
<1>6. \A s \in S : jobs'[Scan("dirty", s)] = NewJob(DirtyLeft(s))
  BY <1>3, <1>5 DEF Scan
<1>7. \A j \in DOMAIN jobs : j \in DOMAIN jobs' /\ jobs'[j] = jobs[j]
  BY <1>4, <1>5
<1>8. /\ StagedOff' = StagedOff /\ DirtyOn' = DirtyOn /\ StagedInEmpty' = StagedInEmpty
      /\ EntryCount("skipWorktree")' = EntryCount("skipWorktree")
  BY <1>2 DEF StagedOff, DirtyOn, StagedInEmpty, IndexSize, EntryCount
<1>9. JobsRight'
  <2>1. ASSUME NEW j \in DOMAIN jobs
        PROVE  ScanRight(j)'
    <3>1. ScanRight(j) /\ jobs'[j] = jobs[j]
      BY <1>1, <1>7 DEF JobsRight
    <3>2. \A st : Beyond(j.kind, st)' <=> Beyond(j.kind, st)
      BY <1>2 DEF Beyond
    <3>3. QED
      BY <1>2, <3>1, <3>2 DEF ScanRight
  <2>2. \A s \in S : ScanRight(Scan("dirty", s))'
    BY <1>6, NewScanRight
  <2>3. QED
    BY <1>5, <2>1, <2>2 DEF JobsRight
<1>10. Phases'
  <2>1. ASSUME NEW j \in DOMAIN jobs'
        PROVE  /\ j.kind = "dirty" => main' = "wait" /\ DirtyOn'
               /\ j.kind = "staged" => ~StagedOff' /\ head' = req'.head /\ head' # NoHead
    <3>1. CASE j \in DOMAIN jobs
      BY <1>1, <1>2, <1>4, <1>8, <3>1 DEF Phases
    <3>2. CASE \E s \in S : j = Scan("dirty", s)
      BY <1>8, <3>2 DEF Scan
    <3>3. QED
      BY <1>5, <3>1, <3>2
  <2>2. QED
    BY <1>1, <1>2, <1>8, <2>1 DEF Phases
<1>11. ASSUME NEW s \in Shards
       PROVE  (Scan("staged", s) \in DOMAIN jobs' <=> Scan("staged", s) \in DOMAIN jobs)
  BY <1>5, <1>7 DEF Scan
<1>12. StagedKnown'
  <2>1. SUFFICES ASSUME head # NoHead
                 PROVE  SkipConserved' /\ \A k \in StagedSums : Conserved(k)'
    BY <1>2 DEF StagedKnown
  <2>2. SkipConserved /\ \A k \in StagedSums : Conserved(k)
    BY <1>1, <2>1 DEF StagedKnown
  <2>3. SkipLeft' = SkipLeft
    BY <1>2, <1>7, <1>11 DEF SkipLeft
  <2>4. ASSUME NEW k \in StagedSums
        PROVE  Conserved(k)'
    <3>1. k \in Sums /\ KindOf(k) = "staged"
      BY DEF Sums, KindOf
    <3>2. Cap(k)' = Cap(k) /\ Cap(k) \in Nat /\ GateOf(k) \in Counters
      BY <3>1, SumFacts, ScanAssumption DEF Cap
    <3>3. \A s \in Shards, st \in StatusesOf(k) :
             /\ LeftOf(KindOf(k), s, st)' = LeftOf(KindOf(k), s, st)
             /\ ToFind(k, s, st)' = ToFind(k, s, st)
      BY <1>2, <1>7, <1>11, <3>1 DEF LeftOf, ToFind
    <3>4. n'[k] = n[k] /\ n'[GateOf(k)] >= n[GateOf(k)]
      BY <1>1, <1>2, <3>2
    <3>5. QED
      BY <1>1, <1>2, <2>2, <3>1, <3>2, <3>3, <3>4, Unmoved
  <2>5. QED
    BY <1>2, <1>8, <2>2, <2>3, <2>4 DEF SkipConserved
<1>13. StagedDone'
  BY <1>1, <1>2, <1>8 DEF StagedDone
<1>14. ASSUME NEW k \in DirtySums
       PROVE  Conserved(k)'
  <2>1. /\ k \in Sums /\ k \notin StagedSums /\ KindOf(k) = "dirty" /\ StatusesOf(k) \subseteq DirtyStatus
        /\ "untracked" \in StatusesOf(k) <=> k = "untracked"
    BY SumFacts DEF Sums, KindOf, StagedSums, DirtySums, ScanStatus, StatusesOf
  <2>2. n'[k] = 0 /\ n[k] = 0
    BY <1>1, <1>2 DEF DirtyDone
  <2>3. \A s \in Shards : req.tree[s] \in [DirtyStatus -> Nat]
    BY <1>1, DataAssumption DEF Request
  <2>4. ASSUME NEW s \in Shards, NEW st \in StatusesOf(k)
        PROVE  /\ ToFind(k, s, st)' = req.tree[s][st] /\ ToFind(k, s, st)' \in Nat
               /\ LeftOf(KindOf(k), s, st)' = IF st = "untracked" /\ lim["untracked"] = 0 THEN 0
                                              ELSE req.tree[s][st]
    <3>1. st \in DirtyStatus /\ ToFind(k, s, st)' = req.tree[s][st]
      BY <1>2, <2>1 DEF ToFind
    <3>2. CASE s \in S
      <4>1. jobs'[Scan("dirty", s)].left = DirtyLeft(s)
        BY <1>6, <3>2, NewScanRight
      <4>2. LeftOf("dirty", s, st)' = DirtyLeft(s)[st]
        BY <1>5, <3>2, <4>1 DEF LeftOf
      <4>3. QED
        BY <2>1, <2>3, <3>1, <4>2 DEF DirtyLeft
    <3>3. CASE s \notin S
      <4>1. Scan("dirty", s) \notin DOMAIN jobs'
        BY <1>4, <1>5, <3>3 DEF Scan
      <4>2. LeftOf("dirty", s, st)' = 0 /\ req.tree[s][st] = 0
        BY <1>3, <3>1, <3>3, <4>1 DEF LeftOf
      <4>3. QED
        BY <2>1, <3>1, <4>2
    <3>4. QED
      BY <3>2, <3>3
  <2>5. CASE k = "untracked" /\ lim["untracked"] = 0
    <3>1. \A p \in Shards \X StatusesOf(k) : Left(k)'[p] = 0
      BY <2>4, <2>5 DEF Left, StatusesOf
    <3>2. SumLeft(k)' = 0
      <4> DEFINE f == Left(k)'
      <4>1. SumLeft(k)' = SumFunctionOnSet(f, Shards \X StatusesOf(k))
        BY DEF SumLeft
      <4>2. \A p \in Shards \X StatusesOf(k) : f[p] = 0
        BY <3>1
      <4> HIDE DEF f
      <4>3. QED
        BY <2>1, <4>1, <4>2, PairsFinite, SumZero
    <3>3. SumWhole(k)' = SumWhole(k)
      BY <1>2 DEF SumWhole, Whole, ToFind
    <3>4. SumWhole(k) \in Nat
      BY <1>1, <2>1, WholeNat
    <3>5. GateOf(k) = "untracked" /\ Cap(k)' = 0
      BY <2>1, <2>5 DEF Cap, GateOf
    <3>6. QED
      BY <2>2, <2>5, <3>2, <3>3, <3>4, <3>5 DEF Conserved
  <2>6. CASE ~(k = "untracked" /\ lim["untracked"] = 0)
    <3>1. \A s \in Shards, st \in StatusesOf(k) :
             LeftOf(KindOf(k), s, st)' = ToFind(k, s, st)' /\ ToFind(k, s, st)' \in Nat
      BY <2>1, <2>4, <2>6
    <3>2. QED
      BY <2>1, <2>2, <3>1, AllLeft
  <2>7. QED
    BY <2>5, <2>6
<1>15. DirtyDone'
  BY <1>8, <1>14 DEF DirtyDone
<1>16. QED
  BY <1>9, <1>10, <1>12, <1>13, <1>15

LEMMA DirtyRight ==
  ASSUME ExactIInv, Dirty, "candidates" \notin Faults
  PROVE  JobsRight' /\ Phases' /\ StagedKnown' /\ StagedDone' /\ DirtyDone'
<1>1. CASE DirtyOn
  <2>1. PICK S \in CandidateShards(req.tree) :
          /\ jobs' = Joined([j \in JobsOf("dirty", S) |-> NewJob(DirtyLeft(j.shard))])
          /\ main' = "wait" /\ lim' = lim
    BY <1>1 DEF Dirty, RunAsync
  <2>2. QED
    BY <1>1, <2>1, DirtyScanRight
<1>2. CASE ~DirtyOn
  <2>1. main = "dirty" /\ main' = "wait" /\ UNCHANGED <<req, index, head, n, error, late, lim, jobs>>
    BY <1>2 DEF Dirty
  <2>2. /\ JobsRight /\ Phases /\ StagedDone /\ DirtyDone /\ n \in [Counters -> Nat]
    BY DEF ExactIInv, TypeIInv, TypeOK
  <2>3. /\ StagedOff' = StagedOff /\ DirtyOn' = DirtyOn /\ StagedInEmpty' = StagedInEmpty
        /\ EntryCount("skipWorktree")' = EntryCount("skipWorktree")
    BY <2>1 DEF StagedOff, DirtyOn, StagedInEmpty, IndexSize, EntryCount
  <2>4. JobsRight'
    BY <2>1, <2>2 DEF JobsRight, ScanRight, Beyond
  <2>5. Phases'
    <3>1. \A j \in DOMAIN jobs : j.kind # "dirty"
      BY <2>1, <2>2 DEF Phases
    <3>2. QED
      BY <2>1, <2>2, <2>3, <3>1 DEF Phases
  <2>6. StagedKnown'
    BY <2>1, <2>2, StagedKnownKept
  <2>7. StagedDone'
    BY <2>1, <2>2, <2>3 DEF StagedDone
  <2>8. DirtyDone'
    BY <1>2, <2>1, <2>2, <2>3 DEF DirtyDone
  <2>9. QED
    BY <2>4, <2>5, <2>6, <2>7, <2>8
<1>3. QED
  BY <1>1, <1>2

\* The steps of a scan, none of which fails.
LEMMA ScanStepRight ==
  ASSUME ExactIInv, NEW j \in DOMAIN jobs, JobStep(j)
  PROVE  JobsRight' /\ Phases' /\ StagedKnown' /\ StagedDone' /\ DirtyDone'
<1>1. UNCHANGED <<main, lim, req, index, head, cache>>
  BY DEF JobStep
<1>2. ~FoundAfterError(j)
  BY DEF FoundAfterError, ExactIInv, Phases
<1>3. QED
  BY <1>1, <1>2, StartRight, FoundRight, DecideRight, ExhaustedRight, DecRight DEF JobStep

\* Nothing that the counts depend on changes.
LEMMA RestRight ==
  ASSUME ExactIInv, CheckDirMtime \/ UNCHANGED vars
  PROVE  JobsRight' /\ Phases' /\ StagedKnown' /\ StagedDone' /\ DirtyDone'
<1>1. UNCHANGED <<main, lim, req, index, head, n, error, jobs, late>>
  BY DEF CheckDirMtime, vars
<1>2. JobsRight /\ Phases /\ StagedDone /\ DirtyDone /\ n \in [Counters -> Nat]
  BY DEF ExactIInv, TypeIInv, TypeOK
<1>3. /\ StagedOff' = StagedOff /\ DirtyOn' = DirtyOn /\ StagedInEmpty' = StagedInEmpty
      /\ EntryCount("skipWorktree")' = EntryCount("skipWorktree")
  BY <1>1 DEF StagedOff, DirtyOn, StagedInEmpty, IndexSize, EntryCount
<1>4. JobsRight'
  BY <1>1, <1>2 DEF JobsRight, ScanRight, Beyond
<1>5. Phases'
  BY <1>1, <1>2, <1>3 DEF Phases
<1>6. StagedKnown'
  BY <1>1, <1>2, StagedKnownKept
<1>7. StagedDone'
  BY <1>1, <1>2, <1>3 DEF StagedDone
<1>8. DirtyDone'
  <2>1. \A k : Conserved(k)' <=> Conserved(k)
    BY <1>1 DEF Conserved, SumLeft, SumWhole, Left, LeftOf, Whole, ToFind, Cap
  <2>2. QED
    BY <1>1, <1>2, <1>3, <2>1 DEF DirtyDone
<1>9. QED
  BY <1>4, <1>5, <1>6, <1>7, <1>8

LEMMA ExactInit == Init => ExactIInv
<1> SUFFICES ASSUME Init PROVE ExactIInv
  OBVIOUS
<1>1. IInv /\ TypeIInv
  BY InitIInv, TypeInit
<1>2. jobs = << >> /\ main = "idle" /\ head = NoHead /\ lim = FullLimits /\ late = 0 /\ req.round = 0
  BY DEF Init
<1>3. error = FALSE
  BY Zenon DEF Init
<1>4. Phases
  BY <1>2, <1>3, Full DEF Phases
<1>5. QED
  BY <1>1, <1>2, <1>4 DEF ExactIInv, JobsRight, StagedKnown, StagedDone, DirtyDone

LEMMA ExactKept ==
  ASSUME Faults \subseteq {"index"}, ExactIInv, [Next]_vars
  PROVE  ExactIInv'
<1>1. IInv' /\ TypeIInv'
  BY TypeKept, BeginKept, QuietKept, StagedKept, DirtyKept, WaitKept, JobKept, OtherKept
  DEF ExactIInv, Next, MainStep
<1>2. "commit" \notin Faults /\ "candidates" \notin Faults /\ "scan" \notin Faults
  OBVIOUS
<1>3. ~ScanFails /\ ~Catch
  <2>1. ~ScanFails
    BY <1>2 DEF ScanFails, Fail
  <2>2. late = 0
    BY DEF ExactIInv, Phases
  <2>3. ~Catch
    BY <2>2 DEF Catch
  <2>4. QED
    BY <2>1, <2>3
<1>4. JobsRight' /\ Phases' /\ StagedKnown' /\ StagedDone' /\ DirtyDone'
  <2>1. CASE Begin
    BY <1>1, <2>1, BeginRight
  <2>2. CASE MainStep
    BY <1>1, <1>2, <2>2, ReadIndexRight, ResetRight, StagedRight, DirtyRight, WaitRight, EndRight
    DEF MainStep
  <2>3. CASE \E j \in DOMAIN jobs : JobStep(j)
    BY <2>3, ScanStepRight
  <2>4. CASE CheckDirMtime \/ UNCHANGED vars
    BY <2>4, RestRight
  <2>5. CASE Drop
    BY <1>1, <2>5, EndRight
  <2>6. QED
    BY <1>3, <2>1, <2>2, <2>3, <2>4, <2>5 DEF Next
<1>5. QED
  BY <1>1, <1>4 DEF ExactIInv

\* If nothing fails but reading the index file, what a counter holds and what
\* the scans have left to find for it are what there is to find, from the step
\* that starts the scans to the answer; less is counted only beyond a limit.
THEOREM ExactInvariant ==
  ASSUME Faults \subseteq {"index"}
  PROVE  Spec => []ExactIInv
<1>1. ExactIInv /\ [Next]_vars => ExactIInv'
  BY ExactKept
<1>2. QED
  BY <1>1, ExactInit, PTL DEF Spec

-----------------------------------------------------------------------------
\* From the invariant to the answer.

LEMMA LeastSame ==
  ASSUME NEW a \in Nat, NEW b \in Nat, NEW m \in Nat, a <= b, a = b \/ a >= m
  PROVE  Least(a, m) = Least(b, m)
BY DEF Least

\* When no scan is left, a counter is right up to its limit.
LEMMA CountRight ==
  ASSUME NEW k \in Sums, Conserved(k), jobs = << >>, n \in [Counters -> Nat],
         SumWhole(k) \in Nat, Cap(k) = lim[GateOf(k)]
  PROVE  /\ n[k] \in Nat /\ n[k] <= SumWhole(k)
         /\ n[k] = SumWhole(k) \/ n[GateOf(k)] >= lim[GateOf(k)]
<1>1. SumLeft(k) = 0
  BY NothingLeft
<1>2. n[k] \in Nat
  BY SumFacts
<1>3. QED
  BY <1>1, <1>2 DEF Conserved

LEMMA StagedTotalNat ==
  ASSUME TypeOK, index \in Indexes, req.head # NoHead, NEW k \in StagedSums
  PROVE  StagedTotal(StatusesOf(k)) \in Nat
<1> DEFINE P == Shards \X StatusesOf(k)
           f == [p \in P |-> StagedDeltas[req.head][index][p[1]][p[2]]]
<1>1. k \in Sums /\ StatusesOf(k) \subseteq StagedStatus
  BY SumFacts DEF Sums, KindOf, ScanStatus
<1>2. StagedDeltas[req.head][index] \in [Shards -> [StagedStatus -> Nat]]
  BY DataAssumption DEF TypeOK, Request
<1>3. \A p \in P : f[p] \in Nat
  BY <1>1, <1>2
<1>4. StagedTotal(StatusesOf(k)) = SumFunctionOnSet(f, P)
  BY DEF StagedTotal, SumFunction
<1>5. IsFiniteSet(P)
  BY <1>1, PairsFinite
<1> HIDE DEF f, P
<1>6. QED
  BY <1>3, <1>4, <1>5, SumNat

LEMMA StagedTotalIs ==
  ASSUME NEW k \in StagedSums, head = req.head
  PROVE  SumWhole(k) = StagedTotal(StatusesOf(k))
BY DEF SumWhole, Whole, ToFind, StagedTotal, SumFunction

LEMMA DirtyTotalIs ==
  ASSUME NEW k \in DirtySums
  PROVE  SumWhole(k) = DirtyTotal(StatusesOf(k))
<1>1. k \notin StagedSums
  BY DEF DirtySums, StagedSums
<1>2. QED
  BY <1>1 DEF SumWhole, Whole, ToFind, DirtyTotal, SumFunction

LEMMA ExactStaged == ExactIInv => StagedExact
<1> SUFFICES ASSUME ExactIInv, main = "report"
             PROVE  /\ Reported("staged") = Least(TrueStaged, lim["staged"])
                    /\ Reported("conflicted") = Least(TrueConflicted, lim["conflicted"])
                    /\ req.head # NoHead /\ TrueStaged < lim["staged"] =>
                         /\ n["stagedNew"] = StagedTotal({"added"})
                         /\ n["stagedDeleted"] = StagedTotal({"deleted"})
                    /\ ~StagedOff => n["skipWorktree"] = EntryCount("skipWorktree")
  BY DEF StagedExact
<1>1. /\ TypeOK /\ Phases /\ StagedKnown /\ StagedDone /\ jobs = << >> /\ index \in Indexes
      /\ n \in [Counters -> Nat] /\ lim \in [Limited -> Nat] /\ req \in Request
  BY DEF ExactIInv, TypeIInv, IndexRead, TypeOK, Phases
<1>2. lim["staged"] \in Nat /\ lim["conflicted"] \in Nat
  BY <1>1 DEF Limited
<1>3. /\ StatusesOf("staged") = {"added", "deleted", "modified"}
      /\ StatusesOf("conflicted") = {"conflicted"}
      /\ StatusesOf("stagedNew") = {"added"} /\ StatusesOf("stagedDeleted") = {"deleted"}
  BY DEF StatusesOf
<1>4. \A k \in StagedSums : req.head # NoHead => StagedTotal(StatusesOf(k)) \in Nat
  BY <1>1, StagedTotalNat
<1>5. {"staged", "conflicted", "stagedNew", "stagedDeleted"} = StagedSums
  BY DEF StagedSums
<1>6. TrueStaged \in Nat /\ TrueConflicted \in Nat
  BY <1>1, <1>3, <1>4, <1>5, EntriesCounted DEF TrueStaged, TrueConflicted
<1>7. CASE StagedOff
  <2>1. lim["staged"] = 0 /\ lim["conflicted"] = 0
    BY <1>7 DEF StagedOff
  <2>2. n["staged"] = 0 /\ n["conflicted"] = 0
    BY <1>1, <1>5, <1>7 DEF StagedDone
  <2>3. QED
    BY <1>6, <1>7, <2>1, <2>2 DEF Reported, Least
<1>8. CASE ~StagedOff /\ req.head = NoHead
  <2>1. /\ n["staged"] = StagedInEmpty /\ n["conflicted"] = 0
        /\ n["skipWorktree"] = EntryCount("skipWorktree")
    BY <1>1, <1>8 DEF StagedDone
  <2>2. QED
    BY <1>8, <2>1 DEF Reported, TrueStaged, TrueConflicted
<1>9. CASE ~StagedOff /\ req.head # NoHead
  <2>1. head = req.head /\ SkipConserved /\ \A k \in StagedSums : Conserved(k)
    BY <1>1, <1>9 DEF StagedDone, StagedKnown
  <2>2. lim["staged"] = Limits["staged"] /\ lim["conflicted"] = Limits["conflicted"]
    BY <1>1, <1>9 DEF Phases
  <2>3. ASSUME NEW k \in StagedSums
        PROVE  /\ n[k] \in Nat /\ n[k] <= StagedTotal(StatusesOf(k))
               /\ n[k] = StagedTotal(StatusesOf(k)) \/ n[GateOf(k)] >= lim[GateOf(k)]
    <3>1. k \in Sums /\ GateOf(k) \in {"staged", "conflicted"}
      BY DEF Sums, StagedSums, GateOf
    <3>2. SumWhole(k) = StagedTotal(StatusesOf(k)) /\ SumWhole(k) \in Nat
      BY <1>4, <1>9, <2>1, StagedTotalIs
    <3>3. Cap(k) = lim[GateOf(k)]
      BY <2>2, <3>1 DEF Cap
    <3>4. QED
      BY <1>1, <2>1, <3>1, <3>2, <3>3, CountRight
  <2>4. /\ GateOf("staged") = "staged" /\ GateOf("conflicted") = "conflicted"
        /\ GateOf("stagedNew") = "staged" /\ GateOf("stagedDeleted") = "staged"
    BY DEF GateOf
  <2>5. /\ TrueStaged = StagedTotal(StatusesOf("staged"))
        /\ TrueConflicted = StagedTotal(StatusesOf("conflicted"))
    BY <1>3, <1>9 DEF TrueStaged, TrueConflicted
  <2>6. Reported("staged") = Least(TrueStaged, lim["staged"])
    BY <1>2, <1>5, <1>6, <2>3, <2>4, <2>5, LeastSame DEF Reported
  <2>7. Reported("conflicted") = Least(TrueConflicted, lim["conflicted"])
    BY <1>2, <1>5, <1>6, <2>3, <2>4, <2>5, LeastSame DEF Reported
  <2>8. TrueStaged < lim["staged"] => ~(n["staged"] >= lim["staged"])
    BY <1>2, <1>5, <1>6, <2>3, <2>5
  <2>9. TrueStaged < lim["staged"] => n["stagedNew"] = StagedTotal({"added"})
                                      /\ n["stagedDeleted"] = StagedTotal({"deleted"})
    BY <1>3, <1>5, <2>3, <2>4, <2>8
  <2>10. n["skipWorktree"] = EntryCount("skipWorktree")
    <3>1. \A s \in Shards : SkipLeft[s] = 0
      BY <1>1 DEF SkipLeft
    <3>2. SumFunctionOnSet(SkipLeft, Shards) = 0
      BY <3>1, ScanAssumption, SumZero
    <3>3. n["skipWorktree"] \in Nat
      BY <1>1 DEF Counters
    <3>4. QED
      BY <2>1, <3>2, <3>3 DEF SkipConserved
  <2>11. QED
    BY <2>6, <2>7, <2>9, <2>10
<1>10. QED
  BY <1>7, <1>8, <1>9

LEMMA ExactDirty == ExactIInv => DirtyExact
<1> SUFFICES ASSUME ExactIInv, main = "report"
             PROVE  /\ Reported("unstaged") =
                         IF DirtyOn THEN Least(DirtyTotal({"deleted", "modified"}), lim["unstaged"]) ELSE 0
                    /\ Reported("untracked") =
                         IF DirtyOn THEN Least(DirtyTotal({"untracked"}), lim["untracked"]) ELSE 0
                    /\ req.head # NoHead /\ DirtyOn
                       /\ DirtyTotal({"deleted", "modified"}) < lim["unstaged"] =>
                         n["unstagedDeleted"] = DirtyTotal({"deleted"})
  BY DEF DirtyExact
<1>1. /\ TypeOK /\ Phases /\ DirtyDone /\ jobs = << >> /\ index \in Indexes
      /\ n \in [Counters -> Nat] /\ lim \in [Limited -> Nat] /\ req \in Request
  BY DEF ExactIInv, TypeIInv, IndexRead, TypeOK, Phases
<1>2. lim["unstaged"] \in Nat /\ lim["untracked"] \in Nat
  BY <1>1 DEF Limited
<1>3. {"unstaged", "untracked", "unstagedDeleted"} = DirtySums
  BY DEF DirtySums
<1>4. CASE ~DirtyOn
  <2>1. n["unstaged"] = 0 /\ n["untracked"] = 0
    BY <1>1, <1>3, <1>4 DEF DirtyDone
  <2>2. QED
    BY <1>2, <1>4, <2>1 DEF Reported, Least
<1>5. CASE DirtyOn
  <2>1. ASSUME NEW k \in DirtySums
        PROVE  /\ DirtyTotal(StatusesOf(k)) \in Nat
               /\ n[k] \in Nat /\ n[k] <= DirtyTotal(StatusesOf(k))
               /\ n[k] = DirtyTotal(StatusesOf(k)) \/ n[GateOf(k)] >= lim[GateOf(k)]
    <3>1. k \in Sums /\ k \notin StagedSums
      BY DEF Sums, StagedSums, DirtySums
    <3>2. SumWhole(k) \in Nat /\ SumWhole(k) = DirtyTotal(StatusesOf(k))
      BY <1>1, <3>1, WholeNat, DirtyTotalIs
    <3>3. Cap(k) = lim[GateOf(k)] /\ Conserved(k)
      BY <1>1, <1>5, <3>1 DEF Cap, DirtyDone
    <3>4. QED
      BY <1>1, <3>1, <3>2, <3>3, CountRight
  <2>2. /\ GateOf("unstaged") = "unstaged" /\ GateOf("untracked") = "untracked"
        /\ GateOf("unstagedDeleted") = "unstaged"
        /\ StatusesOf("unstaged") = {"deleted", "modified"} /\ StatusesOf("untracked") = {"untracked"}
        /\ StatusesOf("unstagedDeleted") = {"deleted"}
    BY DEF GateOf, StatusesOf
  <2>3. Reported("unstaged") = Least(DirtyTotal({"deleted", "modified"}), lim["unstaged"])
    BY <1>2, <1>3, <2>1, <2>2, LeastSame DEF Reported
  <2>4. Reported("untracked") = Least(DirtyTotal({"untracked"}), lim["untracked"])
    BY <1>2, <1>3, <2>1, <2>2, LeastSame DEF Reported
  <2>5. DirtyTotal({"deleted", "modified"}) < lim["unstaged"] => ~(n["unstaged"] >= lim["unstaged"])
    BY <1>2, <1>3, <2>1, <2>2
  <2>6. DirtyTotal({"deleted", "modified"}) < lim["unstaged"] =>
          n["unstagedDeleted"] = DirtyTotal({"deleted"})
    BY <1>3, <2>1, <2>2, <2>5
  <2>7. QED
    BY <1>5, <2>3, <2>4, <2>6
<1>6. QED
  BY <1>4, <1>5

\* The staged and conflicted counts of every answer are those of HEAD and the
\* index, cut at the limits, whichever shards stop or skip and whether or not the
\* counters are reused, as long as no commit, candidate or scan fails: the runs
\* scan_reuse and scan_error show what the answers are if one does.
THEOREM StagedAlwaysExact ==
  ASSUME Faults \subseteq {"index"}
  PROVE  Spec => []StagedExact
BY ExactInvariant, ExactStaged, PTL

\* The same for the unstaged and untracked counts and the working tree.
THEOREM DirtyAlwaysExact ==
  ASSUME Faults \subseteq {"index"}
  PROVE  Spec => []DirtyExact
BY ExactInvariant, ExactDirty, PTL
=============================================================================
