----------------------------- MODULE TagDbProofs -----------------------------
(***************************************************************************)
(* Proofs about TagDb for any tags, commits and headers and any number of  *)
(* threads: the task that sorts id2name_ is never raced.                   *)
(***************************************************************************)
EXTENDS TagDb, SequenceTheorems, FiniteSetTheorems, WellFoundedInduction, TLAPS

\* The pool has no task of this TagDb other than those pc and sort say are
\* queued, and the sort of an earlier request goes before TagForCommit.
Tasked ==
    /\ pc \in {"none", "queued", "loose", "stat", "wipe", "reset", "load", "lookup", "final",
               "done"}
    /\ sort \in {"none", "queued", "running", "sorted"}
    /\ queue \in {<< >>, <<"tag">>, <<"sort">>, <<"sort", "tag">>}
    /\ pc = "queued" <=> queue \in {<<"tag">>, <<"sort", "tag">>}
    /\ sort = "queued" <=> queue \in {<<"sort">>, <<"sort", "tag">>}

\* TagForCommit runs inside a request only, and with nothing left to sort from
\* the moment UpdatePack has thrown away what it had.
Scoped ==
    /\ main \in {"idle", "request", "dtor", "freed"}
    /\ pc # "none" => main = "request"
    /\ pc = "load" => dirty = FALSE
    /\ main = "freed" => dirty = FALSE

\* DirtyMeansSorting, and what the task knows when it clears the flag.
Sorting ==
    /\ dirty \in BOOLEAN
    /\ dirty = TRUE <=> sort # "none"
    /\ dirty = FALSE \/ sort = "sorted" => sorted = TRUE

IInv == Tasked /\ Scoped /\ Sorting

\* What a step may do to a sort that is under way.
Keeps == sort # "none" => name2id' = name2id /\ main' # "freed"

\* The queues of Tasked are four.
LEMMA Queues ==
  /\ << >> # <<"tag">> /\ << >> # <<"sort">> /\ << >> # <<"sort", "tag">>
  /\ <<"tag">> # <<"sort">> /\ <<"tag">> # <<"sort", "tag">> /\ <<"sort">> # <<"sort", "tag">>
<1>1. /\ Len(<< >>) = 0 /\ Len(<<"tag">>) = 1 /\ Len(<<"sort">>) = 1
      /\ Len(<<"sort", "tag">>) = 2
  OBVIOUS
<1>2. <<"tag">>[1] # <<"sort">>[1]
  OBVIOUS
<1>3. QED
  BY <1>1, <1>2

\* What Enqueue makes of a queue that holds a sort.
LEMMA TagAfterSort == Append(<<"sort">>, "tag") = <<"sort", "tag">>
<1> DEFINE T == {"sort", "tag"}
           s == <<"sort">>
           t == <<"sort", "tag">>
<1>1. s \in Seq(T)
  OBVIOUS
<1>2. t \in Seq(T)
  OBVIOUS
<1>3. Len(s) = 1 /\ Len(t) = 2 /\ s[1] = "sort" /\ t[1] = "sort" /\ t[2] = "tag"
  OBVIOUS
<1>4. /\ Append(s, "tag") \in Seq(T) /\ Len(Append(s, "tag")) = 2
      /\ Append(s, "tag")[1] = "sort" /\ Append(s, "tag")[2] = "tag"
  BY <1>1, <1>3
<1> HIDE DEF s, t
<1>5. Append(s, "tag") = t
  BY <1>1, <1>2, <1>3, <1>4, SeqEqual
<1>6. QED
  BY <1>5 DEF s, t

LEMMA InitIInv == Init => IInv
<1> SUFFICES ASSUME Init PROVE IInv
  OBVIOUS
<1>1. Tasked
  BY Queues DEF Init, Tasked
<1>2. Scoped /\ Sorting
  BY DEF Init, Scoped, Sorting
<1>3. QED
  BY <1>1, <1>2 DEF IInv

\* git never touches what the daemon has in memory.
LEMMA GitKept ==
  ASSUME IInv, Git
  PROVE  IInv' /\ Keeps
<1>1. UNCHANGED <<main, queue, pc, name2id, sorted, dirty, sort>>
  BY DEF Git, SetTag, RemoveLoose, RemovePacked, PackRefs, Writes
<1>2. QED
  BY <1>1 DEF IInv, Tasked, Scoped, Sorting, Keeps

LEMMA RequestKept ==
  ASSUME IInv, NEW c \in Commits, Request(c)
  PROVE  IInv' /\ Keeps
<1>1. queue \in {<< >>, <<"sort">>}
  BY DEF IInv, Tasked, Scoped, Request
<1>2. queue' = IF queue = << >> THEN <<"tag">> ELSE <<"sort", "tag">>
  <2>1. queue' = Append(queue, "tag")
    BY DEF Request, Enqueue
  <2>2. Append(<< >>, "tag") = <<"tag">>
    OBVIOUS
  <2>3. QED
    BY <1>1, <2>1, <2>2, TagAfterSort, Queues
<1>3. pc' = "queued" /\ sort' = sort /\ (sort = "queued" <=> queue = <<"sort">>)
  BY <1>1, Queues DEF Request, IInv, Tasked
<1>4. Tasked'
  BY <1>1, <1>2, <1>3, Queues DEF IInv, Tasked
<1>5. Scoped' /\ Sorting' /\ Keeps
  BY DEF Request, db, IInv, Scoped, Sorting, Keeps
<1>6. QED
  BY <1>4, <1>5 DEF IInv

LEMMA MainKept ==
  ASSUME IInv, Answer \/ Drop \/ Destroy
  PROVE  IInv' /\ Keeps
BY DEF Answer, Drop, Destroy, Waited, git, local, db, IInv, Tasked, Scoped, Sorting, Keeps

LEMMA StartTaskKept ==
  ASSUME IInv, StartTask
  PROVE  IInv' /\ Keeps
<1>1. CASE queue = <<"tag">>
  <2>1. Head(queue) = "tag" /\ Tail(queue) = << >>
    BY <1>1
  <2>2. QED
    BY <1>1, <2>1 DEF StartTask, git, local, db, IInv, Tasked, Scoped, Sorting, Keeps
<1>2. CASE queue = <<"sort">>
  <2>1. Head(queue) = "sort" /\ Tail(queue) = << >>
    BY <1>2
  <2>2. QED
    BY <1>2, <2>1 DEF StartTask, git, local, db, IInv, Tasked, Scoped, Sorting, Keeps
<1>3. CASE queue = <<"sort", "tag">>
  <2>1. Head(queue) = "sort" /\ Tail(queue) = <<"tag">>
    BY <1>3
  <2>2. QED
    BY <1>3, <2>1 DEF StartTask, git, local, db, IInv, Tasked, Scoped, Sorting, Keeps
<1>4. QED
  BY <1>1, <1>2, <1>3 DEF StartTask, IInv, Tasked

LEMMA SortKept ==
  ASSUME IInv, Sort \/ SortDone
  PROVE  IInv' /\ Keeps
<1>1. Tasked'
  BY Queues DEF Sort, SortDone, IInv, Tasked
<1>2. Scoped' /\ Sorting' /\ Keeps
  <2>1. CASE Sort
    BY <2>1 DEF Sort, IInv, Scoped, Sorting, Keeps
  <2>2. CASE SortDone
    BY <2>2 DEF SortDone, IInv, Tasked, Scoped, Sorting, Keeps
  <2>3. QED
    BY <2>1, <2>2
<1>3. QED
  BY <1>1, <1>2 DEF IInv

\* Reset waits for the sort, so that nothing is being sorted while it and the
\* steps that follow it replace name2id_.
LEMMA TagForCommitKept ==
  ASSUME IInv, TagForCommit
  PROVE  IInv' /\ Keeps
<1>1. CASE ReadLooseTags \/ Stat \/ Lookup \/ Final
  BY <1>1 DEF ReadLooseTags, Stat, Lookup, Final, git, db, IInv, Tasked, Scoped, Sorting, Keeps
<1>2. CASE Reset
  BY <1>2 DEF Reset, Waited, git, local, IInv, Tasked, Scoped, Sorting, Keeps
<1>3. CASE LoadThrows \/ LoadAgain
  BY <1>3 DEF LoadThrows, LoadAgain, git, IInv, Tasked, Scoped, Sorting, Keeps
<1>4. CASE Load
  <2>1. queue = << >> /\ sort = "none"
    BY <1>4 DEF Load, IInv, Tasked, Scoped, Sorting
  <2>2. Enqueue("sort") = <<"sort">>
    BY <2>1 DEF Enqueue
  <2>3. CASE Resolves
    BY <1>4, <2>1, <2>2, <2>3 DEF Load, git, local, IInv, Tasked, Scoped, Sorting, Keeps
  <2>4. CASE ~Resolves
    BY <1>4, <2>1, <2>4 DEF Load, git, local, IInv, Tasked, Scoped, Sorting, Keeps
  <2>5. QED
    BY <2>3, <2>4
<1>5. QED
  BY <1>1, <1>2, <1>3, <1>4 DEF TagForCommit

LEMMA StutterKept == IInv /\ UNCHANGED vars => IInv'
BY DEF vars, db, IInv, Tasked, Scoped, Sorting

LEMMA NextKept ==
  ASSUME IInv, Next
  PROVE  IInv' /\ Keeps
BY GitKept, RequestKept, MainKept, StartTaskKept, SortKept, TagForCommitKept DEF Next

-----------------------------------------------------------------------------
\* The inductive invariant holds whatever git does to the files.
THEOREM TagDbInvariant == Spec => []IInv
<1>1. IInv /\ [Next]_vars => IInv'
  BY NextKept, StutterKept
<1>2. QED
  BY <1>1, InitIInv, PTL DEF Spec

\* id2name_dirty_ is set as long as a sort is queued or running, and only then,
\* and an id2name_ that is not dirty is in order.
THEOREM DirtyAlwaysMeansSorting == Spec => []DirtyMeansSorting
<1>1. IInv => DirtyMeansSorting
  BY DEF IInv, Sorting, DirtyMeansSorting
<1>2. QED
  BY <1>1, TagDbInvariant, PTL

\* While a sort is queued or running the tags it sorts are neither replaced nor
\* freed.
THEOREM PackIsStable == Spec => PackStable
<1>1. ASSUME IInv, [Next]_vars
      PROVE  [Keeps]_vars
  BY <1>1, NextKept
<1>2. Spec => [][Keeps]_vars
  BY <1>1, TagDbInvariant, PTL DEF Spec
<1>3. QED
  BY <1>2 DEF PackStable, Keeps

-----------------------------------------------------------------------------
\* The answer to a request during which git has changed nothing.

\* What the cache of packed-refs should hold: what is in the file, or nothing if
\* its tags are not resolved.
Seen == IF header = "full" THEN packed ELSE NoRefs

LooseNow == {n \in Names : loose[n] # NoCommit}

\* m is the greatest of S, where S may be empty and 0 stands for no tag.
Greatest(m, S) == m \in S \cup {0} /\ \A n \in S : n <= m

FilesTyped ==
    /\ loose \in [Names -> Commits \cup {NoCommit}] /\ packed \in [Names -> Commits \cup {NoCommit}]
    /\ header \in Headers \cup {"missing"} /\ want \in Commits
    /\ looseTags \subseteq Names /\ todo \subseteq looseTags /\ res \in Names \cup {0}

\* pack_stat_ is the stat of the file only if the cache is what the file says,
\* or UpdatePack is still reading it.
Cached ==
    /\ header = "missing" => packStat = FALSE /\ packed = NoRefs
    /\ packStat = TRUE /\ pc # "load" => name2id = Seen
    /\ pc = "load" => name2id = NoRefs

\* The loose tags that have been looked up come before those that have not.
Walked ==
    /\ \A n \in looseTags \ todo, m \in todo : n < m
    /\ Greatest(res, {n \in looseTags \ todo : loose[n] = want})

\* A request during which git has changed nothing.
Undisturbed ==
    changed = FALSE =>
       /\ pc \in {"stat", "wipe", "reset", "load", "lookup"} => looseTags = LooseNow
       /\ pc \in {"stat", "wipe", "reset", "load"} => todo = looseTags /\ res = 0
       /\ pc = "wipe" => header = "missing"
       /\ pc = "lookup" => name2id = Seen /\ Walked
       /\ pc = "done" /\ thrown = FALSE => res = Expected

QuietIInv == FilesTyped /\ Cached /\ Undisturbed
\* Booleans apart.
Flags == packStat \in BOOLEAN /\ changed \in BOOLEAN /\ thrown \in BOOLEAN

LEMMA FlagsKept == Flags /\ [Next]_vars => Flags'
<1> SUFFICES ASSUME Flags, [Next]_vars PROVE Flags'
  OBVIOUS
<1> USE DEF Flags
<1>1. CASE Git
  <2>1. changed' = TRUE /\ thrown' = thrown
    BY <1>1, Zenon DEF Git, SetTag, RemoveLoose, RemovePacked, PackRefs, Writes
  <2>2. packStat' = packStat \/ packStat' = FALSE
    BY <1>1, Zenon DEF Git, SetTag, RemoveLoose, RemovePacked, PackRefs, NewFile, SameFile
  <2>3. QED
    BY <2>1, <2>2, Zenon
<1>2. CASE \E c \in Commits : Request(c)
  BY <1>2, Zenon DEF Request, local, db
<1>3. CASE Answer \/ Drop \/ Destroy
  BY <1>3, Zenon DEF Answer, Drop, Destroy, local, db, history
<1>4. CASE StartTask \/ Sort \/ SortDone
  BY <1>4, Zenon DEF StartTask, Sort, SortDone, local, db, history
<1>5. CASE TagForCommit
  <2>1. changed' = changed
    BY <1>5, Zenon DEF TagForCommit, ReadLooseTags, Stat, Reset, LoadThrows, LoadAgain, Load,
                       Lookup, Final, history
  <2>2. thrown' = thrown \/ thrown' \in {TRUE, FALSE}
    BY <1>5, Zenon DEF TagForCommit, ReadLooseTags, Stat, Reset, LoadThrows, LoadAgain, Load,
                       Lookup, Final, local
  <2>3. packStat' = packStat \/ packStat' \in {TRUE, FALSE}
    BY <1>5, Zenon DEF TagForCommit, ReadLooseTags, Stat, Reset, LoadThrows, LoadAgain, Load,
                       Lookup, Final, db
  <2>4. QED
    BY <2>1, <2>2, <2>3, Zenon
<1>6. CASE UNCHANGED vars
  BY <1>6, Zenon DEF vars, local, db, history
<1>7. QED
  BY <1>1, <1>2, <1>3, <1>4, <1>5, <1>6 DEF Next

\* Names have a first and a last one in every set that is not empty.
LEMMA LeastName ==
  ASSUME NEW S, S \subseteq Nat, S # {}
  PROVE  Min(S) \in S /\ \A n \in S : Min(S) <= n
<1>1. PICK m \in S : \A k \in S : ~(<<k, m>> \in OpToRel(<, Nat))
  BY NatLessThanWellFounded, WFMin
<1>2. \A k \in S : ~(k < m)
  BY <1>1 DEF OpToRel
<1>3. \A k \in S : m <= k
  BY <1>2
<1>4. \E x \in S : \A y \in S : x <= y
  BY <1>3, Zenon
<1>5. QED
  BY <1>4 DEF Min

LEMMA GreatestName ==
  ASSUME NEW S, S \subseteq Nat, S # {}, IsFiniteSet(S)
  PROVE  Max(S) \in S /\ \A n \in S : n <= Max(S)
<1> DEFINE Without == {s \in SUBSET S : s # {} /\ ~\E m \in s : \A n \in s : n <= m}
           Sizes == {Cardinality(s) : s \in Without}
<1>1. \A s \in SUBSET S : IsFiniteSet(s) /\ Cardinality(s) \in Nat
  BY FS_Subset, FS_CardinalityType
<1>2. Without = {}
  <2>1. SUFFICES ASSUME Without # {} PROVE FALSE
    OBVIOUS
  <2>2. Sizes \subseteq Nat /\ Sizes # {}
    BY <1>1, <2>1
  <2>3. PICK k \in Sizes : \A i \in Sizes : k <= i
    <3> HIDE DEF Sizes
    <3>1. Min(Sizes) \in Sizes /\ \A i \in Sizes : Min(Sizes) <= i
      BY <2>2, LeastName
    <3>2. QED
      BY <3>1
  <2>4. PICK s \in Without : k = Cardinality(s)
    BY <2>3
  <2>5. /\ s \in SUBSET S /\ s # {} /\ ~\E m \in s : \A n \in s : n <= m
        /\ \A r \in Without : Cardinality(s) <= Cardinality(r)
    BY <2>3, <2>4
  <2>6. PICK x \in s : TRUE
    BY <2>5
  <2>7. Cardinality(s \ {x}) = Cardinality(s) - 1
    BY <1>1, <2>5, <2>6, FS_RemoveElement
  <2>8. s \ {x} \in SUBSET S /\ s \ {x} \notin Without
    <3>1. ~(Cardinality(s) <= Cardinality(s \ {x}))
      BY <1>1, <2>5, <2>7
    <3>2. QED
      BY <2>5, <3>1
  <2>9. CASE s \ {x} = {}
    <3>1. s = {x} /\ x \in Nat
      BY <2>5, <2>6, <2>9
    <3>2. QED
      BY <2>5, <3>1
  <2>10. CASE s \ {x} # {}
    <3>1. PICK m \in s \ {x} : \A n \in s \ {x} : n <= m
      BY <2>8, <2>10
    <3>2. \A n \in s : n \in Nat
      BY <2>5
    <3>3. CASE x <= m
      <4>1. m \in s /\ \A n \in s : n <= m
        BY <3>1, <3>3
      <4>2. QED
        BY <2>5, <4>1
    <3>4. CASE ~(x <= m)
      <4>1. x \in s /\ \A n \in s : n <= x
        BY <2>6, <3>1, <3>2, <3>4
      <4>2. QED
        BY <2>5, <4>1
    <3>5. QED
      BY <3>3, <3>4
  <2>11. QED
    BY <2>9, <2>10
<1>3. \E m \in S : \A n \in S : n <= m
  BY <1>2
<1>4. PICK m \in S : \A n \in S : n <= m
  BY <1>3
<1>5. \A n \in S : m >= n
  BY <1>4
<1>6. Max(S) \in S /\ \A n \in S : Max(S) >= n
  BY <1>5, Zenon DEF Max
<1>7. QED
  BY <1>6

\* 0 stands for no tag.
LEMMA GreatestOr ==
  ASSUME NEW S \in SUBSET Names, NEW m \in Names \cup {0}
  PROVE  /\ Max(S \cup {m}) \in S \cup {m} /\ \A n \in S \cup {m} : n <= Max(S \cup {m})
         /\ Max(S \cup {m}) \in Names \cup {0}
<1>1. S \cup {m} \subseteq Nat /\ S \cup {m} # {}
  BY TagDbAssumption
<1>2. IsFiniteSet(S \cup {m})
  BY TagDbAssumption, FS_Subset, FS_AddElement
<1>3. Max(S \cup {m}) \in S \cup {m} /\ \A n \in S \cup {m} : n <= Max(S \cup {m})
  BY <1>1, <1>2, GreatestName
<1>4. QED
  BY <1>3

\* There is only one greatest.
LEMMA GreatestIs ==
  ASSUME NEW S \in SUBSET Names, NEW m, Greatest(m, S)
  PROVE  m = Max({0} \cup S)
<1>1. {0} \cup S = S \cup {0}
  OBVIOUS
<1>2. /\ Max(S \cup {0}) \in S \cup {0} /\ \A n \in S \cup {0} : n <= Max(S \cup {0})
      /\ Max(S \cup {0}) \in Names \cup {0}
  BY GreatestOr
<1>3. m \in S \cup {0} /\ \A n \in S : n <= m
  BY DEF Greatest
<1>4. S \cup {0} \subseteq Nat
  BY TagDbAssumption
<1>5. m <= Max(S \cup {0})
  BY <1>2, <1>3
<1>6. Max(S \cup {0}) <= m
  BY <1>2, <1>3, <1>4
<1>7. m \in Nat /\ Max(S \cup {0}) \in Nat
  BY <1>2, <1>3, <1>4
<1>8. m = Max(S \cup {0})
  BY <1>5, <1>6, <1>7
<1>9. QED
  BY <1>1, <1>8

\* git may change anything, and then the request is not undisturbed any more.
LEMMA GitQuiet ==
  ASSUME QuietIInv, Git
  PROVE  QuietIInv'
<1>1. /\ changed' = TRUE
      /\ UNCHANGED <<want, pc, looseTags, todo, res, thrown, name2id>>
  BY DEF Git, SetTag, RemoveLoose, RemovePacked, PackRefs, Writes
<1>2. FilesTyped /\ Cached
  BY DEF QuietIInv
<1> DEFINE Refs == [Names -> Commits \cup {NoCommit}]
<1>3. CASE \E n \in Names, c \in Commits : SetTag(n, c)
  <2>1. PICK n \in Names, c \in Commits : SetTag(n, c)
    BY <1>3
  <2>2. loose' \in Refs /\ UNCHANGED <<packed, header, packStat>>
    BY <1>2, <2>1 DEF SetTag, Writes, SameFile, FilesTyped
  <2>3. QED
    BY <1>1, <1>2, <2>2 DEF QuietIInv, FilesTyped, Cached, Undisturbed, Seen
<1>4. CASE \E n \in Names : RemoveLoose(n)
  <2>1. PICK n \in Names : RemoveLoose(n)
    BY <1>4
  <2>2. loose' \in Refs /\ UNCHANGED <<packed, header, packStat>>
    BY <1>2, <2>1 DEF RemoveLoose, Writes, SameFile, FilesTyped
  <2>3. QED
    BY <1>1, <1>2, <2>2 DEF QuietIInv, FilesTyped, Cached, Undisturbed, Seen
<1>5. CASE \E n \in Names : RemovePacked(n)
  <2>1. PICK n \in Names : RemovePacked(n)
    BY <1>5
  <2>2. packed' \in Refs /\ UNCHANGED <<loose, header>> /\ packStat' = FALSE
    BY <1>2, <2>1 DEF RemovePacked, Writes, NewFile, FilesTyped
  <2>3. header # "missing"
    <3>1. packed # NoRefs
      BY <2>1 DEF RemovePacked, NoRefs
    <3>2. QED
      BY <1>2, <3>1 DEF Cached
  <2>4. QED
    BY <1>1, <1>2, <2>2, <2>3 DEF QuietIInv, FilesTyped, Cached, Undisturbed
<1>6. CASE PackRefs
  <2>1. PICK h \in Headers : Writes(loose, [n \in Names |-> Points(loose, packed, n)], h)
    BY <1>6 DEF PackRefs
  <2>2. loose' = loose /\ header' = h /\ packStat' = FALSE
    BY <1>6, <2>1 DEF PackRefs, Writes, NewFile
  <2>3. packed' \in Refs
    BY <1>2, <2>1 DEF Writes, Points, FilesTyped
  <2>4. h # "missing"
    BY TagDbAssumption
  <2>5. QED
    BY <1>1, <1>2, <2>2, <2>3, <2>4 DEF QuietIInv, FilesTyped, Cached, Undisturbed
<1>7. QED
  BY <1>3, <1>4, <1>5, <1>6 DEF Git

LEMMA RequestQuiet ==
  ASSUME IInv, QuietIInv, NEW c \in Commits, Request(c)
  PROVE  QuietIInv'
<1>1. pc = "none" /\ pc' = "queued" /\ want' = c
  BY DEF Request, IInv, Scoped
<1>2. UNCHANGED <<loose, packed, header, looseTags, todo, res, packStat, name2id>>
  BY DEF Request, git, local, db
<1>3. QED
  BY <1>1, <1>2 DEF QuietIInv, FilesTyped, Cached, Undisturbed, Seen

LEMMA StartQuiet ==
  ASSUME IInv, QuietIInv, StartTask
  PROVE  QuietIInv'
<1>1. UNCHANGED <<loose, packed, header, want, looseTags, todo, res, thrown, packStat, name2id, changed>>
  BY DEF StartTask, git, local, db, history
<1>2. Head(queue) = "tag" => pc = "queued"
  <2>1. queue = << >> \/ queue = <<"tag">> \/ queue = <<"sort">> \/ queue = <<"sort", "tag">>
    BY DEF IInv, Tasked
  <2>2. queue = <<"sort">> => Head(queue) # "tag"
    OBVIOUS
  <2>3. queue = <<"sort", "tag">> => Head(queue) # "tag"
    OBVIOUS
  <2>4. queue = <<"tag">> => pc = "queued"
    BY DEF IInv, Tasked
  <2>5. QED
    BY <2>1, <2>2, <2>3, <2>4 DEF StartTask
<1>3. pc' = pc \/ (pc = "queued" /\ pc' = "loose")
  BY <1>2 DEF StartTask
<1>4. Seen' = Seen /\ LooseNow' = LooseNow /\ Expected' = Expected /\ (Walked' <=> Walked)
  BY <1>1 DEF Seen, LooseNow, Expected, Points, Walked, Greatest
<1>5. QED
  BY <1>1, <1>3, <1>4 DEF QuietIInv, FilesTyped, Cached, Undisturbed

\* The sort puts in order what the cache holds and changes none of it.
LEMMA RestQuiet ==
  ASSUME QuietIInv, Answer \/ Drop \/ Destroy \/ Sort \/ SortDone \/ UNCHANGED vars
  PROVE  QuietIInv'
<1>1. UNCHANGED <<loose, packed, header, want, looseTags, todo, res, thrown, packStat, name2id, changed>>
  BY DEF Answer, Drop, Destroy, Sort, SortDone, vars, git, local, db, history
<1>2. pc' = pc \/ (pc = "done" /\ pc' = "none")
  BY DEF Answer, Drop, Destroy, Sort, SortDone, vars
<1>3. Seen' = Seen /\ LooseNow' = LooseNow /\ Expected' = Expected /\ (Walked' <=> Walked)
  BY <1>1 DEF Seen, LooseNow, Expected, Points, Walked, Greatest
<1>4. QED
  BY <1>1, <1>2, <1>3 DEF QuietIInv, FilesTyped, Cached, Undisturbed

\* UpdatePack: when it is done the cache is what the file says.
LEMMA PackQuiet ==
  ASSUME IInv, QuietIInv, Flags, "partial" \notin Headers,
         ReadLooseTags \/ Stat \/ Reset \/ LoadThrows \/ LoadAgain \/ Load
  PROVE  QuietIInv'
<1>1. UNCHANGED <<loose, packed, header, want, changed>>
  BY DEF ReadLooseTags, Stat, Reset, LoadThrows, LoadAgain, Load, git, history
<1>2. Seen' = Seen /\ LooseNow' = LooseNow
  BY <1>1 DEF Seen, LooseNow
<1>3. FilesTyped /\ Cached /\ Undisturbed
  BY DEF QuietIInv
<1>4. todo = looseTags /\ res = 0 => Walked
  <2>1. \A m, S : m = 0 /\ S = {} => Greatest(m, S)
    BY DEF Greatest
  <2>2. QED
    BY <2>1 DEF Walked
<1>5. CASE ReadLooseTags
  <2>1. /\ looseTags' = LooseNow /\ todo' = looseTags' /\ res' = 0 /\ pc = "loose" /\ pc' = "stat"
        /\ UNCHANGED <<packStat, name2id>>
    BY <1>5 DEF ReadLooseTags, LooseNow, db
  <2>2. FilesTyped'
    BY <1>1, <1>3, <2>1 DEF FilesTyped, LooseNow
  <2>3. Cached'
    BY <1>1, <1>2, <1>3, <2>1 DEF Cached
  <2>4. Undisturbed'
    BY <1>2, <2>1 DEF Undisturbed
  <2>5. QED
    BY <2>2, <2>3, <2>4 DEF QuietIInv
<1>6. CASE Stat \/ Reset \/ LoadThrows \/ LoadAgain \/ Load
  <2>1. looseTags' = looseTags /\ todo' = todo /\ res' = res
    BY <1>6 DEF Stat, Reset, LoadThrows, LoadAgain, Load, local
  <2>2. FilesTyped'
    BY <1>1, <1>3, <2>1 DEF FilesTyped
  <2>3. Walked' <=> Walked
    BY <1>1, <2>1 DEF Walked, Greatest
  <2>4. CASE Stat
    <3>1. UNCHANGED <<packStat, name2id>> /\ pc = "stat"
      BY <2>4 DEF Stat, db
    <3>2. \/ pc' = "lookup" /\ packStat = TRUE
          \/ pc' = "wipe" /\ header = "missing"
          \/ pc' = "reset"
      BY <2>4, Zenon DEF Stat, StatEq, Flags
    <3>3. QED
      BY <1>1, <1>2, <1>3, <1>4, <2>1, <2>2, <2>3, <3>1, <3>2 DEF QuietIInv, Cached, Undisturbed
  <2>5. CASE Reset
    <3>1. /\ name2id' = NoRefs /\ packStat' = FALSE
          /\ (pc = "wipe" /\ pc' = "lookup") \/ (pc = "reset" /\ pc' = "load")
      <4>1. pc \in {"wipe", "reset"} /\ pc' = IF pc = "wipe" THEN "lookup" ELSE "load"
        BY <2>5 DEF Reset
      <4>2. name2id' = NoRefs /\ packStat' = FALSE
        BY <2>5 DEF Reset
      <4>3. QED
        BY <4>1, <4>2
    <3>2. header = "missing" => Seen = NoRefs
      BY DEF Seen
    <3>3. QED
      BY <1>1, <1>2, <1>3, <1>4, <2>1, <2>2, <2>3, <3>1, <3>2 DEF QuietIInv, Cached, Undisturbed
  <2>6. CASE LoadThrows
    <3>1. name2id' = NoRefs /\ packStat' = FALSE /\ thrown' = TRUE /\ pc' = "done"
      BY <2>6 DEF LoadThrows
    <3>2. QED
      BY <1>1, <1>3, <2>2, <3>1 DEF QuietIInv, Cached, Undisturbed
  <2>7. CASE LoadAgain
    <3>1. UNCHANGED <<name2id, pc>> /\ packStat' = TRUE /\ header # "missing" /\ pc = "load"
      BY <2>7 DEF LoadAgain
    <3>2. QED
      BY <1>1, <1>2, <1>3, <2>1, <2>2, <3>1 DEF QuietIInv, Cached, Undisturbed
  <2>8. CASE Load
    <3>1. pc = "load" /\ pc' = "lookup" /\ header # "missing"
      BY <2>8 DEF Load
    <3>2. name2id' = Seen
      <4>1. header # "partial" /\ name2id = NoRefs
        BY <1>3, <3>1 DEF FilesTyped, Cached
      <4>2. QED
        BY <2>8, <4>1 DEF Load, Resolves, Seen
    <3>3. QED
      BY <1>1, <1>2, <1>3, <1>4, <2>1, <2>2, <2>3, <3>1, <3>2 DEF QuietIInv, Cached, Undisturbed
  <2>9. QED
    BY <1>6, <2>4, <2>5, <2>6, <2>7, <2>8
<1>7. QED
  BY <1>5, <1>6

\* Loose tags are looked up in the order of their names: a later one replaces
\* what was found.
LEMMA LookupQuiet ==
  ASSUME IInv, QuietIInv, Lookup
  PROVE  QuietIInv'
<1> DEFINE n == Min(todo)
<1>1. /\ pc = "lookup" /\ pc' = pc /\ todo # {} /\ todo' = todo \ {n}
      /\ res' = IF loose[n] = want THEN n ELSE res
      /\ UNCHANGED <<loose, packed, header, want, looseTags, packStat, name2id, changed>>
  BY DEF Lookup, git, db, history
<1>2. FilesTyped /\ Cached /\ Undisturbed
  BY DEF QuietIInv
<1>3. todo \subseteq looseTags /\ looseTags \subseteq Names /\ Names \subseteq Nat
  BY <1>2, TagDbAssumption DEF FilesTyped
<1>4. n \in todo /\ \A m \in todo : n <= m
  BY <1>1, <1>3, LeastName
<1> HIDE DEF n
<1>5. FilesTyped'
  BY <1>1, <1>2, <1>3, <1>4 DEF FilesTyped
<1>6. Seen' = Seen /\ LooseNow' = LooseNow
  BY <1>1 DEF Seen, LooseNow
<1>7. Cached'
  BY <1>1, <1>2, <1>6 DEF Cached
<1>8. ASSUME Walked PROVE Walked'
  <2>1. looseTags \ todo' = (looseTags \ todo) \cup {n}
    BY <1>1, <1>3, <1>4
  <2>2. \A a \in looseTags' \ todo', m \in todo' : a < m
    <3>1. TAKE a \in looseTags' \ todo', m \in todo'
    <3>2. m \in todo /\ m # n /\ m \in Nat /\ n \in Nat
      BY <1>1, <1>3, <1>4
    <3>3. CASE a = n
      BY <1>4, <3>2, <3>3
    <3>4. CASE a # n
      BY <1>1, <1>8, <2>1, <3>2, <3>4 DEF Walked
    <3>5. QED
      BY <3>3, <3>4
  <2>3. Greatest(res', {a \in looseTags' \ todo' : loose'[a] = want'})
    <3>1. \A a \in looseTags \ todo : a < n
      BY <1>4, <1>8 DEF Walked
    <3>2. Greatest(res, {a \in looseTags \ todo : loose[a] = want})
      BY <1>8 DEF Walked
    <3>3. CASE loose[n] = want
      <4>1. res' = n /\ n \in Nat /\ \A a \in looseTags : a \in Nat
        BY <1>1, <1>3, <1>4, <3>3
      <4>2. \A a \in (looseTags \ todo) \cup {n} : a <= n
        BY <1>3, <3>1, <4>1
      <4>3. QED
        BY <1>1, <2>1, <3>3, <4>1, <4>2 DEF Greatest
    <3>4. CASE loose[n] # want
      BY <1>1, <2>1, <3>2, <3>4 DEF Greatest
    <3>5. QED
      BY <3>3, <3>4
  <2>4. QED
    BY <2>2, <2>3 DEF Walked
<1>9. Undisturbed'
  BY <1>1, <1>2, <1>6, <1>8 DEF Undisturbed
<1>10. QED
  BY <1>5, <1>7, <1>9 DEF QuietIInv

\* The best of the loose tags and of the packed tags no loose tag hides.
LEMMA FinalQuiet ==
  ASSUME IInv, QuietIInv, Final
  PROVE  QuietIInv'
<1>1. /\ pc = "lookup" /\ pc' = "done" /\ todo = {}
      /\ UNCHANGED <<loose, packed, header, want, looseTags, todo, packStat, name2id, changed>>
  BY DEF Final, git, db, history
<1>2. FilesTyped /\ Cached /\ Undisturbed
  BY DEF QuietIInv
<1>3. Packed \in SUBSET Names /\ res \in Names \cup {0}
  BY <1>2 DEF Packed, FilesTyped
<1>4. dirty = TRUE \/ (dirty = FALSE /\ sorted = TRUE)
  BY DEF IInv, Sorting
<1>5. res' = Max(Packed \cup {res}) \/ (Packed = {} /\ res' = res)
  <2>1. CASE dirty = TRUE
    BY <2>1 DEF Final, ByName
  <2>2. CASE dirty = FALSE /\ sorted = TRUE
    BY <2>2 DEF Final
  <2>3. QED
    BY <1>4, <2>1, <2>2
<1>6. Greatest(res', Packed \cup {res}) /\ res' \in Names \cup {0} /\ res' \in Packed \cup {res}
  <2>1. /\ Max(Packed \cup {res}) \in Packed \cup {res} /\ Max(Packed \cup {res}) \in Names \cup {0}
        /\ \A n \in Packed \cup {res} : n <= Max(Packed \cup {res})
    BY <1>3, GreatestOr
  <2>2. res <= res
    BY <1>3, TagDbAssumption
  <2>3. QED
    BY <1>3, <1>5, <2>1, <2>2 DEF Greatest
<1>7. FilesTyped'
  BY <1>1, <1>2, <1>6 DEF FilesTyped
<1>8. Seen' = Seen
  BY <1>1 DEF Seen
<1>9. Cached'
  BY <1>1, <1>2, <1>8 DEF Cached
<1>10. ASSUME changed = FALSE PROVE res' = Expected'
  <2> DEFINE Loose == {n \in looseTags : loose[n] = want}
             Best == {n \in Names : want = Points(loose, IF header = "full" THEN packed ELSE NoRefs, n)}
  <2>1. looseTags = LooseNow /\ name2id = Seen /\ Greatest(res, Loose)
    BY <1>1, <1>2, <1>10 DEF Undisturbed, Walked
  <2>2. Best = Loose \cup Packed
    <3>1. want # NoCommit
      BY <1>2, TagDbAssumption DEF FilesTyped
    <3>2. QED
      BY <2>1, <3>1 DEF LooseNow, Seen, Packed, Points
  <2>3. Expected' = Max({0} \cup Best)
    BY <1>1 DEF Expected, Points
  <2>4. Best \in SUBSET Names
    OBVIOUS
  <2>5. Greatest(res', Best)
    <3>1. res \in Loose \cup {0} /\ \A n \in Loose : n <= res
      BY <2>1 DEF Greatest
    <3>2. \A n \in Packed \cup {res} : n <= res'
      BY <1>6 DEF Greatest
    <3>3. Loose \subseteq Nat /\ res \in Nat /\ res' \in Nat
      <4>1. Names \subseteq Nat /\ 0 \in Nat
        BY TagDbAssumption
      <4>2. Loose \subseteq Names
        BY <1>2 DEF FilesTyped
      <4>3. QED
        BY <1>3, <1>6, <4>1, <4>2
    <3>4. \A n \in Loose : n <= res'
      BY <3>1, <3>2, <3>3
    <3>5. res' \in Best \cup {0}
      BY <1>6, <2>2, <3>1
    <3> HIDE DEF Loose, Best
    <3>6. QED
      BY <2>2, <3>2, <3>4, <3>5 DEF Greatest
  <2> HIDE DEF Best
  <2>6. QED
    BY <2>3, <2>4, <2>5, GreatestIs
<1>11. Undisturbed'
  BY <1>1, <1>10 DEF Undisturbed
<1>12. QED
  BY <1>7, <1>9, <1>11 DEF QuietIInv

LEMMA QuietInit == Init => Flags /\ QuietIInv
<1> SUFFICES ASSUME Init PROVE Flags /\ QuietIInv
  OBVIOUS
<1>1. Flags
  BY Zenon DEF Init, Flags
<1>2. FilesTyped
  BY DEF Init, FilesTyped, NoRefs
<1>3. Cached /\ Undisturbed
  BY DEF Init, Cached, Undisturbed, Seen
<1>4. QED
  BY <1>1, <1>2, <1>3 DEF QuietIInv

LEMMA QuietKept ==
  ASSUME IInv, QuietIInv, Flags, "partial" \notin Headers, [Next]_vars
  PROVE  QuietIInv'
BY GitQuiet, RequestQuiet, StartQuiet, RestQuiet, PackQuiet, LookupQuiet, FinalQuiet
DEF Next, TagForCommit

\* The answer to a request during which git has changed nothing is the last tag
\* of the commit, whatever is loose, packed or both, whichever file the cache
\* was read from and whether or not it has been sorted.  A header that is
\* neither complete nor missing is left out: ParsePack warns that it will not
\* resolve tags, and does.
THEOREM QuietAlwaysExact ==
  ASSUME "partial" \notin Headers
  PROVE  Spec => []QuietExact
<1>1. IInv /\ QuietIInv /\ Flags /\ [Next]_vars => (IInv /\ QuietIInv /\ Flags)'
  BY NextKept, StutterKept, QuietKept, FlagsKept
<1>2. IInv /\ QuietIInv /\ Flags => QuietExact
  <2>1. SUFFICES ASSUME QuietIInv, Flags, pc = "done", ~thrown, ~changed PROVE res = Expected
    BY Zenon DEF QuietExact
  <2>2. changed = FALSE /\ thrown = FALSE
    BY <2>1, Zenon DEF Flags
  <2>3. QED
    BY <2>1, <2>2 DEF QuietIInv, Undisturbed
<1>3. QED
  BY <1>1, <1>2, InitIInv, QuietInit, PTL DEF Spec
=============================================================================
