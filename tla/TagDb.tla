-------------------------------- MODULE TagDb --------------------------------
(***************************************************************************)
(* The tags of one repository (tag_db.cc): TagForCommit, which runs on the *)
(* thread pool once per request, the cache of packed-refs it keeps, and    *)
(* the task that sorts that cache by commit while later requests use it.   *)
(* Around it git creates, moves, deletes and packs tags, one file at a     *)
(* time.                                                                   *)
(*                                                                         *)
(* Tags are numbered in the order of their names, and 0 is the empty name. *)
(* A tag stands for the commit it leads to: how that is found is in the    *)
(* module TagRefs.  A stat is modelled by whether it is that of the        *)
(* packed-refs file there is now, so that versions of the file need no     *)
(* number: git replaces the file by a rename, and two versions never have  *)
(* the same stat.                                                          *)
(***************************************************************************)
EXTENDS Integers, Sequences, FiniteSets, FiniteSetsExt

CONSTANTS
    Names,       \* tags, in the order of their names
    Commits,
    NoCommit,    \* there is no such tag
    Headers,     \* headers packed-refs may have: "full", "partial", "none"
    NumThreads   \* threads of the pool

ASSUME TagDbAssumption ==
    /\ Names \subseteq Nat \ {0} /\ IsFiniteSet(Names)
    /\ NoCommit \notin Commits
    /\ Headers \subseteq {"full", "partial", "none"}
    /\ NumThreads \in Nat \ {0}

VARIABLES
    loose,      \* refs/tags: the commit of every loose tag
    packed,     \* packed-refs: the commit of every packed tag
    header,     \* its header, "missing" if there is no file
    main,       \* the main thread: "idle", "request", "dtor" or "freed"
    want,       \* the commit whose tag the current request asks for
    queue,      \* the tasks in the pool's queue
    pc,         \* where TagForCommit is
    st,         \* UpdatePack's st is the stat of the file there is now
    looseTags,  \* loose_tags_
    todo,       \* the loose tags TagForCommit has not looked up
    res,        \* the best tag found so far
    thrown,     \* TagForCommit has thrown
    packStat,   \* pack_stat_ is the stat of the file there is now
    name2id,    \* what name2id_ and id2name_ hold
    sorted,     \* id2name_ is sorted
    dirty,      \* id2name_dirty_
    sort,       \* where the task that sorts id2name_ is
    changed,    \* history: git has changed a file since the request began
    held        \* history: tags that have pointed at want since then

git == <<loose, packed, header>>
local == <<st, looseTags, todo, res, thrown>>
db == <<packStat, name2id, sorted, dirty>>
history == <<changed, held>>
vars == <<git, main, want, queue, pc, local, db, sort, history>>

NoRefs == [n \in Names |-> NoCommit]

Init ==
    /\ loose = NoRefs /\ packed = NoRefs /\ header = "missing"
    /\ main = "idle" /\ want \in Commits
    /\ queue = << >> /\ pc = "none"
    /\ st = FALSE /\ looseTags = {} /\ todo = {} /\ res = 0 /\ thrown = FALSE
    /\ packStat = FALSE /\ name2id = NoRefs /\ sorted = TRUE /\ dirty = FALSE
    /\ sort = "none"
    /\ changed = FALSE /\ held = {}

-----------------------------------------------------------------------------
\* git, outside the daemon.

\* The commit a tag points to for git.
Points(l, p, n) == IF l[n] # NoCommit THEN l[n] ELSE p[n]

Writes(l, p, h) ==
    /\ loose' = l /\ packed' = p /\ header' = h
    /\ changed' = TRUE
    /\ held' = {n \in held : Points(l, p, n) = want}
    /\ UNCHANGED <<main, want, queue, pc, looseTags, todo, res, thrown, name2id, sorted, dirty,
                   sort>>

NewFile == st' = FALSE /\ packStat' = FALSE
SameFile == UNCHANGED <<st, packStat>>

SetTag(n, c) == Writes([loose EXCEPT ![n] = c], packed, header) /\ SameFile

\* The loose file of a tag that is deleted, or packed with the same commit.
RemoveLoose(n) ==
    /\ loose[n] # NoCommit
    /\ packed[n] \in {NoCommit, loose[n]}
    /\ Writes([loose EXCEPT ![n] = NoCommit], packed, header)
    /\ SameFile

\* Deleting a tag rewrites packed-refs without it, before the loose file goes.
RemovePacked(n) ==
    /\ packed[n] # NoCommit
    /\ Writes(loose, [packed EXCEPT ![n] = NoCommit], header)
    /\ NewFile

\* pack-refs writes every tag to packed-refs; RemoveLoose then prunes.
PackRefs ==
    /\ \E h \in Headers : Writes(loose, [n \in Names |-> Points(loose, packed, n)], h)
    /\ NewFile

Git ==
    \/ \E n \in Names, c \in Commits : SetTag(n, c)
    \/ \E n \in Names : RemoveLoose(n) \/ RemovePacked(n)
    \/ PackRefs

-----------------------------------------------------------------------------
\* The main thread and the pool.

\* Schedule: the pool is first in, first out (ThreadPool).
Enqueue_AtFront(task) == <<task>> \o queue
Enqueue(task) == Append(queue, task)

\* GetTagName.
Request(c) ==
    /\ main = "idle"
    /\ main' = "request"
    /\ want' = c
    /\ queue' = Enqueue("tag")
    /\ pc' = "queued"
    /\ changed' = FALSE
    /\ held' = {n \in Names : Points(loose, packed, n) = c}
    /\ UNCHANGED <<git, local, db, sort>>

\* tag.get or tag.wait returns.
Answer ==
    /\ main = "request"
    /\ pc = "done"
    /\ main' = "idle"
    /\ pc' = "none"
    /\ UNCHANGED <<git, want, queue, local, db, sort, history>>

Drop ==
    /\ main = "idle"
    /\ main' = "dtor"
    /\ UNCHANGED <<git, want, queue, pc, local, db, sort, history>>

\* Wait: for the sort of id2name_.
Waited_No == TRUE
Waited == ~dirty

\* ~TagDb.
Destroy ==
    /\ main = "dtor"
    /\ Waited
    /\ main' = "freed"
    /\ UNCHANGED <<git, want, queue, pc, local, db, sort, history>>

Busy == Cardinality({t \in {"tag", "sort"} :
    \/ t = "tag" /\ pc \notin {"none", "queued", "done"}
    \/ t = "sort" /\ sort \in {"running", "sorted"}})

StartTask ==
    /\ queue # << >>
    /\ Busy < NumThreads
    /\ queue' = Tail(queue)
    /\ IF Head(queue) = "tag" THEN pc' = "loose" /\ sort' = sort
                              ELSE sort' = "running" /\ pc' = pc
    /\ UNCHANGED <<git, main, want, local, db, history>>

\* The task ParsePack schedules: std::sort, then the mutex.
Sort_ClearsFirst ==
    /\ sort = "running"
    /\ sort' = "sorted"
    /\ dirty' = FALSE
    /\ UNCHANGED <<git, main, want, queue, pc, local, packStat, name2id, sorted, history>>
Sort ==
    /\ sort = "running"
    /\ sort' = "sorted"
    /\ sorted' = TRUE
    /\ UNCHANGED <<git, main, want, queue, pc, local, packStat, name2id, dirty, history>>

SortDone ==
    /\ sort = "sorted"
    /\ sort' = "none"
    /\ dirty' = FALSE
    /\ UNCHANGED <<git, main, want, queue, pc, local, packStat, name2id, sorted, history>>

-----------------------------------------------------------------------------
\* TagForCommit.

ReadLooseTags ==
    /\ pc = "loose"
    /\ looseTags' = {n \in Names : loose[n] # NoCommit}
    /\ todo' = looseTags'
    /\ res' = 0
    /\ thrown' = FALSE
    /\ pc' = "stat"
    /\ UNCHANGED <<git, main, want, queue, st, db, sort, history>>

StatEq == packStat

\* UpdatePack's stat.
Stat ==
    /\ pc = "stat"
    /\ \/ header = "missing" /\ pc' = "wipe" /\ st' = st
       \/ header # "missing" /\ StatEq /\ pc' = "lookup" /\ st' = st
       \/ header # "missing" /\ ~StatEq /\ pc' = "reset" /\ st' = TRUE
    /\ UNCHANGED <<git, main, want, queue, looseTags, todo, res, thrown, db, sort, history>>

\* UpdatePack's Reset, which waits for the sort; without a file UpdatePack ends.
Reset ==
    /\ pc \in {"wipe", "reset"}
    /\ Waited
    /\ name2id' = NoRefs
    /\ sorted' = TRUE
    /\ packStat' = FALSE
    /\ pc' = IF pc = "wipe" THEN "lookup" ELSE "load"
    /\ UNCHANGED <<git, main, want, queue, local, dirty, sort, history>>

\* Reset and throw, when the file is gone, or something in it is not understood.
LoadThrows ==
    /\ pc = "load"
    /\ thrown' = TRUE
    /\ name2id' = NoRefs
    /\ packStat' = FALSE
    /\ pc' = "done"
    /\ UNCHANGED <<git, main, want, queue, st, looseTags, todo, res, sorted, dirty, sort, history>>

\* The file is not the one whose stat is in st: once more.
LoadAgain ==
    /\ pc = "load"
    /\ header # "missing"
    /\ ~st
    /\ st' = TRUE
    /\ packStat' = TRUE
    /\ UNCHANGED <<git, main, want, queue, pc, looseTags, todo, res, thrown, name2id, sorted,
                   dirty, sort, history>>

\* Without a header every tag is dropped; ParsePack goes on after a warning if
\* the header lacks "fully-peeled" or "sorted".
Resolves == header \in {"full", "partial"}

\* The file is read and ParsePack schedules the sort.
Load ==
    /\ pc = "load"
    /\ header # "missing"
    /\ st
    /\ packStat' = TRUE
    /\ IF Resolves
       THEN /\ name2id' = packed
            /\ sorted' = FALSE
            /\ dirty' = TRUE
            /\ sort' = "queued"
            /\ queue' = Enqueue("sort")
       ELSE UNCHANGED <<name2id, sorted, dirty, sort, queue>>
    /\ pc' = "lookup"
    /\ UNCHANGED <<git, main, want, local, history>>

\* TagHasTarget for the next loose tag, from the file it has now.
Lookup ==
    /\ pc = "lookup"
    /\ todo # {}
    /\ LET n == Min(todo)
       IN /\ todo' = todo \ {n}
          /\ res' = IF loose[n] = want THEN n ELSE res
    /\ UNCHANGED <<git, main, want, queue, pc, st, looseTags, thrown, db, sort, history>>

\* Packed tags a lookup may return.
Packed_EvenLoose == {n \in Names : name2id[n] = want}
Packed == {n \in Names : name2id[n] = want /\ n \notin looseTags}

\* The greatest of them, from name2id_ if id2name_ is not sorted yet.  Looking
\* something up in an unsorted id2name_ may find anything or nothing.
ByName(S) == Max(S \cup {res})

Final ==
    /\ pc = "lookup"
    /\ todo = {}
    /\ IF dirty THEN res' = (IF Packed = {} THEN res ELSE ByName(Packed))
       ELSE IF sorted THEN res' = Max(Packed \cup {res})
       ELSE \E S \in SUBSET Names : res' = Max(S \cup {res})
    /\ pc' = "done"
    /\ UNCHANGED <<git, main, want, queue, st, looseTags, todo, thrown, db, sort, history>>

TagForCommit ==
    ReadLooseTags \/ Stat \/ Reset \/ LoadThrows \/ LoadAgain \/ Load \/ Lookup \/ Final

Next ==
    \/ Git
    \/ \E c \in Commits : Request(c)
    \/ Answer
    \/ Drop
    \/ Destroy
    \/ StartTask
    \/ Sort
    \/ SortDone
    \/ TagForCommit

Spec == Init /\ [][Next]_vars

\* The main thread, the threads of the pool and the tasks they run make progress.
FairSpec ==
    /\ Spec
    /\ WF_vars(Answer)
    /\ WF_vars(Destroy)
    /\ WF_vars(StartTask)
    /\ WF_vars(Sort \/ SortDone)
    /\ WF_vars(TagForCommit)

-----------------------------------------------------------------------------
\* What git itself would answer from the files there are now, if tags in a
\* packed-refs that is not fully peeled are not resolved.
Expected ==
    Max({0} \cup {n \in Names : want = Points(loose, IF header = "full" THEN packed ELSE NoRefs, n)})

\* If git has touched nothing during a request, its answer is the last tag of
\* the commit: neither the cache of packed-refs nor the shortcut taken while it
\* is being sorted ever shows.
QuietExact == pc = "done" /\ ~thrown /\ ~changed => res = Expected

\* A tag that points at the commit from the beginning of a request to its end is
\* found: the answer is that tag or a later one.
HeldTagFound == pc = "done" /\ ~thrown => \A n \in held : res >= n

\* id2name_dirty_ says exactly that a sort has been scheduled and has not ended,
\* as the CHECK of the task demands, and without it id2name_ is in order.
DirtyMeansSorting == (dirty <=> sort # "none") /\ (~dirty => sorted)

\* Nobody replaces or frees what a scheduled sort is going to touch.
PackStable == [][sort # "none" => name2id' = name2id /\ main' # "freed"]_vars

\* If git comes to rest, every request gets its tag, even from a pool of one
\* thread in which TagForCommit may have to wait for a sort that is in the same
\* queue; and ~TagDb returns.  A git that rewrites packed-refs again and again
\* can keep UpdatePack reading for ever.
TagArrives ==
    <>[][~Git]_vars => (main \in {"request", "dtor"}) ~> (main \in {"idle", "freed"})
=============================================================================
