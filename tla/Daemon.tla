------------------------------- MODULE Daemon -------------------------------
(***************************************************************************)
(* The main thread of gitstatusd: RequestReader and the loop of GitStatus  *)
(* (request.cc, gitstatus.cc), ProcessRequest with the one response each   *)
(* request gets (response.cc), and RepoCache with its LRU (repo_cache.cc). *)
(* What a request does inside a repository is in RepoScan and TagDb; here  *)
(* it either ends well or throws.                                          *)
(*                                                                         *)
(* A repository is named by the directory that holds its .git.  Entries of *)
(* the LRU carry their age instead of the time of their last use, counted  *)
(* up to Ttl, so that the clock needs no bound.                            *)
(***************************************************************************)
EXTENDS Integers, Sequences, Functions

CONSTANTS
    Dirs,        \* absolute directories a request may name
    Path,        \* [Dirs -> Seq(Dirs)]: a directory, its parent, and so on
    Relative,    \* any path that is empty or does not begin with '/'
    NoDir,       \* no request
    Bare,        \* repositories without a working tree
    Ttl,         \* repo_ttl: the age from which a repository is freed, or -1
    MaxPending,  \* bound: requests in the pipe
    Faults       \* what may throw: "discover", "open", "odb", "process"

ASSUME DaemonAssumption ==
    /\ \A d \in Dirs : Path[d] \in Seq(Dirs) /\ Path[d] # << >> /\ Path[d][1] = d
    /\ Relative \notin Dirs /\ NoDir \notin Dirs \cup {Relative}
    /\ Bare \subseteq Dirs
    /\ Ttl \in Nat \cup {-1}
    /\ MaxPending \in Nat \ {0}

VARIABLES
    git,      \* the directories that have a .git now
    pipe,     \* requests written by the client and not read
    client,   \* the shell: "open", "closed" (stdin at EOF) or "dead"
    main,     \* where the main thread is
    cur,      \* the request being processed
    cache,    \* cache_: gitdir -> its entry
    lru,      \* lru_: pairs of a gitdir and an age
    tag,      \* a TagForCommit of the current request is queued or running
    written,  \* responses written for the current request (done_)
    erased    \* history: what the last step took out of the cache, by age

vars == <<git, pipe, client, main, cur, cache, lru, tag, written, erased>>

Request == [dir : Dirs \cup {Relative}, dotgit : BOOLEAN]
NoRequest == [dir |-> NoDir, dotgit |-> FALSE]

\* A message ParseRequest does not accept.
Malformed == NoRequest

Ages == 0..(IF Ttl = -1 THEN 0 ELSE Ttl)

\* An entry whose Repo has not been made is a null pointer: it has no age.
Null == -1

TypeOK ==
    /\ git \subseteq Dirs
    /\ pipe \in Seq(Request \cup {Malformed}) /\ Len(pipe) <= MaxPending
    /\ client \in {"open", "closed", "dead"}
    /\ main \in {"select", "discover", "lookup", "config", "stats", "leave", "exited",
                 "crashed"}
    /\ cur \in Request \cup {NoRequest}
    /\ DOMAIN cache \subseteq Dirs
    /\ \A g \in DOMAIN cache : cache[g] \in Ages \cup {Null}
    /\ lru \subseteq Dirs \X Ages
    /\ tag \in BOOLEAN
    /\ written \in {0, 1}
    /\ erased \subseteq Dirs \X Ages

Init ==
    /\ git \in SUBSET Dirs
    /\ pipe = << >>
    /\ client = "open"
    /\ main = "select"
    /\ cur = NoRequest
    /\ cache = << >>
    /\ lru = {}
    /\ tag = FALSE
    /\ written = 0
    /\ erased = {}

-----------------------------------------------------------------------------
\* The world: git, the shell, the clock.

GitInit(d) ==
    /\ git' = git \cup {d}
    /\ UNCHANGED <<pipe, client, main, cur, cache, lru, tag, written>>
    /\ erased' = {}

GitRemove(d) ==
    /\ git' = git \ {d}
    /\ UNCHANGED <<pipe, client, main, cur, cache, lru, tag, written>>
    /\ erased' = {}

Send(r) ==
    /\ client = "open"
    /\ Len(pipe) < MaxPending
    /\ pipe' = Append(pipe, r)
    /\ UNCHANGED <<git, client, main, cur, cache, lru, tag, written>>
    /\ erased' = {}

\* The shell closes the pipe, or dies while another process holds it open.
Hangup ==
    /\ client = "open"
    /\ client' \in {"closed", "dead"}
    /\ UNCHANGED <<git, pipe, main, cur, cache, lru, tag, written>>
    /\ erased' = {}

Older(age) == IF age = Null \/ age >= Ttl THEN age ELSE age + 1

Tick ==
    /\ cache' = [g \in DOMAIN cache |-> Older(cache[g])]
    /\ lru' = {<<p[1], Older(p[2])>> : p \in lru}
    /\ UNCHANGED <<git, pipe, client, main, cur, tag, written>>
    /\ erased' = {}

-----------------------------------------------------------------------------
\* RepoCache.

\* Erase for every directory of G that is cached: the LRU loses the pair that
\* the entry points to.  Following the null pointer of an entry crashes.
Erase_KeepsLru(G) ==
    LET found == G \cap DOMAIN cache
    IN /\ cache' = [g \in DOMAIN cache \ found |-> cache[g]]
       /\ lru' = lru
       /\ erased' = {<<g, cache[g]>> : g \in found}
Erase(G) ==
    LET found == G \cap DOMAIN cache
    IN /\ cache' = [g \in DOMAIN cache \ found |-> cache[g]]
       /\ lru' = lru \ {<<g, cache[g]>> : g \in found}
       /\ erased' = {<<g, cache[g]>> : g \in found}

HasNull(G) == \E g \in G \cap DOMAIN cache : cache[g] = Null

Crash ==
    /\ main' = "crashed"
    /\ UNCHANGED <<cache, lru>>
    /\ erased' = {}

\* The pairs Free evicts, given the cutoff.
Expired_All == lru
Expired_OffByOne == {p \in lru : p[2] > Ttl}
Expired == {p \in lru : p[2] >= Ttl}

\* Free: evicts from the front of the LRU.  A pair whose entry is gone is a
\* dangling iterator.
Free ==
    LET out == {p[1] : p \in Expired}
    IN IF out \subseteq DOMAIN cache
       THEN Erase(out) /\ main' = main
       ELSE Crash

\* The directories GitDirs looks at, in that order: with GIT_DIR only the one.
Search(r) == IF r.dir = Relative THEN << >> ELSE IF r.dotgit THEN <<r.dir>> ELSE Path[r.dir]

\* GitDirs finds the first repository on the way up.
FoundAt(r, i) == Search(r)[i] \in git /\ \A k \in 1..(i - 1) : Search(r)[k] \notin git

-----------------------------------------------------------------------------
\* The main thread.

\* ReadRequest has a whole message, and ResponseWriter is made unless the message
\* is malformed: then ReadRequest throws and the loop goes on.
ReadRequest ==
    /\ main = "select"
    /\ pipe # << >>
    /\ cur' = Head(pipe)
    /\ pipe' = Tail(pipe)
    /\ main' = IF Head(pipe) = Malformed THEN "select" ELSE "discover"
    /\ written' = 0
    /\ erased' = {}
    /\ UNCHANGED <<git, client, cache, lru, tag>>

\* read returns 0.
ReadEof ==
    /\ main = "select"
    /\ pipe = << >>
    /\ client = "closed"
    /\ main' = "exited"
    /\ erased' = {}
    /\ UNCHANGED <<git, pipe, client, cur, cache, lru, tag, written>>

Orphaned_Never == FALSE
Orphaned == client = "dead"

\* select times out: the daemon exits if its lock or parent is gone, and frees
\* old repositories otherwise, unless repo_ttl is negative.
SelectTimesOut ==
    /\ main = "select"
    /\ pipe = << >>
    /\ client # "closed"
    /\ IF Orphaned
       THEN main' = "exited" /\ erased' = {} /\ UNCHANGED <<cache, lru>>
       ELSE IF Ttl >= 0 THEN Free
       ELSE main' = main /\ erased' = {} /\ UNCHANGED <<cache, lru>>
    /\ UNCHANGED <<git, pipe, client, cur, tag, written>>

\* What ~ResponseWriter writes when ProcessRequest is left, by a return or an
\* exception: a response if Dump has not written one.
AnswersOnLeave_OnReturn(thrown) == IF thrown THEN 0 ELSE 1
AnswersOnLeave(thrown) == IF written = 0 THEN 1 ELSE 0

\* Open leaves with nullptr or an exception.
NoRepo(thrown) ==
    /\ main' = "select"
    /\ written' = written + AnswersOnLeave(thrown)

\* Open, up to GitDirs: nothing found drops what was cached for the directory.
Discover ==
    /\ main = "discover"
    /\ \/ /\ \E i \in DOMAIN Search(cur) :
                FoundAt(cur, i) /\ cur' = [cur EXCEPT !.dir = Search(cur)[i]]
          /\ main' = "lookup"
          /\ erased' = {}
          /\ UNCHANGED <<written, cache, lru>>
       \/ /\ \A d \in Range(Search(cur)) : d \notin git
          /\ cur' = cur
          /\ IF HasNull(Range(Search(cur)))
             THEN Crash /\ written' = written
             ELSE Erase(Range(Search(cur))) /\ NoRepo(FALSE)
       \/ /\ "discover" \in Faults
          /\ cur.dir # Relative
          /\ NoRepo(TRUE)
          /\ erased' = {}
          /\ UNCHANGED <<cur, cache, lru>>
    /\ UNCHANGED <<git, pipe, client, tag>>

\* The LRU with the entry of g at age 0.
Touched(g) == (lru \ {<<g, cache[g]>>}) \cup {<<g, 0>>}

Hit ==
    LET g == cur.dir
    IN /\ g \in DOMAIN cache
       /\ IF cache[g] = Null
          THEN Crash
          ELSE /\ lru' = Touched(g)
               /\ cache' = [cache EXCEPT ![g] = 0]
               /\ main' = "config"
               /\ erased' = {}
       /\ written' = written

Insert(g, age) == [x \in DOMAIN cache \cup {g} |-> IF x = g THEN age ELSE cache[x]]

\* OpenRepo finds the repository gone or unreadable, or bare.
MissInVain ==
    /\ cur.dir \notin DOMAIN cache
    /\ \/ cur.dir \notin git \cup Bare /\ NoRepo(FALSE)
       \/ cur.dir \in Bare /\ NoRepo(FALSE)
       \/ "open" \in Faults /\ NoRepo(TRUE)
    /\ erased' = {}
    /\ UNCHANGED <<cache, lru>>

Miss ==
    LET g == cur.dir
    IN /\ g \notin DOMAIN cache
       /\ g \in git \ Bare
       /\ \/ /\ cache' = Insert(g, 0)
             /\ lru' = lru \cup {<<g, 0>>}
             /\ main' = "config"
             /\ written' = written
          \/ /\ "odb" \in Faults
             /\ cache' = Insert(g, Null)
             /\ lru' = lru
             /\ NoRepo(TRUE)
       /\ erased' = {}

Lookup ==
    /\ main = "lookup"
    /\ Hit \/ MissInVain \/ Miss
    /\ UNCHANGED <<git, pipe, client, cur, tag>>

\* ProcessRequest up to GetTagName: without a config or a HEAD it leaves.
Config ==
    /\ main = "config"
    /\ \/ main' = "stats" /\ tag' = TRUE /\ written' = written
       \/ "process" \in Faults /\ tag' = tag /\ \E thrown \in BOOLEAN : NoRepo(thrown)
    /\ erased' = {}
    /\ UNCHANGED <<git, pipe, client, cur, cache, lru>>

\* The pool finishes TagForCommit.
TagDone ==
    /\ tag
    /\ tag' = FALSE
    /\ erased' = {}
    /\ UNCHANGED <<git, pipe, client, main, cur, cache, lru, written>>

\* GetIndexStats and the rest: with tag.get the answer is complete and Dump
\* writes it.  What throws on the way leaves the answer to the destructor.
Dump ==
    /\ main = "stats"
    /\ ~tag
    /\ main' = "leave"
    /\ written' = written + 1
    /\ erased' = {}
    /\ UNCHANGED <<git, pipe, client, cur, cache, lru, tag>>

StatsThrow ==
    /\ main = "stats"
    /\ "process" \in Faults
    /\ main' = "leave"
    /\ erased' = {}
    /\ UNCHANGED <<git, pipe, client, cur, cache, lru, tag, written>>

\* Whether ProcessRequest may be left: its ON_SCOPE_EXIT waits for the tag.
MayLeave_Always == TRUE
MayLeave == ~tag

Leave ==
    /\ main = "leave"
    /\ MayLeave
    /\ main' = "select"
    /\ written' = written + AnswersOnLeave(TRUE)
    /\ erased' = {}
    /\ UNCHANGED <<git, pipe, client, cur, cache, lru, tag>>

MainStep ==
    ReadRequest \/ ReadEof \/ SelectTimesOut \/ Discover \/ Lookup \/ Config \/ Dump
    \/ StatsThrow \/ Leave

Next ==
    \/ \E d \in Dirs : GitInit(d) \/ GitRemove(d)
    \/ \E r \in Request \cup {Malformed} : Send(r)
    \/ Hangup
    \/ Tick
    \/ MainStep
    \/ TagDone

Spec == Init /\ [][Next]_vars

\* The main thread runs, the pool finishes its tasks, and time passes.
FairSpec == Spec /\ WF_vars(MainStep) /\ WF_vars(TagDone) /\ WF_vars(Tick)

-----------------------------------------------------------------------------
\* The LRU has exactly one pair for every repository of the cache, with the
\* time of its last use: no iterator dangles and no repository is forgotten.
LruExact == main # "crashed" =>
    lru = {<<g, cache[g]>> : g \in {x \in DOMAIN cache : cache[x] # Null}}

\* Back in the loop, the daemon has written one response for the request it has
\* processed, however that ended.
OneAnswer == main \in {"select", "exited"} /\ cur # NoRequest => written = 1

\* While a pool thread looks for a tag in a repository, that repository is in
\* the cache and in use by the current request: Free and Erase cannot reach it.
TagInsideRequest == tag => main \in {"stats", "leave"} /\ cur.dir \in DOMAIN cache

\* A repository used less than Ttl ago is only dropped when a request finds
\* that it is gone.
RecentKept == [][\A p \in erased' : p[2] >= Ttl \/ p[1] \notin git]_vars

\* The daemon exits only when the shell has closed the pipe or is gone, and
\* never leaves a request in the pipe unread.
ExitsForCause == main = "exited" => client # "open" /\ pipe = << >>

\* Every well-formed request gets its response, even if its repository vanishes
\* or something throws.
RequestAnswered == main = "discover" ~> written = 1

\* When no more requests come, every repository is freed.
IdleFrees == (client = "open" /\ [](pipe = << >> /\ client = "open")) ~> (lru = {})

\* When the shell is gone, so is the daemon, after the requests it was sent.
OrphanExits == client # "open" ~> main = "exited"
=============================================================================
