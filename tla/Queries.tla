------------------------------- MODULE Queries -------------------------------
(***************************************************************************)
(* What a request asks libgit2 (git.cc), in the order of ProcessRequest    *)
(* (gitstatus.cc): HEAD, its branch and commit, the upstream and the push  *)
(* remote of the branch with the commits ahead and behind, the state of a  *)
(* merge or rebase, and the stashes.  A question is a step, and a count of *)
(* commits one step for every reference it reads, for git may commit,      *)
(* switch, fetch or rebase between any two.  git_repository_state and      *)
(* git_stash_foreach stay one step each: only AtRest speaks of the action, *)
(* and the number of stashes is that of the last file read.  The index and *)
(* the tag are in RepoScan and TagDb, and the failures of libgit2 in       *)
(* Daemon.                                                                 *)
(*                                                                         *)
(* A reference is the sequence of the components of its name behind refs/, *)
(* a commit a number, and 0 is none.  The names of remotes are sequences   *)
(* too, for they may contain slashes.                                      *)
(***************************************************************************)
EXTENDS Integers, Sequences, FiniteSets, SequencesExt

CONSTANTS
    History,        \* the parents of each commit, which are smaller
    GitRefs,        \* references there may be
    Remotes,        \* names of remotes
    Upstreams,      \* upstreams a branch may have: a remote and a reference
    MaxGitChanges   \* bound: what git does during a request

GitCommits == DOMAIN History
Here == << >>        \* the remote "."
NoRef == << >>
NoUpstream == [remote |-> Here, ref |-> NoRef]

ASSUME QueriesAssumption ==
    /\ GitCommits \subseteq Nat \ {0}
    /\ \A c \in GitCommits : History[c] \subseteq {p \in GitCommits : p < c}
    /\ GitRefs \subseteq Seq(STRING) \ {NoRef} /\ Remotes \subseteq Seq(STRING)
    /\ Upstreams \subseteq [remote : Remotes \cup {Here}, ref : GitRefs]
    /\ Here \notin Remotes /\ MaxGitChanges \in Nat

VARIABLES
    repo,           \* what git has in its directory
    upstream,       \* the upstream of a branch, by the config
    push_upstream,  \* where git would push it
    asking,         \* where ProcessRequest is
    walk,           \* of a count: the end that was found, and where HEAD leads
    ans,            \* what it has found
    past            \* history: what git has had since the request began, in order

queryVars == <<repo, upstream, push_upstream, asking, walk, ans, past>>

\* A local branch: git_reference_is_branch.
IsBranch(r) == r # NoRef /\ r[1] = "heads" /\ Len(r) > 1
Branches == {r \in GitRefs : IsBranch(r)}

NoRebase == [dir |-> "none", next |-> 0, last |-> 0]
NoWalk == [from |-> 0, via |-> NoRef]
NoRemote == [name |-> Here, branch |-> << >>, ref |-> NoRef]
Nothing ==
    [symbolic |-> NoRef, target |-> 0, local |-> << >>, remote |-> NoRemote, ahead |-> 0, behind |-> 0,
     dir |-> "none", next |-> 0, last |-> 0, action |-> "none", stashes |-> 0,
     push |-> NoRemote, push_ahead |-> 0, push_behind |-> 0]

\* HEAD is a symbolic reference, or detached at a commit, or missing.
HeadRefs ==
    {[ref |-> r, commit |-> 0] : r \in GitRefs} \cup {[ref |-> NoRef, commit |-> c] : c \in GitCommits \cup {0}}

\* Of a rebase, HEAD is detached, and the files may not be there yet.
Rebases ==
    {NoRebase} \cup [dir : {"rebase-merge", "rebase-apply"}, next : 0..1, last : {0, 2}]

QueriesInit ==
    /\ \E head \in HeadRefs, tips \in [GitRefs -> GitCommits \cup {0}], rebase \in Rebases :
         /\ rebase # NoRebase => head.ref = NoRef
         /\ repo = [head |-> head, tips |-> tips, rebase |-> rebase, merging |-> FALSE, stashes |-> 0]
    /\ upstream \in [Branches -> Upstreams \cup {NoUpstream}]
    /\ push_upstream \in [Branches -> Upstreams \cup {NoUpstream}]
    /\ asking = "head" /\ walk = NoWalk /\ ans = Nothing /\ past = <<repo>>

-----------------------------------------------------------------------------
\* git, beside the request.

GitWrites(r) ==
    /\ asking \notin {"done", "left", "threw"} /\ Len(past) <= MaxGitChanges
    /\ r # repo /\ repo' = r /\ past' = Append(past, r)
    /\ UNCHANGED <<upstream, push_upstream, asking, walk, ans>>

\* A commit, a reset or a fetch moves a reference, or prunes it.
MoveRef(r, c) == GitWrites([repo EXCEPT !.tips[r] = c])
Checkout(h) == GitWrites([repo EXCEPT !.head = h])
Merge == GitWrites([repo EXCEPT !.merging = ~@])
Stash == GitWrites([repo EXCEPT !.stashes = 1 - @])

\* The directory first, then its files, one by one.
Rebase ==
    \/ \E d \in {"rebase-merge", "rebase-apply"} :
         repo.rebase.dir = "none" /\ GitWrites([repo EXCEPT !.rebase.dir = d])
    \/ /\ repo.rebase.dir # "none"
       /\ \/ \E k \in {"next", "last"} : repo.rebase[k] < 2 /\ GitWrites([repo EXCEPT !.rebase[k] = @ + 1])
          \/ GitWrites([repo EXCEPT !.rebase = NoRebase])

-----------------------------------------------------------------------------
\* The request.  It leaves or throws with no answer but the 0 of ResponseWriter.

Step(from, to, found) ==
    /\ asking = from /\ asking' = to /\ ans' = found
    /\ UNCHANGED <<repo, upstream, push_upstream, walk, past>>

\* Head: the reference, which may be symbolic, and then what it leads to.
LookupHead ==
    \/ repo.head.ref = NoRef /\ repo.head.commit = 0 /\ Step("head", "left", ans)
    \/ /\ repo.head.ref # NoRef \/ repo.head.commit # 0
       /\ Step("head", "resolve", [ans EXCEPT !.symbolic = repo.head.ref, !.target = repo.head.commit])

ResolveHead ==
    Step("resolve", "config",
         IF ans.symbolic = NoRef THEN ans ELSE [ans EXCEPT !.target = repo.tips[ans.symbolic]])

\* LocalBranchName, of a direct reference or a symbolic one.
LocalBranchName == IF IsBranch(ans.symbolic) THEN Tail(ans.symbolic) ELSE << >>

\* git_branch_remote takes the name of a branch: a symbolic HEAD is not one.
ConfigOf(conf) ==
    IF ans.target # 0 /\ IsBranch(ans.symbolic) THEN conf[ans.symbolic] ELSE NoUpstream

HasBranchName(r) == r[1] \in {"heads", "remotes"}
BranchWithin(r, remote) == SubSeq(r, 2 + Len(remote), Len(r))

RemoteConfig ==
    LET u == ConfigOf(upstream)
    IN  Step("config", IF u = NoUpstream THEN "merge dir" ELSE "lookup",
             [ans EXCEPT !.local = LocalBranchName,
                         !.remote = [NoRemote EXCEPT !.name = u.remote, !.ref = u.ref]])

\* The branch without the name of its remote, which it must begin with.
LookupRemote ==
    /\ asking = "lookup"
    /\ LET r == ans.remote
           named == HasBranchName(r.ref)
           fits == named => IsStrictPrefix(r.name, Tail(r.ref))
           found == [r EXCEPT !.branch = IF named THEN BranchWithin(r.ref, r.name) ELSE << >>]
       IN  \/ repo.tips[r.ref] = 0 /\ Step("lookup", "merge dir", [ans EXCEPT !.remote = NoRemote])
           \/ repo.tips[r.ref] # 0 /\ fits /\ Step("lookup", "merge dir", [ans EXCEPT !.remote = found])
           \/ repo.tips[r.ref] # 0 /\ ~fits /\ Step("lookup", "threw", ans)

\* RepoState: the directory, the two files in it, and then git_repository_state.
OpenMergeDir ==
    \/ repo.rebase.dir = "rebase-merge" /\ Step("merge dir", "next", [ans EXCEPT !.dir = "rebase-merge"])
    \/ repo.rebase.dir # "rebase-merge" /\ Step("merge dir", "apply dir", ans)
OpenApplyDir ==
    \/ repo.rebase.dir = "rebase-apply" /\ Step("apply dir", "next", [ans EXCEPT !.dir = "rebase-apply"])
    \/ repo.rebase.dir # "rebase-apply" /\ Step("apply dir", "state", ans)

ReadFile(file) == IF repo.rebase.dir = ans.dir THEN repo.rebase[file] ELSE 0
ReadNext == Step("next", "last", [ans EXCEPT !.next = ReadFile("next")])
ReadLast == Step("last", "state", [ans EXCEPT !.last = ReadFile("last")])

Action(s) == IF s.rebase.dir # "none" THEN s.rebase.dir ELSE IF s.merging THEN "merge" ELSE "none"
RepoState ==
    LET both == ans.next # 0 /\ ans.last # 0
    IN  Step("state", IF ans.remote = NoRemote THEN "stash" ELSE "ahead",
             [ans EXCEPT !.action = Action(repo), !.next = IF both THEN @ ELSE 0, !.last = IF both THEN @ ELSE 0])

\* CountRange: commits of the second that are not in the history of the first.
Reach[c \in GitCommits] == {c} \cup UNION {Reach[p] : p \in History[c]}
CountRange(a, b) == Cardinality(Reach[b] \ Reach[a])

\* "ref..HEAD" and "HEAD..ref": git_revwalk_push_range looks its ends up from
\* left to right, and HEAD is looked up again.
Counting == {"ahead", "behind", "push ahead", "push behind"}
RangeRef == IF asking \in {"ahead", "behind"} THEN ans.remote.ref ELSE ans.push.ref
AtHead == asking \in {"ahead", "push ahead"} <=> walk.from # 0

AfterCount ==
    CASE asking = "ahead" -> "behind" [] asking = "behind" -> "stash"
      [] asking = "push ahead" -> "push behind" [] OTHER -> "done"
Counted(n) ==
    CASE asking = "ahead" -> [ans EXCEPT !.ahead = n] [] asking = "behind" -> [ans EXCEPT !.behind = n]
      [] asking = "push ahead" -> [ans EXCEPT !.push_ahead = n] [] OTHER -> [ans EXCEPT !.push_behind = n]

\* One end is a commit, or the request throws.  Behind the second come only
\* objects, which do not change.
EndFound(c) ==
    /\ UNCHANGED <<repo, upstream, push_upstream, past>>
    /\ \/ c = 0 /\ asking' = "threw" /\ walk' = NoWalk /\ ans' = ans
       \/ c # 0 /\ walk.from = 0 /\ walk' = [from |-> c, via |-> NoRef] /\ UNCHANGED <<asking, ans>>
       \/ /\ c # 0 /\ walk.from # 0
          /\ asking' = AfterCount /\ walk' = NoWalk /\ ans' = Counted(CountRange(walk.from, c))

\* The end that is a reference, and HEAD, which may name one.
LookupRef == asking \in Counting /\ ~AtHead /\ EndFound(repo.tips[RangeRef])
LookupHeadAgain ==
    /\ asking \in Counting /\ AtHead /\ walk.via = NoRef
    /\ \/ repo.head.ref = NoRef /\ EndFound(repo.head.commit)
       \/ /\ repo.head.ref # NoRef /\ walk' = [walk EXCEPT !.via = repo.head.ref]
          /\ UNCHANGED <<repo, upstream, push_upstream, asking, ans, past>>
FollowHead_Known ==
    /\ asking \in Counting /\ AtHead /\ walk.via # NoRef
    /\ EndFound(IF walk.via = ans.symbolic THEN ans.target ELSE repo.tips[walk.via])
FollowHead == asking \in Counting /\ AtHead /\ walk.via # NoRef /\ EndFound(repo.tips[walk.via])

NumStashes == Step("stash", "push config", [ans EXCEPT !.stashes = repo.stashes])

\* GetPushRemote, which gives no branch.
PushConfig ==
    LET u == ConfigOf(push_upstream)
    IN  Step("push config", IF u = NoUpstream THEN "done" ELSE "push lookup",
             [ans EXCEPT !.push = [NoRemote EXCEPT !.name = u.remote, !.ref = u.ref]])
LookupPush ==
    /\ asking = "push lookup"
    /\ \/ repo.tips[ans.push.ref] = 0 /\ Step("push lookup", "done", [ans EXCEPT !.push = NoRemote])
       \/ repo.tips[ans.push.ref] # 0 /\ Step("push lookup", "push ahead", ans)

Asks ==
    \/ LookupHead \/ ResolveHead \/ RemoteConfig \/ LookupRemote
    \/ OpenMergeDir \/ OpenApplyDir \/ ReadNext \/ ReadLast \/ RepoState
    \/ LookupRef \/ LookupHeadAgain \/ FollowHead \/ NumStashes \/ PushConfig \/ LookupPush

QueriesNext ==
    \/ \E r \in GitRefs, c \in GitCommits \cup {0} : MoveRef(r, c)
    \/ \E h \in HeadRefs : Checkout(h)
    \/ Merge \/ Stash \/ Rebase
    \/ Asks

QueriesSpec == QueriesInit /\ [][QueriesNext]_queryVars

-----------------------------------------------------------------------------
(***************************************************************************)
(* The moments of a request are the positions of past.  What an answer     *)
(* says was read at moments that never go back, but not at one: Since...   *)
(* is the set of moments by which the answer so far may have been read.    *)
(***************************************************************************)
NotBefore(S, T) == {n \in T : \E m \in S : m <= n}

HeadSeen(p, ref, c) ==
    IF ref = NoRef THEN {n \in DOMAIN p : p[n].head = [ref |-> NoRef, commit |-> c]}
    ELSE NotBefore({n \in DOMAIN p : p[n].head.ref = ref}, {n \in DOMAIN p : p[n].tips[ref] = c})
RemoteSeen(p, S, remote) ==
    IF remote = NoRemote THEN S ELSE NotBefore(S, {n \in DOMAIN p : p[n].tips[remote.ref] # 0})
NextSeen(p, S, dir, k) ==
    IF k = 0 THEN S ELSE NotBefore(S, {n \in DOMAIN p : p[n].rebase.dir = dir /\ p[n].rebase.next = k})
LastSeen(p, S, dir, k) ==
    IF k = 0 THEN S ELSE NotBefore(S, {n \in DOMAIN p : p[n].rebase.dir = dir /\ p[n].rebase.last = k})
StashesSeen(p, S, k) == NotBefore(S, {n \in DOMAIN p : p[n].stashes = k})

\* HEAD and then the tip of its branch, read in the moments i and j.
HeadAt(p, i, j) == IF p[i].head.ref = NoRef THEN p[i].head.commit ELSE p[j].tips[p[i].head.ref]

\* How many commits of a are not of b.
OnlyIn(a, b) == Cardinality({c \in Reach[a] : c \notin Reach[b]})

AheadSeen(p, S, ref, count) ==
    {k \in DOMAIN p : \E i, j \in DOMAIN p :
        /\ \E m \in S : m <= i /\ i <= j /\ j <= k
        /\ p[i].tips[ref] # 0 /\ HeadAt(p, j, k) # 0 /\ count = OnlyIn(HeadAt(p, j, k), p[i].tips[ref])}
BehindSeen(p, S, ref, count) ==
    {k \in DOMAIN p : \E i, j \in DOMAIN p :
        /\ \E m \in S : m <= i /\ i <= j /\ j <= k
        /\ p[k].tips[ref] # 0 /\ HeadAt(p, i, j) # 0 /\ count = OnlyIn(p[k].tips[ref], HeadAt(p, i, j))}
CountsSeen(p, S, remote, ahead, behind) ==
    IF remote = NoRemote THEN IF ahead = 0 /\ behind = 0 THEN S ELSE {}
    ELSE BehindSeen(p, AheadSeen(p, S, remote.ref, ahead), remote.ref, behind)

SinceHead == HeadSeen(past, ans.symbolic, ans.target)
SinceRemote == RemoteSeen(past, SinceHead, ans.remote)
SinceNext == NextSeen(past, SinceRemote, ans.dir, ans.next)
SinceLast == LastSeen(past, SinceNext, ans.dir, ans.last)
SinceCounts == CountsSeen(past, SinceLast, ans.remote, ans.ahead, ans.behind)
SinceStashes == StashesSeen(past, SinceCounts, ans.stashes)
SincePush == RemoteSeen(past, SinceStashes, ans.push)
SincePushCounts == CountsSeen(past, SincePush, ans.push, ans.push_ahead, ans.push_behind)

\* A remote is the one of the branch of the answer, whatever HEAD is by now.
RemoteRight(conf, remote) ==
    remote # NoRemote =>
        /\ IsBranch(ans.symbolic) /\ ans.target # 0
        /\ conf[ans.symbolic] = [remote |-> remote.name, ref |-> remote.ref]

\* The name of the remote and of its branch make the name of the reference.
BranchRight(remote) ==
    remote.branch # << >> => remote.ref = <<remote.ref[1]>> \o remote.name \o remote.branch

\* While HEAD, the tip of its branch and the reference of the remote rest, the
\* counts are those of the commit in the answer, whatever else git writes.
Rests(ref) ==
    \A n \in DOMAIN past :
        /\ past[n].head = past[1].head /\ past[n].tips[ref] = past[1].tips[ref]
        /\ HeadAt(past, 1, n) = HeadAt(past, 1, 1)
CountsRight(remote, ahead, behind) ==
    remote # NoRemote /\ Rests(remote.ref) =>
        LET tip == past[1].tips[remote.ref]
        IN  ahead = OnlyIn(ans.target, tip) /\ behind = OnlyIn(tip, ans.target)

\* If nothing happens, the request has no answer only for want of a HEAD, or if
\* the upstream is a branch of a remote in whose name its own does not begin;
\* and there are steps only of an action.
AtRest ==
    /\ asking = "left" => repo.head.ref = NoRef /\ repo.head.commit = 0
    /\ asking = "threw" => LET u == upstream[repo.head.ref]
                       IN  HasBranchName(u.ref) /\ ~IsStrictPrefix(<<u.ref[1]>> \o u.remote, u.ref)
    /\ asking = "done" /\ ans.next # 0 => ans.action # "none"

(* An answer mixes moments, for git may write between any two reads, but   *)
(* never goes back: HEAD, its commit, the upstream, the steps of a rebase, *)
(* the counts, the stashes and the push remote are what reads in this      *)
(* order found, each by name, no earlier than the one before.  The remotes *)
(* are of the branch that is answered, steps come in pairs, and while HEAD *)
(* and the references rest the counts are of the commit that is answered.  *)
(* If git rests altogether every request is answered that can be.          *)
QueriesExact ==
    /\ asking = "done" =>
          /\ SincePushCounts # {}
          /\ ans.local # << >> => ans.symbolic = <<"heads">> \o ans.local
          /\ (ans.next = 0) = (ans.last = 0)
          /\ BranchRight(ans.remote) /\ RemoteRight(upstream, ans.remote) /\ RemoteRight(push_upstream, ans.push)
          /\ CountsRight(ans.remote, ans.ahead, ans.behind)
          /\ CountsRight(ans.push, ans.push_ahead, ans.push_behind)
    /\ Len(past) = 1 => AtRest
=============================================================================
