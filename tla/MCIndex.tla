------------------------------- MODULE MCIndex -------------------------------
(***************************************************************************)
(* Instances of the parts a request is built from: the shards, the tree of *)
(* an Index, the listing and the scan of a directory, what the tasks that  *)
(* scan give back, the check of mtimes, the arenas, the files of tags, the *)
(* messages, and the questions to libgit2.  They share no state: a         *)
(* behaviour runs one of them, part, and the others keep one initial       *)
(* state.                                                                  *)
(***************************************************************************)
EXTENDS Shards, IndexTree, DirScan, MtimeCheck, Arena, TagRefs, Messages, Queries, Listing, Collect, TLC

CONSTANTS Parts, a, A, ab, b, x

VARIABLE part

\* References of the queries: a branch, the one of its remote, and another.
QueryMain == <<"heads", "m">>
QueryRemote == <<"remotes", "o", "m">>
QueryNotes == <<"notes", "n">>

vars == <<part, shardsVars, treeVars, dirVars, checkVars, arenaVars, refsVars, msgVars, queryVars, listVars, collectVars>>

Init ==
    /\ part \in Parts
    /\ part # "dir" => shows = {} /\ untracked_cache_ = "unknown"
    /\ part # "mtime" => fs = {"dir"}
    /\ part # "tags" => first_line = "none" /\ ending = [cr |-> FALSE, last |-> "whole"]
    /\ part # "queries" =>
          /\ repo = [head |-> [ref |-> QueryMain, commit |-> 0], tips |-> [r \in GitRefs |-> 1],
                     rebase |-> NoRebase, merging |-> FALSE, stashes |-> 0]
          /\ upstream = [r \in Branches |-> NoUpstream] /\ push_upstream = upstream
    /\ ShardsInit /\ TreeInit /\ DirInit /\ CheckInit /\ ArenaInit /\ RefsInit /\ MsgInit
    /\ part # "listing" => case_sensitive = TRUE /\ listed = {}
    /\ ListInit /\ CollectInit /\ QueriesInit
    /\ QueryNotes \in GitRefs => repo.tips[QueryNotes] = 1
    /\ LET u == upstream[QueryMain]
           p == push_upstream[QueryMain]
       IN  (NoUpstream \in {u, p} \/ u = p) /\ (repo.head.ref # QueryMain => u = p /\ u = NoUpstream)

\* Git writes twice only where HEAD is a branch with an upstream in a remote.
SecondWrite ==
    Len(past') > 2 =>
        /\ past[1].head.ref = QueryMain /\ past[1].rebase = NoRebase
        /\ upstream[QueryMain] = [remote |-> <<"o">>, ref |-> QueryRemote]
        /\ push_upstream[QueryMain] = NoUpstream

Next ==
    /\ UNCHANGED part
    /\ \/ part = "shards" /\ ShardsNext /\ UNCHANGED <<treeVars, dirVars, checkVars, arenaVars, refsVars, msgVars, queryVars, listVars, collectVars>>
       \/ part = "tree" /\ TreeNext /\ UNCHANGED <<shardsVars, dirVars, checkVars, arenaVars, refsVars, msgVars, queryVars, listVars, collectVars>>
       \/ part = "dir" /\ DirNext /\ UNCHANGED <<shardsVars, treeVars, checkVars, arenaVars, refsVars, msgVars, queryVars, listVars, collectVars>>
       \/ part = "mtime" /\ CheckNext /\ UNCHANGED <<shardsVars, treeVars, dirVars, arenaVars, refsVars, msgVars, queryVars, listVars, collectVars>>
       \/ part = "arena" /\ ArenaNext /\ UNCHANGED <<shardsVars, treeVars, dirVars, checkVars, refsVars, msgVars, queryVars, listVars, collectVars>>
       \/ part = "tags" /\ RefsNext /\ UNCHANGED <<shardsVars, treeVars, dirVars, checkVars, arenaVars, msgVars, queryVars, listVars, collectVars>>
       \/ part = "messages" /\ MsgNext /\ UNCHANGED <<shardsVars, treeVars, dirVars, checkVars, arenaVars, refsVars, queryVars, listVars, collectVars>>
       \/ part = "queries" /\ QueriesNext /\ SecondWrite /\ UNCHANGED <<shardsVars, treeVars, dirVars, checkVars, arenaVars, refsVars, msgVars, listVars, collectVars>>
       \/ part = "listing" /\ ListNext /\ UNCHANGED <<shardsVars, treeVars, dirVars, checkVars, arenaVars, refsVars, msgVars, queryVars, collectVars>>
       \/ part = "collect" /\ CollectNext /\ UNCHANGED <<shardsVars, treeVars, dirVars, checkVars, arenaVars, refsVars, msgVars, queryVars, listVars>>

Spec == Init /\ [][Next]_vars

-----------------------------------------------------------------------------
\* - . / A a b, by their codes.
ShardChars == {45, 46, 47, 65, 97, 98}
ShardLower == [c \in ShardChars |-> IF c = 65 THEN 97 ELSE c]
ShardPaths == { <<97, 46, 98>>, <<97, 47, 98>>, <<97, 47, 98, 47, 97>>, <<65, 47, 98>>, <<98, 47, 97>> }

\* The names of a tree: a and A are one where case is ignored, and ab is
\* "a.b", which is behind "a" but in front of "a/".
TreeNames == {a, A, ab, b, x}
TreeFolded == [n \in TreeNames |-> IF n = A THEN a ELSE n]
TreeNameRank == (a :> 1) @@ (A :> 1) @@ (ab :> 2) @@ (b :> 5) @@ (x :> 7)
TreeDirRank == (ab :> 3) @@ (a :> 4) @@ (A :> 4) @@ (b :> 6) @@ (x :> 8)
TreeFiles ==
    { <<a>>, <<a, b, x>>, <<A, b>>, <<A, ab, x>>, <<ab, x>>, <<b, x>>, <<b, ab>>,
      <<b, a, b, x>>, <<a, b, b, x>> }

\* Directories of equal weight, and one that is lighter.
SplitsFiles == { <<x>>, <<a, x>>, <<a, b, x>>, <<a, b, b, x>> }

DirFileSystems == { {"file", "dir"}, {"dir"}, {} }
MtimeFsKinds == {{"file", "dir"}, {"file"}, {"dir"}}

\* Tags 1, 3 and 4, of which 3 is in the directory 2; objects 1 and 2 are
\* commits, 3 is a tag of 2 and 4 one of 3.
TagDirOf == 3 :> 2
TagTargets == (3 :> 2) @@ (4 :> 3)

\* The bytes a, b, '.' and A.  Names of less than a word, of one, and of more,
\* which differ in the first word or behind it.
ListLower == [c \in 1..7 |-> IF c = 4 THEN 1 ELSE c]
ListNames ==
    { <<3>>, <<3, 3>>, <<1>>, <<2>>, <<1, 2>>, <<4, 2>>,
      <<1, 1, 1, 1>>, <<1, 1, 1, 1, 1>>, <<1, 1, 1, 1, 2>> }

\* Two paths that differ only in case, and one behind them.
CollectRank == <<1, 1, 2>>

\* Requests with and without each field, well formed or not, by the codes of
\* their characters, and fields with and without separators.
MsgRequests ==
    { << >>, <<97>>, <<97, 31, 97>>, <<31, 58>>, <<7, 31, 58, 97, 31, 48>>,
      <<97, 31, 97, 31, 49>>, <<31, 97, 31, 97>>, <<31, 97, 31, 48, 31>> }
MsgFields == { << >>, <<97, 31, 30>> }

\* Two commits of one parent.  An upstream may be in the same repository, have
\* a reference that is no branch, or one in the name of another remote.
QueryHistory == (1 :> {}) @@ (2 :> {1}) @@ (3 :> {1})
QueryRefs == {QueryMain, QueryRemote, QueryNotes}
QueryRemotes == {<<"o">>, <<"o", "m">>}
QueryUpstreams ==
    { [remote |-> << >>, ref |-> QueryMain], [remote |-> <<"o">>, ref |-> QueryRemote],
      [remote |-> <<"o", "m">>, ref |-> QueryRemote], [remote |-> <<"o">>, ref |-> QueryNotes] }
===============================================================================
