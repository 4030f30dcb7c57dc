----------------------------- MODULE MCRepoScan -----------------------------
(***************************************************************************)
(* Instances of RepoScan for TLC: two shards, two versions of the index    *)
(* and one or two commits.  The changes are chosen so that a limit of 2 is *)
(* reached in one shard alone, in both shards together, and not at all.    *)
(***************************************************************************)
EXTENDS RepoScan, TLC

CONSTANTS s1, s2, h1, h2, i1, i2

MCShards == {s1, s2}
MCHeads == {h1, h2}
MCIndexes == {i1, i2}

Delta(a, d, m, c) == [added |-> a, deleted |-> d, modified |-> m, conflicted |-> c]

\* Against h1, i1 has changes of every kind in both shards and i2 a single new
\* file; h2 is a commit that has i2 for its tree.
MCStagedDeltas ==
    h1 :> (i1 :> (s1 :> Delta(1, 0, 1, 1) @@ s2 :> Delta(0, 1, 0, 1)) @@
           i2 :> (s1 :> Delta(1, 0, 0, 0) @@ s2 :> Delta(0, 0, 0, 0))) @@
    h2 :> (i1 :> (s1 :> Delta(0, 0, 0, 0) @@ s2 :> Delta(0, 0, 1, 0)) @@
           i2 :> (s1 :> Delta(0, 0, 0, 0) @@ s2 :> Delta(0, 0, 0, 0)))

Entry(a, i, w) == [all |-> a, intentToAdd |-> i, skipWorktree |-> w]

\* i2 is larger than dirtyMaxIndexSize.
MCEntries ==
    i1 :> (s1 :> Entry(2, 1, 1) @@ s2 :> Entry(1, 0, 1)) @@
    i2 :> (s1 :> Entry(2, 0, 0) @@ s2 :> Entry(2, 0, 1))

Tree(u, d, m) == [untracked |-> u, deleted |-> d, modified |-> m]

MCTrees ==
    {s1 :> Tree(0, 0, 0) @@ s2 :> Tree(0, 0, 0),
     s1 :> Tree(1, 1, 0) @@ s2 :> Tree(1, 0, 1)}

\* The instance with faults: one commit, one index, one change of each scan.
FewHeads == {h1}
FewIndexes == {i1}
FewStagedDeltas ==
    h1 :> (i1 :> (s1 :> Delta(1, 0, 0, 0) @@ s2 :> Delta(0, 0, 0, 0)))
FewTrees == {s1 :> Tree(0, 0, 0) @@ s2 :> Tree(0, 0, 1)}

MCLimits ==
    [staged |-> 2, conflicted |-> 1, unstaged |-> 1, untracked |-> 1, dirtyMaxIndexSize |-> 3]
=============================================================================
