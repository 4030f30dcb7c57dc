------------------------------- MODULE MCTagDb -------------------------------
(***************************************************************************)
(* Instances of TagDb for TLC: two tags and two commits, so that tags      *)
(* share a commit, move, and hide one another.                             *)
(***************************************************************************)
EXTENDS TagDb, TLC

CommitSymmetry == Permutations(Commits)
=============================================================================
