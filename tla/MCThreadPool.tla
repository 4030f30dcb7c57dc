---------------------------- MODULE MCThreadPool ----------------------------
(***************************************************************************)
(* An instance of ThreadPool for TLC, with its fairness.                   *)
(***************************************************************************)
EXTENDS ThreadPool
=============================================================================
