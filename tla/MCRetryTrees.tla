---------------------------- MODULE MCRetryTrees ----------------------------
(* An instance of RetryTrees for TLC: retry durations, one of them negative. *)
EXTENDS RetryTrees

PastToLate == {-1, 1, 2}
=============================================================================
