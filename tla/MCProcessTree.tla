----------------------------- MODULE MCProcessTree -----------------------------
(***************************************************************************)
(* Instances of ProcessTree for TLC: a host whose few pids are given again *)
(* after a few forks, so that a child may have a lower pid than its parent *)
(* and a pid may change hands while the list is read.                      *)
(***************************************************************************)
EXTENDS ProcessTree
================================================================================
