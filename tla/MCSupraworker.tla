----------------------------- MODULE MCSupraworker -----------------------------
(***************************************************************************)
(* Instances of Supraworker for TLC.  The jobs have keys of their own or   *)
(* share one; with a single key they have to share it.                     *)
(***************************************************************************)
EXTENDS Supraworker, TLC

Symmetry == Permutations(Workers) \cup Permutations(Keys)
================================================================================
