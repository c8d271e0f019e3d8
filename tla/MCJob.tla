--------------------------------- MODULE MCJob ---------------------------------
(***************************************************************************)
(* Instances of Job for TLC: two callers that may stop the job at the same *)
(* time as its worker and TimeoutWithCancel's goroutine.                   *)
(***************************************************************************)
EXTENDS JobInvariants
================================================================================
