------------------------------- MODULE JobReports ------------------------------
(***************************************************************************)
(* What the remote API may be told about one job, whatever goroutines act  *)
(* on it: the contract that Job implements.                                *)
(*                                                                         *)
(* A job starts at most once.  A stop (Cancel or Timeout) is reported only *)
(* for a job that is not in a terminal status.  A stopped job can still    *)
(* be reported RUNNING when the stop met the job between Run's check and   *)
(* cmd.Start, and still be reported SUCCESS when the stop came after its   *)
(* command ended well; nothing overturns SUCCESS or ERROR.                 *)
(***************************************************************************)
EXTENDS JobStatus

VARIABLES view,      \* the status in the last report, PENDING before any
          started    \* a "run" report was made

ReportVars == <<view, started>>

ReportInit == view = PENDING /\ started = FALSE

Start ==
  /\ ~started
  /\ view \in {PENDING} \cup StoppedStatuses
  /\ view' = RUNNING
  /\ started' = TRUE

Stop ==
  /\ view \in {PENDING, RUNNING}
  /\ view' \in StoppedStatuses
  /\ UNCHANGED started

Fail ==
  /\ view \in {PENDING, RUNNING}
  /\ view' = ERROR
  /\ UNCHANGED started

Succeed ==
  /\ started
  /\ view \in {RUNNING} \cup StoppedStatuses
  /\ view' = SUCCESS
  /\ UNCHANGED started

ReportNext == Start \/ Stop \/ Fail \/ Succeed

ReportSpec == ReportInit /\ [][ReportNext]_ReportVars
================================================================================
