------------------------------- MODULE JobStatus -------------------------------
(***************************************************************************)
(* The statuses of a job (model/vars.go) and the two classifications that  *)
(* every operation of model/job.go goes through.                           *)
(***************************************************************************)

PENDING  == "PENDING"
RUNNING  == "RUNNING"      \* JOB_STATUS_IN_PROGRESS
SUCCESS  == "SUCCESS"
RUN_OK   == "RUN_OK"
RUN_FAILED == "RUN_FAILED"
ERROR    == "ERROR"
CANCELED == "CANCELED"
TIMEOUT  == "TIMEOUT"

TerminalStatuses == {ERROR, CANCELED, SUCCESS, TIMEOUT}

Statuses == TerminalStatuses \cup {PENDING, RUNNING, RUN_OK, RUN_FAILED}

IsTerminalStatus(s) == s \in TerminalStatuses

\* The statuses of a job whose execution was stopped from outside.
StoppedStatuses == {CANCELED, TIMEOUT}

\* GetPreviousStatus: RUN_OK and RUN_FAILED stay inside the process, the API is
\* told RUNNING instead.
Visible(s) == IF s \in {RUN_OK, RUN_FAILED} THEN RUNNING ELSE s
================================================================================
