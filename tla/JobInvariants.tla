----------------------------- MODULE JobInvariants -----------------------------
(***************************************************************************)
(* Where a job can be at each point of its worker's way: the invariant     *)
(* that is inductive for Job and implies its safety properties.            *)
(***************************************************************************)
EXTENDS Job

\* The worker has not reached cmd.Start; it is between there and the end of
\* runcmd; the process is behind it.
BeforeStart == {"queued", "once", "pipes", "start"}
InCommand   == {"starting", "wait", "final", "stopLogs"}
AfterCommand == {"return", "finish", "failed", "awaitTimeout", "cancel", "stop",
                 "kill", "signal", "done"}

\* Run() is about to return, or has returned, nil.
Succeeding == pc[Worker] = "finish" \/ (pc[Worker] = "return" /\ result = "ok")

\* Run() is about to return, or has returned, an error that is neither the
\* cancellation nor the timeout.
Failing ==
  \/ pc[Worker] = "failed"
  \/ pc[Worker] = "return" /\ result \in {"failed", "notStarted"}

\* Run() is about to return ErrorJobCancelled, or the worker calls Cancel.
Cancelling ==
  \/ pc[Worker] \in {"cancel", "stop", "kill", "signal"}
  \/ pc[Worker] = "return" /\ result = "cancelled"

\* The API knows the status, up to RUN_OK and RUN_FAILED.
Told == LastReported = Visible(status)

\* Whoever stops the job, its status stays close to its worker's progress.
StatusByPhase ==
  /\ pc[Worker] \in BeforeStart => status \in {PENDING} \cup StoppedStatuses /\ ~HasRun
  /\ pc[Worker] \in InCommand => status \in {RUNNING} \cup StoppedStatuses /\ HasRun
  /\ Succeeding => status \in {RUN_OK} \cup StoppedStatuses /\ HasRun

ReportInv == Told /\ ReportsChain /\ StatusByPhase

\* TimeoutWithCancel's goroutine runs once, when the worker waits for it or has
\* given it up, and leaves the job in a terminal status.
TimeouterPhase ==
  /\ pc[Timeouter] \in {"idle", "timeout", "stop", "kill", "signal", "send", "done"}
  /\ pc[Timeouter] # "idle" => pc[Worker] \in {"awaitTimeout", "done"}
  /\ pc[Worker] = "awaitTimeout" => pc[Timeouter] # "idle"
  /\ pc[Timeouter] \notin {"idle", "timeout"} => IsTerminalStatus(status)

VerdictInv ==
  /\ pc[Worker] \in WorkerPC
  /\ Cancelling => status = CANCELED
  /\ pc[Worker] = "done" => IsTerminalStatus(status) \/ pc[Timeouter] = "timeout"
  /\ TimeouterPhase

ProcByPhase ==
  /\ pc[Worker] \in BeforeStart => proc = "none" /\ ~alreadyStopped
  /\ pc[Worker] = "starting" => proc \in {"none", "running", "zombie"}
  /\ pc[Worker] = "wait" => proc \in {"running", "zombie", "reaping"}
  /\ pc[Worker] \in {"final", "stopLogs"} => proc = "reaped"
  /\ pc[Worker] \in AfterCommand => proc \in {"none", "reaped"}

\* A process that outlives the stop of its job has its killer on the way.
KillerOnTheWay ==
  /\ alreadyStopped /\ proc = "running" => \E p \in Threads : pc[p] = "kill"
  /\ status \in StoppedStatuses /\ proc = "running" =>
       \E p \in Threads : pc[p] \in {"stop", "kill"}

ProcInv == ProcByPhase /\ KillerOnTheWay

EndedWell == exit = "ok" /\ proc = "reaped"

ResultInv ==
  /\ status \in {SUCCESS, ERROR} => pc[Worker] = "done"
  /\ pc[Worker] = "return" => result # "none"
  /\ Succeeding => EndedWell
  /\ Failing => IsTerminalStatus(status) \/ ~EndedWell
  /\ SuccessIsEarned

\* The whole of it: it holds in every reachable state and every step of the
\* job, of its callers and of its process preserves it.
JobInv ==
  TypeOK /\ MutexHeld /\ ReportInv /\ VerdictInv /\ ProcInv /\ ResultInv
================================================================================
