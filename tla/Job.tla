---------------------------------- MODULE Job ----------------------------------
(***************************************************************************)
(* One job (model/job.go) and every goroutine that acts on it: the worker  *)
(* that runs it and reports the verdict (worker/worker.go), the goroutine  *)
(* that TimeoutWithCancel leaves behind, and the callers, goroutines that  *)
(* hold a pointer to the job and may Cancel it or Timeout it at any moment *)
(* (the canceller and the registry's cleaner and shutdown).                *)
(*                                                                         *)
(* A step is what a goroutine does between two points where another one    *)
(* can be seen to interleave: a critical section of j.mu is one step       *)
(* unless something outside the mutex (the process, os/exec, the clock)    *)
(* can change in the middle of it.                                         *)
(***************************************************************************)
EXTENDS JobStatus, Sequences, Naturals

CONSTANTS Worker,       \* the goroutine of StartWorker that received the job
          Timeouter,    \* the goroutine that TimeoutWithCancel starts
          Callers,      \* the canceller, the cleaner, the shutdown
          Nobody,       \* j.mu is free
          Descendants   \* processes the command may leave under its own

Threads == {Worker, Timeouter} \cup Callers

ASSUME ThreadsAssumption ==
  /\ Worker # Timeouter
  /\ Worker \notin Callers
  /\ Timeouter \notin Callers
  /\ Nobody \notin Threads

VARIABLES
  mu,              \* the goroutine that holds j.mu, or Nobody
  status, previousStatus,
  inTerminal,      \* inTerminalState, what IsTerminal returns
  alreadyStopped,
  proc,            \* j.cmd.Process, from the kernel's and os/exec's side
  exit,            \* how the main process ended
  kids,            \* live descendants of the main process
  doomed,          \* processChildren, the pids stopProcess is about to signal
  ctx,             \* the context with the TTR deadline
  hit,             \* HitTimeout(): the TTR counted from StartAt is over
  result,          \* what Run() returns to the worker
  reports,         \* the calls doApiCall made, in order
  pc,              \* where each goroutine is
  panicked         \* a nil ProcessState was dereferenced: the program is gone

execVars == <<proc, exit, kids>>
statusVars == <<status, previousStatus, inTerminal, reports>>
clockVars == <<ctx, hit>>
vars == <<mu, statusVars, alreadyStopped, execVars, doomed, clockVars, result,
          pc, panicked>>

ProcStates ==
  {"none",      \* cmd.Process is nil
   "running",
   "zombie",    \* ended, nobody has waited for it
   "reaping",   \* Process.Wait has set its done flag, cmd.ProcessState is nil
   "reaped"}    \* cmd.ProcessState is set

Results == {"none", "ok", "failed", "cancelled", "timeout", "notStarted"}

\* The worker's way through Run, runcmd and the verdict.
WorkerPC == {"queued", "once", "pipes", "start", "starting", "wait", "final",
             "stopLogs", "return", "finish", "failed", "awaitTimeout",
             "cancel", "stop", "kill", "signal", "done"}
StopPC   == {"idle", "cancel", "timeout", "stop", "kill", "signal", "send", "done"}

Init ==
  /\ mu = Nobody
  /\ status = PENDING /\ previousStatus = PENDING
  /\ inTerminal = FALSE /\ alreadyStopped = FALSE
  /\ proc = "none" /\ exit = "none" /\ kids = {} /\ doomed = {}
  /\ ctx = "none" /\ hit = FALSE
  /\ result = "none" /\ reports = <<>>
  /\ pc = [t \in Threads |-> IF t = Worker THEN "queued" ELSE "idle"]
  /\ panicked = FALSE

--------------------------------------------------------------------------------
(* Helpers *)

Goto(t, l) == pc' = [pc EXCEPT ![t] = l]

Lock(t)   == mu = Nobody /\ mu' = t
Unlock(t) == mu = t /\ mu' = Nobody

\* A panic takes the whole program down: nothing moves after it.
Alive == ~panicked /\ UNCHANGED panicked

\* A critical section that is one step.
Atomically == mu = Nobody /\ UNCHANGED mu

\* Fault: PreviousStatus is not updated.
updateStatus_KeepsPrevious(s) ==
  /\ status' = s
  /\ inTerminal' = (inTerminal \/ IsTerminalStatus(s))
  /\ UNCHANGED previousStatus

\* updateStatus, with PutInTerminal.
updateStatus(s) ==
  /\ status' = s
  /\ previousStatus' = status
  /\ inTerminal' = (inTerminal \/ IsTerminalStatus(s))

\* What a report tells of a job whose status this step updates.
GetParams(stage) ==
  [stage |-> stage, prev |-> Visible(previousStatus'), status |-> status']

doApiCall(stage) == reports' = Append(reports, GetParams(stage))

\* Fault: the terminal status is not looked at.
StopReport_Always(s, stage) == updateStatus(s) /\ doApiCall(stage)

\* The reports a stop makes: none for a job already in a terminal status.
StopReport(s, stage) ==
  IF IsTerminalStatus(status)
  THEN UNCHANGED statusVars
  ELSE updateStatus(s) /\ doApiCall(stage)

--------------------------------------------------------------------------------
(* Cancel and Timeout, by any goroutine; stopProcess *)

\* Where a goroutine goes when Cancel or Timeout returns.
AfterStop(p) ==
  IF p = Worker THEN "done" ELSE IF p = Timeouter THEN "send" ELSE "idle"

\* The canceller or the shutdown has found the job in the registry.
CallCancel(p) ==
  /\ Alive
  /\ pc[p] = "idle"
  /\ Goto(p, "cancel")
  /\ UNCHANGED <<mu, statusVars, alreadyStopped, execVars, doomed, clockVars,
                 result>>

\* Cleanup reads HitTimeout without the lock and calls Timeout afterwards.
CallTimeout(p) ==
  /\ Alive
  /\ pc[p] = "idle" /\ hit
  /\ Goto(p, "timeout")
  /\ UNCHANGED <<mu, statusVars, alreadyStopped, execVars, doomed, clockVars,
                 result>>

\* Fault: Cancel returns after its report.
Cancel_OnlyReports(p) ==
  /\ Alive
  /\ pc[p] = "cancel"
  /\ Atomically
  /\ StopReport(CANCELED, "cancel")
  /\ Goto(p, AfterStop(p))
  /\ UNCHANGED <<alreadyStopped, execVars, doomed, clockVars, result>>

Cancel(p) ==
  /\ Alive
  /\ pc[p] = "cancel"
  /\ Lock(p)
  /\ StopReport(CANCELED, "cancel")
  /\ Goto(p, "stop")
  /\ UNCHANGED <<alreadyStopped, execVars, doomed, clockVars, result>>

Timeout(p) ==
  /\ Alive
  /\ pc[p] = "timeout"
  /\ Lock(p)
  /\ StopReport(TIMEOUT, "timeout")
  /\ Goto(p, "stop")
  /\ UNCHANGED <<alreadyStopped, execVars, doomed, clockVars, result>>

\* cmd.Process is nil or already stopped: nothing to do.  killOnce cannot have
\* fired while alreadyStopped is false, so the flag stands for both.
StopSkip(p) ==
  /\ Alive
  /\ pc[p] = "stop"
  /\ proc = "none" \/ alreadyStopped
  /\ Unlock(p)
  /\ Goto(p, AfterStop(p))
  /\ UNCHANGED <<statusVars, alreadyStopped, execVars, doomed, clockVars,
                 result>>

\* The process tree is read before the kill; it may be refused, and may miss
\* descendants that come or lose their parent meanwhile (module ProcessTree).  The
\* descendants of a process that has ended belong to init.
StopEnter(p) ==
  /\ Alive
  /\ pc[p] = "stop"
  /\ proc # "none" /\ ~alreadyStopped
  /\ alreadyStopped' = TRUE
  /\ doomed' \in SUBSET (IF proc = "running" THEN kids ELSE {})
  /\ Goto(p, "kill")
  /\ UNCHANGED <<mu, statusVars, execVars, clockVars, result>>

\* Process.Kill.  Once Wait has marked the process done it fails, and the error
\* path reads cmd.ProcessState, which is nil until Wait has stored it.
StopKill(p) ==
  /\ ~panicked
  /\ pc[p] = "kill"
  /\ IF proc = "running"
     THEN proc' = "zombie" /\ exit' = "killed"
     ELSE UNCHANGED <<proc, exit>>
  /\ panicked' = (proc = "reaping")
  /\ Goto(p, "signal")
  /\ UNCHANGED <<mu, statusVars, alreadyStopped, kids, doomed, clockVars, result>>

\* SIGTERM to the descendants of the snapshot, which end by it.
StopSignal(p) ==
  /\ Alive
  /\ pc[p] = "signal"
  /\ kids' = kids \ doomed
  /\ doomed' = {}
  /\ Unlock(p)
  /\ Goto(p, AfterStop(p))
  /\ UNCHANGED <<statusVars, alreadyStopped, proc, exit, clockVars, result>>

StopStep(p) ==
  Cancel(p) \/ Timeout(p) \/ StopSkip(p) \/ StopEnter(p) \/ StopKill(p) \/ StopSignal(p)

--------------------------------------------------------------------------------
(* Run and runcmd *)

\* Fault: only a running job is refused.
RunCheck_OnlyRunning ==
  /\ Alive
  /\ pc[Worker] = "queued"
  /\ Atomically
  /\ IF status = RUNNING
     THEN result' = "notStarted" /\ Goto(Worker, "failed") /\ UNCHANGED ctx
     ELSE ctx' = "live" /\ Goto(Worker, "once") /\ UNCHANGED result
  /\ UNCHANGED <<statusVars, alreadyStopped, execVars, doomed, hit>>

\* Run's first critical section.
RunCheck ==
  /\ Alive
  /\ pc[Worker] = "queued"
  /\ Atomically
  /\ IF status = RUNNING \/ IsTerminalStatus(status)
     THEN /\ result' = "notStarted"
          /\ Goto(Worker, "failed")
          /\ UNCHANGED ctx
     ELSE /\ ctx' = "live"
          /\ Goto(Worker, "once")
          /\ UNCHANGED result
  /\ UNCHANGED <<statusVars, alreadyStopped, execVars, doomed, hit>>

\* startOnce, outside the lock: StartAt moves, so HitTimeout starts again.
StartOnce ==
  /\ Alive
  /\ pc[Worker] = "once"
  /\ hit' = FALSE
  /\ Goto(Worker, "pipes")
  /\ UNCHANGED <<mu, statusVars, alreadyStopped, execVars, doomed, ctx, result>>

\* StdoutPipe and StderrPipe, either of which may fail.
OpenPipes ==
  /\ Alive
  /\ pc[Worker] = "pipes"
  /\ \/ Goto(Worker, "start") /\ UNCHANGED result
     \/ Goto(Worker, "return") /\ result' = "notStarted"
  /\ UNCHANGED <<mu, statusVars, alreadyStopped, execVars, doomed, clockVars>>

\* cmd.Start fails when the context is over and may fail otherwise.  RUNNING is
\* set and reported in every case, whatever the status was.
StartProcess ==
  /\ Alive
  /\ pc[Worker] = "start"
  /\ Lock(Worker)
  /\ \/ ctx = "live" /\ proc' = "running"
     \/ UNCHANGED proc
  /\ updateStatus(RUNNING)
  /\ doApiCall("run")
  /\ Goto(Worker, "starting")
  /\ UNCHANGED <<alreadyStopped, exit, kids, doomed, clockVars, result>>

\* Fault: the error path returns with the lock held.
Started_KeepsLock ==
  /\ Alive
  /\ pc[Worker] = "starting"
  /\ IF proc = "none"
     THEN Goto(Worker, "return") /\ result' = "notStarted" /\ UNCHANGED mu
     ELSE Goto(Worker, "wait") /\ Unlock(Worker) /\ UNCHANGED result
  /\ UNCHANGED <<statusVars, alreadyStopped, execVars, doomed, clockVars>>

\* Fault: an expired context is taken for a failed start.
Started_ContextFirst ==
  /\ Alive
  /\ pc[Worker] = "starting"
  /\ Unlock(Worker)
  /\ IF proc = "none" \/ ctx = "expired"
     THEN Goto(Worker, "return") /\ result' = "notStarted"
     ELSE Goto(Worker, "wait") /\ UNCHANGED result
  /\ UNCHANGED <<statusVars, alreadyStopped, execVars, doomed, clockVars>>

Started ==
  /\ Alive
  /\ pc[Worker] = "starting"
  /\ Unlock(Worker)
  /\ IF proc = "none"
     THEN Goto(Worker, "return") /\ result' = "notStarted"
     ELSE Goto(Worker, "wait") /\ UNCHANGED result
  /\ UNCHANGED <<statusVars, alreadyStopped, execVars, doomed, clockVars>>

\* cmd.Wait: Process.Wait marks the process done, then cmd stores its state.
WaitMarksDone ==
  /\ Alive
  /\ pc[Worker] = "wait" /\ proc = "zombie"
  /\ proc' = "reaping"
  /\ UNCHANGED <<mu, statusVars, alreadyStopped, exit, kids, doomed, clockVars,
                 result, pc>>

WaitReturns ==
  /\ Alive
  /\ pc[Worker] = "wait" /\ proc = "reaping"
  /\ proc' = "reaped"
  /\ Goto(Worker, "final")
  /\ UNCHANGED <<mu, statusVars, alreadyStopped, exit, kids, doomed, clockVars,
                 result>>

\* The log readers have finished or were given up; the worker takes the lock
\* and blocks in notifyStopStreams until resetCounterLoop receives.
StopLogs ==
  /\ Alive
  /\ pc[Worker] = "final"
  /\ Lock(Worker)
  /\ Goto(Worker, "stopLogs")
  /\ UNCHANGED <<statusVars, alreadyStopped, execVars, doomed, clockVars, result>>

\* Fault: the status or the way the process ended is returned as it is.
VerdictResult_Raw == IF status \in StoppedStatuses THEN status ELSE exit

\* Fault: the exit code is not looked at.
VerdictResult_IgnoresExitCode ==
  CASE status = CANCELED -> "cancelled"
    [] status # CANCELED /\ (status = TIMEOUT \/ ctx = "expired") -> "timeout"
    [] OTHER -> IF exit = "killed" THEN "failed" ELSE "ok"

\* The switch that turns status, context and exit code into runcmd's error.
VerdictResult ==
  CASE status = CANCELED -> "cancelled"
    [] status = TIMEOUT  -> "timeout"
    [] status \notin StoppedStatuses /\ ctx = "expired" -> "timeout"
    [] status \notin StoppedStatuses /\ ctx # "expired" /\ exit = "ok" -> "ok"
    [] OTHER -> "failed"

\* Fault: an early return without the unlock.
Verdict_KeepsLock ==
  /\ Alive
  /\ pc[Worker] = "stopLogs"
  /\ alreadyStopped' = TRUE
  /\ result' = VerdictResult
  /\ status' = IF IsTerminalStatus(status) THEN status
               ELSE IF result' = "ok" THEN RUN_OK ELSE RUN_FAILED
  /\ Goto(Worker, "return")
  /\ UNCHANGED <<mu, previousStatus, inTerminal, reports, execVars, doomed,
                 clockVars>>

\* Fault: a stop that came while the process was waited for is overwritten.
Verdict_Overwrites ==
  /\ Alive
  /\ pc[Worker] = "stopLogs"
  /\ alreadyStopped' = TRUE
  /\ result' = VerdictResult
  /\ status' = IF result' = "ok" THEN RUN_OK ELSE RUN_FAILED
  /\ Unlock(Worker)
  /\ Goto(Worker, "return")
  /\ UNCHANGED <<previousStatus, inTerminal, reports, execVars, doomed, clockVars>>

\* PreviousStatus is left alone here.
Verdict ==
  /\ Alive
  /\ pc[Worker] = "stopLogs"
  /\ alreadyStopped' = TRUE
  /\ result' = VerdictResult
  /\ status' = IF IsTerminalStatus(status) THEN status
               ELSE IF result' = "ok" THEN RUN_OK ELSE RUN_FAILED
  /\ Unlock(Worker)
  /\ Goto(Worker, "return")
  /\ UNCHANGED <<previousStatus, inTerminal, reports, execVars, doomed, clockVars>>

\* Fault: the worker leaves a timed out job as it is.
RunReturns_ForgetsTimeout ==
  /\ Alive
  /\ pc[Worker] = "return"
  /\ Atomically
  /\ Goto(Worker, CASE result = "ok" -> "finish" [] result = "cancelled" -> "cancel"
                    [] result = "timeout" -> "done" [] OTHER -> "failed")
  /\ UNCHANGED <<statusVars, alreadyStopped, execVars, doomed, clockVars, result>>

\* Run's last critical section and the worker's switch on its error.
RunReturns ==
  /\ Alive
  /\ pc[Worker] = "return"
  /\ Atomically
  /\ \/ result = "ok" /\ Goto(Worker, "finish")
     \/ result = "cancelled" /\ Goto(Worker, "cancel")
     \/ /\ result = "timeout"
        /\ pc' = [pc EXCEPT ![Worker] = "awaitTimeout", ![Timeouter] = "timeout"]
     \/ result \notin {"ok", "cancelled", "timeout"} /\ Goto(Worker, "failed")
  /\ UNCHANGED <<statusVars, alreadyStopped, execVars, doomed, clockVars, result>>

--------------------------------------------------------------------------------
(* The worker's verdict *)

\* Finish asks nothing of the status it replaces.
Finish ==
  /\ Alive
  /\ pc[Worker] = "finish"
  /\ Atomically
  /\ updateStatus(SUCCESS)
  /\ doApiCall("finish")
  /\ Goto(Worker, "done")
  /\ UNCHANGED <<alreadyStopped, execVars, doomed, clockVars, result>>

\* Fault: a job that never ran is not reported.
Failed_OnlyStarted ==
  /\ Alive
  /\ pc[Worker] = "failed"
  /\ Atomically
  /\ IF status = PENDING THEN UNCHANGED statusVars ELSE StopReport(ERROR, "failed")
  /\ Goto(Worker, "done")
  /\ UNCHANGED <<alreadyStopped, execVars, doomed, clockVars, result>>

\* Failed does not stop the process.
Failed ==
  /\ Alive
  /\ pc[Worker] = "failed"
  /\ Atomically
  /\ StopReport(ERROR, "failed")
  /\ Goto(Worker, "done")
  /\ UNCHANGED <<alreadyStopped, execVars, doomed, clockVars, result>>

\* TimeoutWithCancel: errorChan has no buffer, and the worker leaves after five
\* minutes whether or not the goroutine has an answer.
TimeoutAnswered ==
  /\ Alive
  /\ pc[Worker] = "awaitTimeout" /\ pc[Timeouter] = "send"
  /\ pc' = [pc EXCEPT ![Worker] = "done", ![Timeouter] = "done"]
  /\ UNCHANGED <<mu, statusVars, alreadyStopped, execVars, doomed, clockVars,
                 result>>

TimeoutAbandoned ==
  /\ Alive
  /\ pc[Worker] = "awaitTimeout"
  /\ Goto(Worker, "done")
  /\ UNCHANGED <<mu, statusVars, alreadyStopped, execVars, doomed, clockVars,
                 result>>

WorkerProgress ==
  \/ RunCheck \/ StartOnce \/ OpenPipes \/ StartProcess \/ Started
  \/ WaitMarksDone \/ WaitReturns \/ StopLogs \/ Verdict \/ RunReturns
  \/ Finish \/ Failed \/ TimeoutAnswered

WorkerStep == WorkerProgress \/ TimeoutAbandoned

--------------------------------------------------------------------------------
(* The processes, os/exec and the clock *)

ProcessExits ==
  /\ Alive
  /\ proc = "running"
  /\ proc' = "zombie"
  /\ exit' \in {"ok", "failed"}
  /\ UNCHANGED <<mu, statusVars, alreadyStopped, kids, doomed, clockVars, result,
                 pc>>

Fork(k) ==
  /\ Alive
  /\ proc = "running" \/ kids # {}
  /\ k \notin kids
  /\ kids' = kids \cup {k}
  /\ UNCHANGED <<mu, statusVars, alreadyStopped, proc, exit, doomed, clockVars,
                 result, pc>>

DescendantExits(k) ==
  /\ Alive
  /\ k \in kids
  /\ kids' = kids \ {k}
  /\ UNCHANGED <<mu, statusVars, alreadyStopped, proc, exit, doomed, clockVars,
                 result, pc>>

CtxExpires ==
  /\ Alive
  /\ ctx = "live"
  /\ ctx' = "expired"
  /\ UNCHANGED <<mu, statusVars, alreadyStopped, execVars, doomed, hit, result,
                 pc>>

\* exec.CommandContext kills the main process, and only that one.
CtxKills ==
  /\ Alive
  /\ ctx = "expired" /\ proc = "running"
  /\ proc' = "zombie" /\ exit' = "killed"
  /\ UNCHANGED <<mu, statusVars, alreadyStopped, kids, doomed, clockVars, result,
                 pc>>

TTRElapses ==
  /\ Alive
  /\ ~hit
  /\ hit' = TRUE
  /\ UNCHANGED <<mu, statusVars, alreadyStopped, execVars, doomed, ctx, result,
                 pc>>

EnvStep ==
  \/ ProcessExits \/ CtxExpires \/ CtxKills \/ TTRElapses
  \/ \E k \in Descendants : Fork(k) \/ DescendantExits(k)

--------------------------------------------------------------------------------

Step ==
  \/ WorkerStep
  \/ \E p \in Threads : StopStep(p)
  \/ \E p \in Callers : CallCancel(p) \/ CallTimeout(p)
  \/ EnvStep

Halted == panicked /\ UNCHANGED vars

Next == Step \/ Halted

Spec == Init /\ [][Next]_vars

(***************************************************************************)
(* Goroutines that can run do run; a sync.RWMutex hands itself over to a   *)
(* writer that has waited, so a goroutine that wants j.mu again and again  *)
(* gets it (strong fairness).  The deadline of the context fires, os/exec  *)
(* then kills the process.  Nothing makes a process end by itself, a       *)
(* caller act, or the five minutes of TimeoutWithCancel pass.              *)
(***************************************************************************)
Fairness ==
  /\ SF_vars(WorkerProgress)
  /\ \A p \in Threads : SF_vars(StopStep(p))
  /\ WF_vars(CtxExpires)
  /\ WF_vars(CtxKills)

FairSpec == Spec /\ Fairness

--------------------------------------------------------------------------------
(* Properties *)

Holding == {"stop", "kill", "signal", "starting", "stopLogs"}

TypeOK ==
  /\ mu \in Threads \cup {Nobody}
  /\ status \in Statuses /\ previousStatus \in Statuses
  /\ inTerminal \in BOOLEAN /\ alreadyStopped \in BOOLEAN
  /\ proc \in ProcStates
  /\ exit \in {"none", "ok", "failed", "killed"}
  /\ kids \subseteq Descendants /\ doomed \subseteq Descendants
  /\ ctx \in {"none", "live", "expired"} /\ hit \in BOOLEAN
  /\ result \in Results
  /\ reports \in Seq([stage : {"run", "cancel", "timeout", "failed", "finish"},
                       prev : Statuses, status : Statuses])
  /\ pc \in [Threads -> WorkerPC \cup StopPC]
  /\ panicked \in BOOLEAN

\* j.mu excludes: whoever is inside a critical section of several steps holds
\* the mutex, whichever of Cancel, Timeout, runcmd it is in (job.go:254-259,
\* 334-335, 563-576, 642-643).
MutexHeld == \A t \in Threads : pc[t] \in Holding <=> mu = t

\* What the API was told last, and what GetPreviousStatus will tell it next.
LastReported == IF reports = <<>> THEN PENDING ELSE reports[Len(reports)].status

\* Every report carries as its previous status the status of the report before
\* it, PENDING for the first: an API server that updates a job "WHERE status IN
\* (previous, ...)" applies them all (docker-image/apiserver/app/resources/
\* jobs.py:234).  RUN_OK and RUN_FAILED, set with no report and without
\* PreviousStatus (job.go:691-696), never show.
ReportsChain ==
  \A i \in 1..Len(reports) :
    reports[i].prev = IF i = 1 THEN PENDING ELSE reports[i - 1].status

\* The worker leaves the job (worker.go:87) only in a status the API knows to
\* be terminal, unless it abandoned a Timeout that is still waiting for j.mu.
DoneMeansReported ==
  pc[Worker] = "done" =>
    \/ IsTerminalStatus(status) /\ LastReported = status
    \/ pc[Timeouter] = "timeout"

\* A stop that is on record and complete has ended the main process: no
\* CANCELED or TIMEOUT job keeps running once j.mu is free (job.go:253-274).
StoppedMeansKilled ==
  (status \in StoppedStatuses /\ mu = Nobody) => proc # "running"

\* A worker takes no other job while a process of this one is alive or unwaited.
NoProcessLeft == pc[Worker] = "done" => proc \in {"none", "reaped"}

\* The process is reported SUCCESS only if it ended by itself with exit code 0,
\* and a job that ended that way within its TTR is not reported failed.
SuccessIsEarned ==
  /\ status = SUCCESS => exit = "ok" /\ proc = "reaped"
  /\ status = ERROR => ~(proc = "reaped" /\ exit = "ok")

\* A Cancel or a Timeout that ends before the worker's check (job.go:506) is
\* never lost: the command is not started and RUNNING is not reported.
QueuedStopHolds ==
  [] ((pc[Worker] = "queued" /\ mu = Nobody /\ IsTerminalStatus(status))
        => [] (proc = "none" /\ LastReported # RUNNING))

\* Every job ends in a terminal status that the API was told of, whatever its
\* command does and whoever stops it, unless the program panics.
EventuallyReported ==
  <>[] (panicked \/ (IsTerminalStatus(status) /\ LastReported = status))

\* Nobody waits for ever in Cancel or Timeout: neither on j.mu nor in
\* stopProcess.
StopReturns ==
  \A p \in Threads : pc[p] \in {"cancel", "timeout"} ~>
                       (panicked \/ pc[p] \in {"idle", "send", "done"})

\* What the API sees is what JobReports allows.
HasRun == \E i \in DOMAIN reports : reports[i].stage = "run"
Contract == INSTANCE JobReports WITH view <- LastReported, started <- HasRun
ImplementsReports == Contract!ReportSpec

--------------------------------------------------------------------------------
(* What the sources say and the code does not keep *)

\* "IsTerminal returns true in case job entered final state" (job.go:97): the
\* state it reports is final.
TerminalIsFinal == inTerminal => IsTerminalStatus(status)

\* "Stops the job process and kills all children processes" (job.go:209): when
\* the Timeout that follows the TTR stops the job, no descendant is passed over.
TimeoutKillsDescendants ==
  [][StopSkip(Timeouter) => kids = {}]_vars

\* "Stops the job process" (job.go:209): stopProcess returns, with an error if
\* the kill failed, and never takes the program down.
NoPanic == ~panicked
================================================================================
