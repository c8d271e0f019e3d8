------------------------------ MODULE Supraworker ------------------------------
(***************************************************************************)
(* The process as a whole: the generator that fetches jobs and puts them   *)
(* in the registry and in the jobs channel, the workers that execute them, *)
(* the registry's cleaner, the canceller, and the shutdown                 *)
(* (job/jobs_fetch.go, model/job_registry.go, worker/worker.go and         *)
(* cmd/supraworker.go).                                                    *)
(*                                                                         *)
(* Module Job shows what the goroutines may do inside one job; here a      *)
(* critical section of a job is one step and the question is which jobs    *)
(* the registry, the channel and the workers hold.                         *)
(***************************************************************************)
EXTENDS JobStatus, Naturals, Sequences, FiniteSets

CONSTANTS Jobs,      \* the jobs the API will offer, one per offer
          Keys,      \* StoreKey values
          Cancellable, \* the jobs the API may ask to cancel
          Overdue,     \* the jobs whose TTR may pass
          Workers,
          None

NumWorkers == Cardinality(Workers)

ASSUME PoolAssumption ==
  /\ Cancellable \subseteq Jobs /\ Overdue \subseteq Jobs
  /\ None \notin Jobs
  /\ IsFiniteSet(Workers) /\ Workers # {}

Cleaner   == "cleaner"
Generator == "generator"
Sweepers  == {Cleaner, Generator}   \* the goroutines that call Registry.Cleanup

VARIABLES
  status,      \* Job.Status, "NEW" before the job is fetched, "DUPLICATE" if refused
  inTerminal,  \* Job.IsTerminal()
  proc,        \* the job's process: "none", "running", how it ended, or "over"
               \* once the worker has waited for it
  KeyOf,       \* the key of each job, which the API decides: two may carry one
  registry,    \* Registry.all
  sealed,      \* GracefullyShutdown holds Registry.mu
  queue,       \* the jobs channel
  closed,      \* close(jobs) was called
  wpc, held,   \* each worker, and the job it received
  result,      \* what Run() returned to each worker
  active, processed,   \* NumActiveJobs, NumProcessedJobs
  gpc, offer,  \* the generator, and the job it is sending
  cpc,         \* the cleaner
  todo,        \* what a sweeper still has to do of its copy of the registry
  doomed,      \* the entry a sweeper is about to delete
  xpc, target, \* the canceller, and the job it found
  ctxDone,     \* the signal handler cancelled the context
  exited,      \* main returned: nothing runs any more
  \* what the properties speak about
  evicted      \* the jobs whose record another job's deletion removed

jobVars == <<status, inTerminal, proc>>
regVars == <<registry, evicted>>
chanVars == <<queue, closed>>
workVars == <<wpc, held, result, active, processed>>
sweepVars == <<cpc, todo, doomed>>
cancelVars == <<xpc, target>>
genVars == <<gpc, offer>>
vars == <<jobVars, KeyOf, regVars, sealed, chanVars, workVars, genVars, sweepVars,
          cancelVars, ctxDone, exited>>

\* StartGenerateJobs begins with its tickers, unless there is no URL to fetch jobs
\* from: then it closes the channel and starts nothing.
GeneratorStarts(url) ==
  /\ closed = ~url
  /\ gpc = IF url THEN "select" ELSE "stopped"
  /\ cpc = gpc /\ xpc = gpc

Init ==
  /\ \E url \in BOOLEAN : GeneratorStarts(url)
  /\ status = [j \in Jobs |-> "NEW"]
  /\ inTerminal = [j \in Jobs |-> FALSE]
  /\ proc = [j \in Jobs |-> "none"]
  /\ KeyOf \in [Jobs -> Keys]
  /\ registry = [k \in Keys |-> None] /\ sealed = FALSE /\ evicted = {}
  /\ queue = <<>>
  /\ wpc = [w \in Workers |-> "receive"]
  /\ held = [w \in Workers |-> None]
  /\ result = [w \in Workers |-> "none"]
  /\ active = 0 /\ processed = 0
  /\ offer = None /\ target = None
  /\ todo = [s \in Sweepers |-> {}]
  /\ doomed = [s \in Sweepers |-> None]
  /\ ctxDone = FALSE /\ exited = FALSE

Alive == ~exited /\ UNCHANGED <<exited, KeyOf>>

--------------------------------------------------------------------------------
(* One job *)

SetStatus(j, s) ==
  /\ status' = [status EXCEPT ![j] = s]
  /\ inTerminal' = [inTerminal EXCEPT ![j] = @ \/ IsTerminalStatus(s)]

\* Cancel and Timeout: a job in a terminal status keeps it, a running process is
\* killed in either case.
Stop(j, s) ==
  /\ IF IsTerminalStatus(status[j]) THEN UNCHANGED <<status, inTerminal>>
                                    ELSE SetStatus(j, s)
  /\ proc' = [proc EXCEPT ![j] = IF @ = "running" THEN "failed" ELSE @]

\* The process ends by itself or is killed by its context at the TTR.
ProcessEnds(j) ==
  /\ Alive
  /\ proc[j] = "running"
  /\ \E e \in {"ok", "failed"} \cup (IF j \in Overdue THEN {"ttr"} ELSE {}) :
       proc' = [proc EXCEPT ![j] = e]
  /\ UNCHANGED <<status, inTerminal, regVars, sealed, chanVars, workVars,
                 genVars, sweepVars, cancelVars, ctxDone>>

--------------------------------------------------------------------------------
(* Registry *)

Add(j) ==
  /\ registry[KeyOf[j]] = None
  /\ registry' = [registry EXCEPT ![KeyOf[j]] = j]

\* Delete removes whatever the key leads to.
Delete(j) ==
  /\ ~sealed
  /\ registry' = [registry EXCEPT ![KeyOf[j]] = None]
  /\ evicted' = evicted \cup ({registry[KeyOf[j]]} \ {j, None})

Registered == {j \in Jobs : registry[KeyOf[j]] = j}

\* Cleanup starts with a copy of the registry; todo has the jobs of the copy it
\* will find timed out or stuck, it passes over the others.
CopyRegistry(s) ==
  /\ ~sealed
  /\ \E c \in SUBSET Registered : todo' = [todo EXCEPT ![s] = c]
  /\ UNCHANGED doomed

Swept(s) == todo[s] = {} /\ doomed[s] = None

Sweeping(s, j) == j \in todo[s] /\ doomed[s] = None

\* HitTimeout held when it was asked: any time after the TTR.
SweepTimeout(s, j) ==
  /\ Alive
  /\ Sweeping(s, j) /\ j \in Overdue
  /\ Stop(j, TIMEOUT)
  /\ todo' = [todo EXCEPT ![s] = @ \ {j}]
  /\ doomed' = [doomed EXCEPT ![s] = j]
  /\ UNCHANGED <<regVars, sealed, chanVars, workVars, genVars, cpc, cancelVars,
                 ctxDone>>

\* Fault: the age of the job is looked at and not its state.
SweepStuck_AnyState(s, j) ==
  /\ Alive
  /\ Sweeping(s, j)
  /\ todo' = [todo EXCEPT ![s] = @ \ {j}]
  /\ doomed' = [doomed EXCEPT ![s] = j]
  /\ UNCHANGED <<jobVars, regVars, sealed, chanVars, workVars, genVars, cpc,
                 cancelVars, ctxDone>>

\* IsStuck: five minutes after the job went terminal or its command ended.
SweepStuck(s, j) ==
  /\ Alive
  /\ Sweeping(s, j)
  /\ inTerminal[j] \/ proc[j] \notin {"none", "running"}
  /\ todo' = [todo EXCEPT ![s] = @ \ {j}]
  /\ doomed' = [doomed EXCEPT ![s] = j]
  /\ UNCHANGED <<jobVars, regVars, sealed, chanVars, workVars, genVars, cpc,
                 cancelVars, ctxDone>>

SweepDelete(s) ==
  /\ Alive
  /\ doomed[s] # None
  /\ Delete(doomed[s])
  /\ doomed' = [doomed EXCEPT ![s] = None]
  /\ UNCHANGED <<jobVars, sealed, chanVars, workVars, genVars, cpc, todo,
                 cancelVars, ctxDone>>

Sweep(s) ==
  \/ SweepDelete(s)
  \/ \E j \in Jobs : SweepTimeout(s, j) \/ SweepStuck(s, j)

\* The cleaner's goroutine: a tick starts a Cleanup, the end of the context ends it.
CleanerTick ==
  /\ Alive
  /\ cpc = "select" /\ CopyRegistry(Cleaner)
  /\ cpc' = "sweep"
  /\ UNCHANGED <<jobVars, regVars, sealed, chanVars, workVars, genVars, cancelVars,
                 ctxDone>>

CleanerSwept ==
  /\ Alive
  /\ cpc = "sweep" /\ Swept(Cleaner)
  /\ cpc' = "select"
  /\ UNCHANGED <<jobVars, regVars, sealed, chanVars, workVars, genVars, todo, doomed,
                 cancelVars, ctxDone>>

CleanerStops ==
  /\ Alive
  /\ cpc = "select" /\ ctxDone
  /\ cpc' = "stopped"
  /\ UNCHANGED <<jobVars, regVars, sealed, chanVars, workVars, genVars, todo, doomed,
                 cancelVars, ctxDone>>

--------------------------------------------------------------------------------
(* Canceller: Record and Cancel are two steps *)

CancellerFinds(j) ==
  /\ Alive
  /\ xpc = "select" /\ ~sealed
  /\ j \in Registered \cap Cancellable
  /\ target' = j /\ xpc' = "cancel"
  /\ UNCHANGED <<jobVars, regVars, sealed, chanVars, workVars, genVars, sweepVars,
                 ctxDone>>

CancellerCancels ==
  /\ Alive
  /\ xpc = "cancel"
  /\ Stop(target, CANCELED)
  /\ target' = None /\ xpc' = "select"
  /\ UNCHANGED <<regVars, sealed, chanVars, workVars, genVars, sweepVars, ctxDone>>

CancellerStops ==
  /\ Alive
  /\ xpc = "select" /\ ctxDone
  /\ xpc' = "stopped"
  /\ UNCHANGED <<jobVars, regVars, sealed, chanVars, workVars, genVars, sweepVars,
                 target, ctxDone>>

--------------------------------------------------------------------------------
(* Generator *)

\* A tick fetches a batch; the select may prefer it to a finished context.  Ticks
\* follow one another as the generator likes, so one job at a time is as good as
\* a batch.
Accept(j) ==
  /\ Alive
  /\ gpc = "select" /\ status[j] = "NEW"
  /\ Add(j)
  /\ SetStatus(j, PENDING)
  /\ offer' = j /\ gpc' = "send"
  /\ UNCHANGED <<proc, evicted, sealed, chanVars, workVars, sweepVars, cancelVars,
                 ctxDone>>

\* Add refuses a key that is in the registry; the job is dropped.
Refuse(j) ==
  /\ Alive
  /\ gpc = "select" /\ status[j] = "NEW"
  /\ registry[KeyOf[j]] # None
  /\ status' = [status EXCEPT ![j] = "DUPLICATE"]
  /\ UNCHANGED <<inTerminal, proc, regVars, sealed, chanVars, workVars,
                 genVars, sweepVars, cancelVars, ctxDone>>

\* Fault: the job is kept for another send.
Send_Keeps ==
  /\ Alive
  /\ gpc = "send" /\ Len(queue) < NumWorkers
  /\ queue' = Append(queue, offer)
  /\ gpc' = "select"
  /\ UNCHANGED <<jobVars, regVars, sealed, closed, workVars, offer, sweepVars,
                 cancelVars, ctxDone>>

\* jobs <- job: waits for room whatever happens to the context.
Send ==
  /\ Alive
  /\ gpc = "send" /\ Len(queue) < NumWorkers
  /\ queue' = Append(queue, offer)
  /\ offer' = None /\ gpc' = "select"
  /\ UNCHANGED <<jobVars, regVars, sealed, closed, workVars, sweepVars, cancelVars,
                 ctxDone>>

\* Fault: the channel is left open.
GeneratorStops_LeavesOpen ==
  /\ Alive
  /\ gpc = "select" /\ ctxDone
  /\ gpc' = "drain"
  /\ UNCHANGED <<jobVars, regVars, sealed, chanVars, workVars, offer, sweepVars,
                 cancelVars, ctxDone>>

\* The deferred close(jobs) and GracefulShutdown(jobs).
GeneratorStops ==
  /\ Alive
  /\ gpc = "select" /\ ctxDone
  /\ closed' = TRUE /\ gpc' = "drain"
  /\ UNCHANGED <<jobVars, regVars, sealed, queue, workVars, offer, sweepVars,
                 cancelVars, ctxDone>>

Drain ==
  /\ Alive
  /\ gpc = "drain" /\ queue # <<>>
  /\ queue' = Tail(queue)
  /\ UNCHANGED <<jobVars, regVars, sealed, closed, workVars, genVars, sweepVars,
                 cancelVars, ctxDone>>

\* Registry.GracefullyShutdown: a Cleanup first.
ShutdownSweeps ==
  /\ Alive
  /\ gpc = "drain" /\ queue = <<>>
  /\ CopyRegistry(Generator)
  /\ gpc' = "sweep"
  /\ UNCHANGED <<jobVars, regVars, sealed, chanVars, workVars, offer, cpc,
                 cancelVars, ctxDone>>

ShutdownLocks ==
  /\ Alive
  /\ gpc = "sweep" /\ Swept(Generator)
  /\ sealed' = TRUE /\ gpc' = "shutdown"
  /\ UNCHANGED <<jobVars, regVars, chanVars, workVars, offer, sweepVars,
                 cancelVars, ctxDone>>

\* Fault: the entries are removed and nothing is cancelled.
ShutdownCancels_OnlyRemoves(j) ==
  /\ Alive
  /\ gpc = "shutdown" /\ j \in Registered
  /\ registry' = [registry EXCEPT ![KeyOf[j]] = None]
  /\ UNCHANGED <<jobVars, evicted, sealed, chanVars, workVars, genVars, sweepVars,
                 cancelVars, ctxDone>>

\* With Registry.mu held, each job that is not terminal is cancelled, and its
\* entry removed.
ShutdownCancels(j) ==
  /\ Alive
  /\ gpc = "shutdown" /\ j \in Registered
  /\ IF IsTerminalStatus(status[j]) THEN UNCHANGED jobVars ELSE Stop(j, CANCELED)
  /\ registry' = [registry EXCEPT ![KeyOf[j]] = None]
  /\ UNCHANGED <<evicted, sealed, chanVars, workVars, genVars, sweepVars, cancelVars,
                 ctxDone>>

ShutdownEnds ==
  /\ Alive
  /\ gpc = "shutdown" /\ Registered = {}
  /\ sealed' = FALSE /\ gpc' = "stopped"
  /\ UNCHANGED <<jobVars, regVars, chanVars, workVars, offer, sweepVars,
                 cancelVars, ctxDone>>

Generate ==
  \/ Send \/ GeneratorStops \/ Drain \/ ShutdownSweeps \/ ShutdownLocks
  \/ ShutdownEnds
  \/ \E j \in Jobs : ShutdownCancels(j)

--------------------------------------------------------------------------------
(* Workers *)

Receive(w) ==
  /\ Alive
  /\ wpc[w] = "receive" /\ queue # <<>>
  /\ held' = [held EXCEPT ![w] = Head(queue)]
  /\ queue' = Tail(queue)
  /\ wpc' = [wpc EXCEPT ![w] = "begin"]
  /\ UNCHANGED <<jobVars, regVars, sealed, closed, result, active, processed,
                 genVars, sweepVars, cancelVars, ctxDone>>

Begin(w) ==
  /\ Alive
  /\ wpc[w] = "begin"
  /\ active' = active + 1
  /\ wpc' = [wpc EXCEPT ![w] = "check"]
  /\ UNCHANGED <<jobVars, regVars, sealed, chanVars, held, result, processed,
                 genVars, sweepVars, cancelVars, ctxDone>>

\* Run refuses a job that is running or terminal.
RunCheck(w) ==
  /\ Alive
  /\ wpc[w] = "check"
  /\ IF status[held[w]] = RUNNING \/ IsTerminalStatus(status[held[w]])
     THEN /\ result' = [result EXCEPT ![w] = "failed"]
          /\ wpc' = [wpc EXCEPT ![w] = "report"]
     ELSE /\ wpc' = [wpc EXCEPT ![w] = "start"]
          /\ UNCHANGED result
  /\ UNCHANGED <<jobVars, regVars, sealed, chanVars, held, active, processed,
                 genVars, sweepVars, cancelVars, ctxDone>>

\* A pipe that cannot be opened ends runcmd before it reports anything.
PipesFail(w) ==
  /\ Alive
  /\ wpc[w] = "start"
  /\ result' = [result EXCEPT ![w] = "failed"]
  /\ wpc' = [wpc EXCEPT ![w] = "report"]
  /\ UNCHANGED <<jobVars, regVars, sealed, chanVars, held, active, processed,
                 genVars, sweepVars, cancelVars, ctxDone>>

\* RUNNING is set whether or not the process starts and whatever the status is.
StartProcess(w) ==
  /\ Alive
  /\ wpc[w] = "start"
  /\ SetStatus(held[w], RUNNING)
  /\ \/ /\ proc' = [proc EXCEPT ![held[w]] = "running"]
        /\ wpc' = [wpc EXCEPT ![w] = "exec"]
        /\ UNCHANGED result
     \/ /\ result' = [result EXCEPT ![w] = "failed"]
        /\ wpc' = [wpc EXCEPT ![w] = "report"]
        /\ UNCHANGED proc
  /\ UNCHANGED <<regVars, sealed, chanVars, held, active, processed,
                 genVars, sweepVars, cancelVars, ctxDone>>

\* Fault: the way the process ended is returned as it is.
VerdictResult_Raw(j) == proc[j]

VerdictResult(j) ==
  CASE status[j] = CANCELED -> "cancelled"
    [] status[j] = TIMEOUT  -> "timeout"
    [] status[j] \notin StoppedStatuses /\ proc[j] = "ttr" -> "timeout"
    [] status[j] \notin StoppedStatuses /\ proc[j] = "ok"  -> "ok"
    [] OTHER -> "failed"

Verdict(w) ==
  /\ Alive
  /\ wpc[w] = "exec" /\ proc[held[w]] # "running"
  /\ proc' = [proc EXCEPT ![held[w]] = "over"]
  /\ result' = [result EXCEPT ![w] = VerdictResult(held[w])]
  /\ wpc' = [wpc EXCEPT ![w] = "report"]
  /\ UNCHANGED <<status, inTerminal, regVars, sealed, chanVars, held, active,
                 processed, genVars, sweepVars, cancelVars, ctxDone>>

\* Fault: a failure is logged and not reported.
Report_FailedOnlyLogs(w) ==
  /\ Alive
  /\ wpc[w] = "report"
  /\ IF result[w] = "ok" THEN SetStatus(held[w], SUCCESS)
     ELSE UNCHANGED <<status, inTerminal>>
  /\ result' = [result EXCEPT ![w] = "none"]
  /\ wpc' = [wpc EXCEPT ![w] = "delete"]
  /\ UNCHANGED <<proc, regVars, sealed, chanVars, held, active, processed,
                 genVars, sweepVars, cancelVars, ctxDone>>

\* The worker's switch: Finish, Failed, Timeout or Cancel.
Report(w) ==
  LET j == held[w] IN
  /\ Alive
  /\ wpc[w] = "report"
  /\ \/ result[w] = "ok" /\ SetStatus(j, SUCCESS)
     \/ /\ result[w] # "ok"
        /\ IF IsTerminalStatus(status[j])
           THEN UNCHANGED <<status, inTerminal>>
           ELSE SetStatus(j, CASE result[w] = "timeout"   -> TIMEOUT
                               [] result[w] = "cancelled" -> CANCELED
                               [] OTHER                   -> ERROR)
  /\ result' = [result EXCEPT ![w] = "none"]
  /\ wpc' = [wpc EXCEPT ![w] = "delete"]
  /\ UNCHANGED <<proc, regVars, sealed, chanVars, held, active, processed,
                 genVars, sweepVars, cancelVars, ctxDone>>

\* Fault: a worker whose record is gone goes on to the next job.
Forget_SkipsCount(w) ==
  /\ Alive
  /\ wpc[w] = "delete"
  /\ Delete(held[w])
  /\ held' = [held EXCEPT ![w] = None]
  /\ wpc' = [wpc EXCEPT ![w] = IF held[w] \in Registered THEN "count" ELSE "receive"]
  /\ UNCHANGED <<jobVars, sealed, chanVars, result, active, processed,
                 genVars, sweepVars, cancelVars, ctxDone>>

Forget(w) ==
  /\ Alive
  /\ wpc[w] = "delete"
  /\ Delete(held[w])
  /\ held' = [held EXCEPT ![w] = None]
  /\ wpc' = [wpc EXCEPT ![w] = "count"]
  /\ UNCHANGED <<jobVars, sealed, chanVars, result, active, processed,
                 genVars, sweepVars, cancelVars, ctxDone>>

Count(w) ==
  /\ Alive
  /\ wpc[w] = "count"
  /\ active' = active - 1 /\ processed' = processed + 1
  /\ wpc' = [wpc EXCEPT ![w] = "receive"]
  /\ UNCHANGED <<jobVars, regVars, sealed, chanVars, held, result, genVars,
                 sweepVars, cancelVars, ctxDone>>

Quit(w) ==
  /\ Alive
  /\ wpc[w] = "receive" /\ closed /\ queue = <<>>
  /\ wpc' = [wpc EXCEPT ![w] = "quit"]
  /\ UNCHANGED <<jobVars, regVars, sealed, chanVars, held, result, active, processed,
                 genVars, sweepVars, cancelVars, ctxDone>>

Work(w) ==
  \/ Receive(w) \/ Begin(w) \/ RunCheck(w) \/ PipesFail(w) \/ StartProcess(w)
  \/ Verdict(w) \/ Report(w) \/ Forget(w) \/ Count(w) \/ Quit(w)

--------------------------------------------------------------------------------
(* Main *)

Signal ==
  /\ Alive
  /\ ~ctxDone /\ ctxDone' = TRUE
  /\ UNCHANGED <<jobVars, regVars, sealed, chanVars, workVars, genVars, sweepVars,
                 cancelVars>>

\* Fault: main waits for one worker.
Exit_OneWorker ==
  /\ ~exited
  /\ \E w \in Workers : wpc[w] = "quit"
  /\ exited' = TRUE
  /\ UNCHANGED <<jobVars, KeyOf, regVars, sealed, chanVars, workVars, genVars,
                 sweepVars, cancelVars, ctxDone>>

\* main waits for the workers and for 150 ms, and for nobody else.
Exit ==
  /\ ~exited
  /\ \A w \in Workers : wpc[w] = "quit"
  /\ exited' = TRUE
  /\ UNCHANGED <<jobVars, KeyOf, regVars, sealed, chanVars, workVars, genVars,
                 sweepVars, cancelVars, ctxDone>>

Exited == exited /\ UNCHANGED vars

Next ==
  \/ \E j \in Jobs : ProcessEnds(j) \/ Accept(j) \/ Refuse(j) \/ CancellerFinds(j)
  \/ Generate
  \/ \E s \in Sweepers : Sweep(s)
  \/ CleanerTick \/ CleanerSwept \/ CleanerStops
  \/ CancellerCancels \/ CancellerStops
  \/ \E w \in Workers : Work(w)
  \/ Signal \/ Exit \/ Exited

Spec == Init /\ [][Next]_vars

(***************************************************************************)
(* Goroutines that can run do run, and every process ends at the latest at *)
(* its TTR, which the generator never leaves at zero.  A Go select picks   *)
(* at random among the ready cases, so the generator, offered the end of   *)
(* the context again and again, takes it (strong fairness).  The API, the  *)
(* tickers and the signal owe nothing.                                     *)
(***************************************************************************)
Fairness ==
  /\ \A j \in Jobs : WF_vars(ProcessEnds(j))
  /\ WF_vars(Generate) /\ SF_vars(GeneratorStops)
  /\ \A s \in Sweepers : WF_vars(Sweep(s))
  /\ WF_vars(CleanerSwept) /\ WF_vars(CancellerCancels)
  /\ \A w \in Workers : WF_vars(Work(w))
  /\ WF_vars(Exit)

FairSpec == Spec /\ Fairness

--------------------------------------------------------------------------------
(* Properties *)

PoolStatuses == {"NEW", "DUPLICATE", PENDING, RUNNING} \cup TerminalStatuses

TypeOK ==
  /\ status \in [Jobs -> PoolStatuses]
  /\ inTerminal \in [Jobs -> BOOLEAN]
  /\ proc \in [Jobs -> {"none", "running", "ok", "failed", "ttr", "over"}]
  /\ KeyOf \in [Jobs -> Keys] /\ evicted \subseteq Jobs
  /\ registry \in [Keys -> Jobs \cup {None}] /\ sealed \in BOOLEAN
  /\ queue \in Seq(Jobs) /\ closed \in BOOLEAN
  /\ wpc \in [Workers -> {"receive", "begin", "check", "start", "exec", "report",
                          "delete", "count", "quit"}]
  /\ held \in [Workers -> Jobs \cup {None}]
  /\ result \in [Workers -> {"none", "ok", "failed", "timeout", "cancelled"}]
  /\ active \in Nat /\ processed \in Nat
  /\ gpc \in {"select", "send", "drain", "sweep", "shutdown", "stopped"}
  /\ offer \in Jobs \cup {None}
  /\ cpc \in {"select", "sweep", "stopped"}
  /\ todo \in [Sweepers -> SUBSET Jobs]
  /\ doomed \in [Sweepers -> Jobs \cup {None}]
  /\ xpc \in {"select", "cancel", "stopped"} /\ target \in Jobs \cup {None}
  /\ ctxDone \in BOOLEAN /\ exited \in BOOLEAN

Accepted == {j \in Jobs : status[j] \notin {"NEW", "DUPLICATE"}}
Open     == {j \in Accepted : ~IsTerminalStatus(status[j])}
Held     == {j \in Jobs : \E w \in Workers : held[w] = j}
Queued   == {j \in Jobs : \E i \in 1..Len(queue) : queue[i] = j}

\* A job is in one place: with the generator, at one position of the channel, or
\* with one worker; so no job is ever executed by two workers.
OnePlace ==
  /\ \A i, k \in 1..Len(queue) : queue[i] = queue[k] => i = k
  /\ \A v, w \in Workers : held[v] # None /\ held[v] = held[w] => v = w
  /\ Queued \cap Held = {} /\ offer \notin Queued \cup Held

\* A job whose outcome the API was not told is reachable from the registry or in the
\* hands of a worker: no sweep, no cancellation and no shutdown loses it, except that
\* a deletion meant for another job of its key may take its record (worker.go:87,
\* job_registry.go:101).  That costs the job its record and not its execution: until
\* the shutdown drains the channel, the job is on its way to a worker or with one.
Accounted ==
  /\ Open \subseteq Registered \cup Held \cup evicted
  /\ gpc \in {"select", "send"} => Open \subseteq {offer} \cup Queued \cup Held

\* NumActiveJobs, which the heartbeat subtracts from NumWorkers to tell the API how
\* many slots are free (heartbeat/hearbeat.go:55-56), is the number of workers
\* between their two counter updates, so there are never fewer than zero free.
ActiveCount ==
  /\ active =
       Cardinality({w \in Workers : wpc[w] \notin {"receive", "begin", "quit"}})
  /\ NumWorkers - active >= 0

\* When GracefulShutdown returns, the registry is empty and every job not with a
\* worker has a terminal status, unless it had lost its record to another job of its
\* key (jobs_fetch.go:290-307).
ShutdownComplete ==
  gpc = "stopped" => Registered = {} /\ Open \subseteq Held \cup evicted

\* main leaves no main process of a job running behind it (supraworker.go:155-158).
NoOrphans == exited => \A j \in Jobs : proc[j] # "running"

\* After the signal the program ends.
ShutdownTerminates == ctxDone ~> exited

\* Every accepted job gets a terminal status while the program runs.
JobsEnd ==
  \A j \in Jobs : status[j] = PENDING ~> (IsTerminalStatus(status[j]) \/ exited)
================================================================================
