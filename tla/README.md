# Supraworker in TLA+

Supraworker polls an HTTP API for jobs, runs each job's shell command with a
pool of workers, streams the command's output back, reports every change of the
job's status, and obeys cancellations and time limits (TTR). This directory
specifies that behaviour, model-checks it with TLC and proves its safety properties with
TLAPS. Paths such as `job.go:506` are relative to `src/model`, `src/job`,
`src/worker`, `src/cmd`, `src/communicator`, `src/heartbeat` or
`src/docker-image/apiserver/app/resources`.

    tlc -config MCJob.cfg MCJob          # any .cfg with its module
    tlapm JobProofs.tla                  # any *Proofs.tla, and Induction.tla

`PROJECT.json` has the machine-readable side: components, runs, the source lines
of each definition, the faults each property was tried against, hazards, theorems.

## 1. The system

| Component | State | Operations | Talks to |
|---|---|---|---|
| Job (`model/job.go`) | `Status`, `PreviousStatus`, `inTerminalState`, `alreadyStopped`, `cmd`, `mu` | `Run`, `runcmd`, `Cancel`, `Timeout`, `TimeoutWithCancel`, `Failed`, `Finish`, `stopProcess` | the command through os/exec; the API through `doApiCall`, called with `mu` held |
| Log streaming (`job.go:365-500`, `runcmd`) | `streamsBuf`, `counter`, `timeQuote`, channels `notify`, `notifyStopStreams` | `AppendLogStream`, `resetCounterLoop`, `doSendSteamBuf`, `copyStd` | the pipes; `DoApiCall` for the stage `jobs.logstream` |
| Registry (`job_registry.go`) | `all`: key to job, `mu` | `Add`, `Delete`, `Cleanup`, `Record`, `GracefullyShutdown` | calls `Timeout` and `Cancel` of jobs |
| Generator, cleaner, canceller (`jobs_fetch.go`) | the jobs channel, tickers | fetch and offer jobs, sweep the registry, cancel, drain | API, registry, channel |
| Workers (`worker.go`) | `NumActiveJobs`, `NumProcessedJobs`, outcome counters | receive, run, report, forget | channel, job, registry |
| Main (`cmd/supraworker.go`) | context, wait group | signal, wait, exit | all of them |
| API requests and communicators (`request.go`, `http.go`) | the backoff of one `Fetch` | `DoApi`, `Fetch`, `fetch` | the API servers |
| Demo API server (`jobs.py`) | the table `jobs` | `fetch_new`, `fetch_cancel`, `runs` (conditional update) | the worker |
| Heartbeat (`hearbeat.go`) | `config.C.NumActiveJobs`, `NumFreeSlots` | a tick: both numbers to each API | `NumActiveJobs` of the workers |
| Process tree (`processtree.go`, `stopProcess`) | none that lasts | `NewProcessTree`, `Get` | the process table of the host |
| What becomes of a row (`jobs_fetch.go`, `utils.go`) | `TTR`, `StartAt`, the key, `CmdENV` | `StoreKey`, reading of limits, `MergeEnvVars`, `prepareContext` | the API's JSON, the command |
| Configuration, metrics, logging, health check | viper, counters | lookups, HTTP endpoints | - |

What is hard. Up to six goroutines hold a pointer to one job and act on it
through `mu`, while the process ends, os/exec kills it at the deadline and the
clock moves, none of which takes `mu`. `runcmd` gives `mu` up while the process
runs and takes it again for the verdict. Stops, verdict and final report are
three critical sections, not one. The registry is swept from a copy, and its
deletions go by key. Shutdown drains a channel the workers still read, and
`main` does not wait for it. Output lines cross two readers, a buffer with a
quota and a flush loop. Requests are repeated without being idempotent in their
effects on other reports. The descendants of a job are looked for in a process list that
changes while it is read. A server whose database failed answers that all is well. A job's key and its limit
are read from several names in the random order of a map, through floats and two integer types. The correctness of each part is stated in section 3;
the hazards, each at its line, are in `PROJECT.json`.

## 2. Modules

| Module | Models |
|---|---|
| `JobStatus` | the status strings (`vars.go:49-58`), `IsTerminalStatus`, what `GetPreviousStatus` shows |
| `JobReports` | abstract: what an API may be told about one job |
| `Job` | one job and every goroutine that acts on it |
| `JobInvariants` | the inductive invariant `JobInv` |
| `JobProofs` | theorems about `Job` |
| `Supraworker`, `SupraworkerProofs` | generator, channel, registry, cleaner, canceller, workers, shutdown |
| `LogStream`, `LogStreamProofs` | one job's output on its way to the API |
| `ApiDelivery`, `ApiDeliveryProofs` | reports over an unreliable network to several servers, a user's cancel on its way back |
| `ProcessTree`, `ProcessTreeProofs` | the stop of a job's descendants on a host whose processes fork, exit and reuse pids |
| `JobRequest`, `JobRequestProofs` | from a row of JSON to a key, a deadline and an environment |
| `Heartbeat`, `HeartbeatProofs` | heartbeats to several APIs, some of which fail |
| `Induction` | lemmas on naturals and loops, for the proofs |
| `MC*` | instances for TLC |

`Job` implements `JobReports` (run and theorem). `ApiDelivery` uses the actions
of `JobReports` as the job that makes the reports, so what is shown of a report's
travel holds for every report `Job` makes. `Supraworker` treats a critical section of a job
as one step, which is what `Job`'s `MutexHeld` allows it to do; what may happen
inside is the subject of `Job`. `LogStream` takes `runcmd` from the side of its
output, `Job` from the side of status and process. `ProcessTree` is what `Job` has as the one step
that finds and signals the descendants; `JobRequest` gives the moment at which `Job`'s context ends
and at which its `HitTimeout` may hold; `Heartbeat` reads the counter that `Supraworker` keeps.

### Job

`pc` says where each goroutine is. `Worker` goes `queued` (`RunCheck`, Run's
first critical section) - `once` (`startOnce`) - `pipes` - `start`, `starting`
(`cmd.Start`, RUNNING and its report, with `mu` held while the process may
already act) - `wait` (`cmd.Wait`: `WaitMarksDone`, then `WaitReturns`, because
`Process.Wait` marks the process done before `cmd` stores its state) - `final`,
`stopLogs` (`mu` taken, handshake with the log loop) - `return` - the verdict.
Any goroutine stops the job by `cancel` or `timeout`, then `stop`, `kill`,
`signal`, which are `stopProcess`, with `mu` held. `Timeouter` is the goroutine
of `TimeoutWithCancel`; `TimeoutAbandoned` is its five-minute limit. `Callers`
are the canceller, the cleaner and the shutdown; they may act at any time, since
they hold pointers and look at the registry before they act. `CallTimeout` needs
`hit`, which `HitTimeout` read earlier and without the lock. The fork of
descendants, a failing process-tree lookup, a failing pipe or start, the end
of the process and the deadline are choices of the environment.

`reports` has one record for each `doApiCall`. A panic (`panicked`) ends the program.

### Supraworker

One job per offer; `KeyOf`, chosen once by the API, lets two offers carry one key or each its own. `evicted` follows
whose record a deletion by key has removed that was meant for another job. `Accept`/`Refuse`/`Send`
are the generator, `CopyRegistry`, `SweepTimeout`, `SweepStuck`, `SweepDelete` are
`Cleanup` (a copy, then one job at a time, then the deletion by key), called by the
cleaner and by the shutdown. `CancellerFinds` and `CancellerCancels` are apart
because the lookup and the call are. `GeneratorStops`, `Drain`, `ShutdownSweeps`,
`ShutdownLocks`, `ShutdownCancels`, `ShutdownEnds` are the deferred shutdown, with `sealed` for
`Registry.mu`, which it holds throughout. `Receive` to `Count` are a worker,
with `PipesFail` for the start that ends before RUNNING is reported.
`Exit` is `main`, which waits for the workers only. `GeneratorStarts` has both ways to begin: without a URL
`StartGenerateJobs` closes the channel at once and starts none of its goroutines.

### LogStream

`written`, `fetched`, `scanned` count lines of a stream in the pipe, in the
reader's buffers and returned by `Scan`; `hand` is the line an `AppendLogStream` call
carries. `CheckQuota` reads the quota without a lock, `NotifyTimeout` is the
ten-minute limit, `Tick` is the ticker's case with `doNotify`, which reaches at most
one waiting reader. `WaitReturns` closes the pipes. `StopLoop` is the unbuffered
handshake. The worker itself appends one message when the command cannot start.
Any line may be too long for the scanner: `ScanTooLong` gives up what is in its buffers (`skipped`),
`ReadAll` takes the rest of the pipe at its end and hands it over as one entry, and `ReadAllFails` is the pipe closed
meanwhile. So `hand` is a sequence of lines.

### ApiDelivery

`db` is the job's row in each server. `doApiCall` starts a report to all
communicators in some order; `Answered`, `AnswerLost`, `RequestDelayed`, `FetchFails` are
the ends of one request of `Fetch`; `LateExecuted` executes a request after the
client gave it up. `Updated` is the conditional `UPDATE` of `jobs.py:234`. An error of the
database is only logged (`jobs.py:54-56`, `QueryFails`), so `Answered` may have saved nothing, and `FetchNew`
may hand a job out unmarked. A request the server refuses before its update (`flaky`) changes nothing
and is repeated, so it is no step. `lapsed` has the APIs that a report was given up for, that answered one
without saving it, or that executed one after later ones; it only serves the properties.
`AskCancel` is a user's request, on any server and at any time; `CancellerAsks` and
`CancellerCancels` are the canceller, which asks the main API only, looks the job up in the registry and
then waits for `mu`, hence for the report under way. `record` says whether the key that the row leads to finds the job:
it may not from the start (another spelling of the id), or no longer (`RecordRemoved`, any deletion). `CancellerStops` is
the end of its context.

### ProcessTree

`parent` is the host's process table, with pids given in turn and from the lowest free
one after the highest. `Host` forks and exits any process at any time; a process
that ends leaves its children to the root, and the main one stays until `Wait`. `StopBegins` to `StopEnds` are `stopProcess`:
`ReadStat` reads one process, `NewProcessTree` refuses or links what was read, `Get` collects what is below the main
process, `KillMain`, then `ListAgain` and `Signal`. `kin`, `standing`, `seen`, `reused` and
`strays` follow who is really the job's process and which pids have changed hands.

### JobRequest

One job from its row to its end. A row is a set of names with values, and a field may come under several of its
fourteen names; `GeneratorNames` and `CancellerNames` are the two lists of them. `Float64` and `Sprintf` are the conversions
that matter: a JSON number is rounded from 2^53 on and written with an exponent from 10^6 on, which `ParseInt` does not read,
and a null is written `<nil>`. A text is the sequence of the pieces between its colons, so that `StoreKey`, which joins three
of them by colons, is a concatenation, and two triples may have one key, as in the code.
`StoreKeys` and `CancelKeys` are the generator's and the canceller's copies of
one piece of code, sets because the names come in the order of a map. `TTRs` goes through the same
`int64` nanoseconds and `uint64` milliseconds as the code. `RunPrepares` makes the context
(`prepareContext`), and later, when the clock may have moved, `RunStarts` sets `StartAt` anew and makes the environment
(`MergeEnvVars`). `Cleanup` asks `HitTimeout`; a stop between the two halves of `Run` does not hold it up.

### Heartbeat

`C` is the global `config.C`. `TakeTick` copies the workers' counter, `FreeSlots` derives the
second number, then one `Fetch` after the other sends both in as many attempts as it
takes (`AnswerLost`), to be answered or given up (`FetchFails`). `StartHeartBeat` refuses to
start without a known communicator.

## 3. What the runs show

### Runs that pass

**job** (`MCJob.cfg`: two callers, one descendant; 52 711 states)
- `ReportsChain` - each report's previous status is the status reported before,
  although RUN_OK and RUN_FAILED are set without report. The server's update depends on it.
- `DoneMeansReported` - the worker leaves a job only in a reported terminal status,
  unless it abandoned a `Timeout`.
- `StoppedMeansKilled`, `NoProcessLeft` - a stop on record has ended the main
  process; a worker takes no other job while this one's process lives.
- `SuccessIsEarned` - SUCCESS only of a process that ended by itself with 0, and ERROR never of one.
- `QueuedStopHolds` - a stop before Run's check is never lost.
- `EventuallyReported`, `StopReturns` - liveness of verdict and stops.
- `ImplementsReports` - the reports are a behaviour of `JobReports`.
- `JobInv` - the invariant of the proofs, `MutexHeld` (`mu` is held by exactly who is inside
  a section of several steps) among its parts.

**process_tree** (`MCProcessTree.cfg`: five pids, two of them the root and the main process; 1.43 M states)
- `OnlyOurs` - whatever the table does while it is read, a stranger is signalled, or `Get` caught
  in a cycle, only if a pid changed hands during the stop.
- `StandingSignalled` - a stop that got its tree and its second list has signalled each descendant, at any depth,
  that stayed below the main process while the list was read and lives.
- `RefusedAfterWrap` - the tree is refused only once pids have started again from the lowest.

**job_request** (`MCJobRequest.cfg`: one of seventeen rows, sixteen limits alone or with a second one, two environments; 305 k states)
- `CancelFinds` - a row that writes the job as its own row did, under whichever names, leads the canceller to its key and to no
  other; a row of another job does not lead there, as long as no number is rounded and no string has a colon or is the text of a
  number with an exponent. Without either exception TLC finds the collision that the code has (section 6).
- `Deadline` - a command has a deadline whatever its limits are and however they overflow, and a
  single limit that can be read counts from the making of its context.
- `SweptAfterContext` - the registry takes a running job for timed out only after its context has ended, though `StartAt` and the
  context are set at different moments.
- `JobEnvWins` - the command sees the job's variables before the worker's, though `os/exec` lets the last of a name win.

**pool_safety** (`MCSupraworker.cfg`: two jobs with a key each or one for both, two workers, one
job that may be cancelled and time out; 1.50 M states)
- `OnePlace` - a job is with the generator, at one place of the channel or with one worker.
- `Accounted` - an unfinished job is in the registry or with a worker, unless a deletion meant for another job of its key
  took its record; that costs it the record and not its execution, for until the shutdown it is on its way to a worker all the same.
- `ActiveCount` - the counter behind the heartbeat's free slots is right.
- `ShutdownComplete`, `NoOrphans` - shutdown leaves no record and no unfinished job
  that no worker has, but those that had lost their record so; no main process of a job survives `main` (its descendants are
  `ProcessTree`'s and `ttr_leaves_children`'s subject).

**pool_liveness** (`MCSupraworkerLive.cfg`: two offers of one key, one worker; 154 k states) -
`ShutdownTerminates`, `JobsEnd`, also where `Add` refuses a key and
accepts it again and where the generator blocks in its send.

**log_stream** (`MCLogStream.cfg`: two streams of two lines, `elements` = 2; 323 k states)
- `InOrder` - a line that was read is handed to `DoApiCall` once and in its stream's order, whoever flushes
  (a call that fails loses what it was handed, `job.go:478-496`); after a line
  too long only what the scanner had in its buffers is missing.
- `BufferBounded` - the unlocked quota check lets each reader go one line too far and no more.
- `FlushedAtEnd` - nothing stays in the buffer or on its way to it.
- `LogsEnd` - `runcmd` gets through and the loop stops without any timeout.

**api_delivery** (`MCApiDelivery.cfg`: two APIs, two late requests; 679 k states)
- `InStep` - an API that took every report in its turn (none given up, none answered without being saved, none executed late)
  agrees with the worker between two reports.
- `FinalIsFinal` - no API replaces SUCCESS or ERROR.
- `CancelAnswered` - a user's cancel of a job that the canceller finds does not stay unanswered on the main API, unless that API
  has such a lapse, the canceller ends, or the job loses its record before it is over.

**heartbeat** (`MCHeartbeat.cfg`: three APIs, one of which may be down for good, two workers; 158 k states)
- `NumbersAgree` - the two numbers that an API is told belong together, over retries and while workers count.
- `HeardDespiteFailures` - an API that does not fail for ever hears of the worker again and again.

Each property of these runs is violated when one definition is changed the way a
plausible bug would change it. The changed forms stand before the originals in the
modules, each under a comment that begins with *Fault*.

### Runs that find the code at odds with its own words

| Run | Property | What happens |
|---|---|---|
| final_state | `TerminalIsFinal` | a stop between Run's check and `cmd.Start` is reported, then overwritten by RUNNING (`job.go:565`) |
| stop_panics | `NoPanic` | `Kill` fails because `Wait` has marked the process done; `stopProcess` reads the still nil `ProcessState` (`job.go:225`) |
| ttr_leaves_children | `TimeoutKillsDescendants` | at the TTR os/exec kills the main process only, and `alreadyStopped` makes the `Timeout` that follows skip the descendants |
| lost_output | `AllLogsRead` | `cmd.Wait` closes the pipes before the readers have read them (`job.go:632`) |

### Bounds

- *Job*: `Callers` and `Descendants` are the only parameters. Two callers give every
  pair of racing stops besides the worker's own and `Timeouter`'s, so four goroutines
  compete for `mu`; descendants behave alike and are only counted as a set. Nothing
  else is bounded: each caller stops the job as often as it likes. The theorems hold for any number.
- *Supraworker*: two jobs are enough for a channel with a successor, two jobs with
  two workers and a sweep that meets a newer job. With two keys `KeyOf` gives them one or two; with one they share it.
  `Cancellable` and `Overdue` restrict which jobs the environment may stop;
  with all of them stopped the passing runs grow past their time and the jobs
  behave alike. Workers are symmetric; symmetry is used in safety runs only.
- *LogStream*: `Lines` bounds what a stream carries; `elements` = 2 makes two lines hit the
  quota by count and by length, the ticker by time. With `Lines` = 1 and `elements`
  = 3 the lost line of `lost_output` needs no quota.
- *ApiDelivery*: two APIs, with one from which jobs come; `MaxLate` bounds the requests
  given up and still under way. Two of them can overtake each other and a third report.
  One execution of the row is followed: what is fetched again is refused or another job's, which is `Supraworker`'s subject.
- *ProcessTree*: `MaxPid` = 5 leaves three pids beside the root and the main process: a child, its
  child and a stranger. Pids wrap after three forks, so all the reuse a longer cycle has happens in few steps.
- *JobRequest*: an `int64` of 6 bits, two nanoseconds to a millisecond, two milliseconds to a second, two seconds to a minute, an
  exponent from 3 on, numbers rounded beyond `Precise` = 4 and a clock that stops at `MaxNow` = 5. Limits that overflow, wrap to a positive number, are zero or
  negative all occur; the theorems hold for any width and units.
- *Heartbeat*: three APIs are the fewest with a working one before and after one that fails.
  Nothing else is bounded.

Deadlock is checked except in `api_delivery`, where a job whose last report is
delivered stops, and in `job_request`, where one job ends and the clock runs out. In the other
modules an action (`Exited`, `Halted`, `Ended`, `Stopped`) states where the system may stop. In `Job` and
`Heartbeat` the clock, the callers and the ticker never run out.

### Fairness

Goroutines that can run do run (weak fairness). In `Job` those that wait for
`mu` need strong fairness, as callers may take it for ever; a Go mutex hands itself
over to a waiter that has starved for a millisecond. The deadline of the
context fires and os/exec kills the process. In `Supraworker` every process ends
(it has a TTR, which the generator never leaves at zero), and the generator, whose
`select` picks at random among ready cases, takes the end of the context at
some time (strong fairness). In `LogStream` the tickers tick. In `ApiDelivery` a delivery comes to its
end, since each `Fetch` is answered or uses up its backoff (`http.go:126-161`), and the
canceller's ticker ticks with not all of its requests lost and not all of the queries that answer them failing. In `Heartbeat` the same holds of the ticker and of each
`Fetch`, and an API in `Reachable` answers some of them (strong fairness); the others owe nothing. Never assumed:
that a process ends by itself, that the API offers or cancels anything, that a signal comes,
that one of the five- or ten-minute limits elapses.
An API call always returns: `DoApi` has a backoff limit and a request timeout.

## 4. What is proved

Every invariant and action property of the passing runs, for every value of the constants, from the named
assumptions of the modules alone:

| Theorem | States |
|---|---|
| `TypeCorrect`, `MutexExcludes` (`JobProofs`) | `TypeOK`, `MutexHeld` |
| `ReportsChained`, `WorkerReportsTheEnd`, `Refinement` (`JobProofs`) | `ReportsChain`, `DoneMeansReported`, `ImplementsReports` |
| `JobInvHolds`, `StoppedIsKilled`, `NothingLeft`, `SuccessEarned`, `QueuedStopIsKept` (`JobProofs`) | `JobInv`, `StoppedMeansKilled`, `NoProcessLeft`, `SuccessIsEarned`, `QueuedStopHolds` |
| `FinalStays`, `TypeCorrect`, `AgreesBetweenReports` (`ApiDeliveryProofs`) | `FinalIsFinal`, `TypeOK`, `InStep` |
| `DeadlineKept`, `SweptLater`, `TypeCorrect`, `CancelLeadsToJob`, `JobEnvironmentWins` (`JobRequestProofs`) | `Deadline`, `SweptAfterContext`, `TypeOK`, `CancelFinds`, `JobEnvWins` |
| `TypeCorrect`, `RefusedOnlyAfterWrap`, `OnlyOursSignalled`, `StandingAreSignalled` (`ProcessTreeProofs`) | `TypeOK`, `RefusedAfterWrap`, `OnlyOurs`, `StandingSignalled` |
| `TypeCorrect`, `NumbersBelongTogether` (`HeartbeatProofs`) | `TypeOK`, `NumbersAgree` |
| `TypeCorrect`, `BufferWithinQuota`, `NothingLeftBehind`, `LinesInOrder` (`LogStreamProofs`) | `TypeOK`, `BufferBounded`, `FlushedAtEnd`, `InOrder` |
| `TypeCorrect`, `ActiveCounted`, `InOnePlace`, `NoneLeftRunning`, `NoneLost`, `ShutdownLeavesNothing` (`SupraworkerProofs`) | `TypeOK`, `ActiveCount`, `OnePlace`, `NoOrphans`, `Accounted`, `ShutdownComplete` |

None of `Job`'s safety properties is inductive by itself; `JobInv` is. Its parts:

- `TypeOK` and `MutexHeld`: with the mutex known to be free, nobody is in the
  middle of a section.
- `ReportInv`: the API knows the status up to RUN_OK and RUN_FAILED (`Told`), and the
  status stays close to the worker's phase (`StatusByPhase`). Without the phase,
  `Verdict` could replace a status other than RUNNING unreported, and the next report would break the chain.
- `VerdictInv`: the worker calls `Cancel` only on a CANCELED job, and
  `Timeouter` acts only while or after the worker waits for it, which gives `DoneMeansReported`.
- `ProcInv`: the process follows the worker's phase, and a stopped job with a
  running process has its killer inside `stopProcess` (`KillerOnTheWay`), who holds `mu`;
  so with `mu` free it is dead.
- `ResultInv`: `Run` returns nil only after exit code 0, and an error never after that with an unfinished status.

Each preservation lemma goes through the actions of `Next` one by one. `Refinement` shows that
each step of `Job` is a step of `JobReports` or leaves the reports alone;
`ReportInv` supplies the status that `StopReport` and `Finish` replace.
`QueuedStopHolds` is proved as a stable predicate: a queued job in a terminal status
keeps one and can only be refused.

`FinalStays` rests on one fact: no request, pending or late, has a final status as its previous one.
`AgreesBetweenReports` needs more (`DeliveryInv`): while a report is under way, an API without a lapse agrees with
it if it was told, and otherwise with the report before it, whose status is the previous status that the request names.

`DeadlineKept` and `SweptLater` follow from `Timed`: a job that was read has a TTR of at least one millisecond, its
context ends that long after it was made, and `StartAt` is set no earlier. The arithmetic under it is proved for any width of the words: an `int64`
survives the detour through `uint64` milliseconds and back (`ThroughUint64`, `ReadTTRExact`),
negative limits included, so a single limit that can be read is kept to the nanosecond.

`CancelLeadsToJob` and `JobEnvironmentWins` follow from `Made`: a registered job has a key of its own row, and a command
the environment that `MergeEnvVars` made. The rest is about the operators. A field written alike in two rows has one text in
both (`AlikeTexts`), and the two lists of names are one, so the key is the only one the canceller can make. In a plain row
every text is one piece, from which the value's name can be read off again (`PlainTexts`); keys of three such pieces are equal
only piece by piece (`JoinedPieces`), so a row that leads to the key names the same job.
`MergeEnvVars` is a loop; after each of its turns it holds, of what it has gone through, the first variable of each name, and
once (`Firsts`, `MergeTurn`), so that it no longer matters that `os/exec` lets the last of a name win.

`NumbersBelongTogether` needs that the copy is written before the slots are derived from it
and by nobody else (`CAgrees`), and that no `Fetch` runs in between.

`BufferWithinQuota` needs that whoever has passed the unlocked check has a place in the buffer beyond the quota
(`Reserved`), and that the worker appends its own message only while the readers have not started (`Alone`).
`NothingLeftBehind` follows from the handshake: the worker comes to it only past both readers, and the loop
flushes after it (`Quiet`).

`LinesInOrder` needs that whoever may not append holds no line and that a reader which reads the rest of the pipe has nothing
left of the scanner's (`InLine`). A flush then moves the buffer's lines behind those sent; a reader's next line is larger
than all of its stream that are on their way.

In `ProcessTree` the host may do anything between two reads, so each theorem has an invariant of its own over `Shape`, which says
that the table is a tree to which `kin`, the job's processes, are closed. `RefusedOnlyAfterWrap` needs `Growing`: until pids
wrap, a parent has a smaller pid than its child, so it is read before. `OnlyOursSignalled` needs a witness (`Traced`): as long as
no pid changes hands there is a set `G` of pids, the main process's among them, that holds all the job ever had, has none of
the living strangers, and is closed under the links read, old and new; so `Get` collects nothing outside it.
`StandingAreSignalled` needs that the descendants that keep their place are those below the main process by links that
will not change (`Stands`): the scan lists each with its link, and the least set that `Get` computes
has all of them.

In `Supraworker`, `ActiveCounted` is kept with the type of what the workers hold (`Typed`). `InOnePlace` needs that a
job the generator offers, or one in the channel, is no worker's, and that positions of the channel hold different jobs
(`Placed`); it holds however keys are shared. `NoneLeftRunning` needs that a running process has its
worker (`Attended`), for `main` waits for the workers. `NoneLost` needs that whoever is about to delete
a record (a sweep, the shutdown, a worker) means that of a settled job (`Settling`). A deletion goes by key, so it may hit
the record of another job, and only then is that job `evicted` (`RecordKept`); a job without record still moves
from the generator to the channel and to a worker (`OnItsWay`). No assumption is made on who shares a key.
`ShutdownLeavesNothing` adds that from the last sweep to the end
nobody puts a record back (`Emptied`).

The induction that two loops and the tree need is made over a set (`Induction`: the numbers up to `m` that have what is to be
shown), as the library's theorems about an arbitrary predicate cannot be instantiated here.

Checked by TLC only: liveness (`EventuallyReported`, `StopReturns`, `ShutdownTerminates`, `JobsEnd`, `LogsEnd`, `CancelAnswered`,
`HeardDespiteFailures`), for which the prover has no rule, as fairness speaks of `ENABLED`. The four properties that
the code violates have their counterexamples in the runs.

## 5. Abstractions

- In `Job` the TTR is the moment at which `hit`, or the context, changes; which moment that is
  `JobRequest` shows. The parameters of a job are copied into requests and change nothing else.
- `doApiCall` in `Job` is one append to `reports`; how it travels is `ApiDelivery`.
- The log loop in `Job` is the handshake only (`stopLogs`), which `LogStream` shows to take place.
- In `LogStream` a line has no length: any may be too long. The tail of such a line, which may come
  at the head of what `ReadAll` reads, is not counted, and what `ReadAll` reads is one entry of the buffer.
- The Go data races on `len(streamsBuf)` and `StartAt` are modelled as
  reads of a current value, at any moment.
- A batch of fetched jobs is one job at a time in `Supraworker`.
- `GracefullyShutdown` and `Cleanup` hold or release `Registry.mu` as the code does; readers of the
  registry that change nothing (`Map`, `Len`) are left out.
- The process table of `ProcessTree` is the system's, modelled as Linux gives pids; a descendant that lets itself be
  adopted is the host's choice like any other exit.
- In `JobRequest` a number is whole and below twice 2^53, where a float64 steps by two; fractions and larger numbers only add
  collisions of the same kind. How a string is cut by its colons is kept, the characters in between are not.
- In `Heartbeat` the other API calls, which read `config.C` too, are left out.

Not modelled: the configuration (viper lookups and templates; the file is watched and read again when it changes,
`cmd/supraworker.go:104-111`, while the models keep the number of workers and the APIs of the start), the HTTP servers of metrics
and health check (I/O over the counters), the values carried for log lines, `CmdWrapper` and what it calls (it chooses the shell's
argument list, on which no property depends), and `logs.py`, which stores what it is given.

## 6. Observations without a run

- `Finish` sets SUCCESS over CANCELED or TIMEOUT when the stop falls between
  `runcmd`'s verdict and `Finish` (`job.go:707`). `JobReports` allows it, because the code does it.
- A cancelled job is counted in `JobsTimeout` (`worker.go:70`).
- The worker and `Cleanup` delete by key (`worker.go:87`, `job_registry.go:100`). When a key has
  been accepted again, the newer job loses its record and can no longer be
  cancelled or swept, also not by the shutdown; it is executed all the same (`evicted` in `Accounted` and `ShutdownComplete`).
- `GracefullyShutdown` returns `failed`, the opposite of what its comment says.
- When the worker gave a `Timeout` up, its goroutine blocks for ever on `errorChan`.
- An API that misses a report may refuse all that follow (`jobs.py:234` asks for the previous status),
  and answers 200 all the same. After one failing communicator the others are not told.
- `jobs.py:54-56` logs an error of the database and goes on: `put` answers 200 to a report that it has not saved. After a
  lost CANCELED the row shows `cancel` for good, for the job is terminal and nothing is reported again.
- `fetch_new` marks a job `propogated` before the response arrives; a lost response loses the job.
- A user's `cancel` is overwritten by a report under way.
- `hearbeat.go:27` tests `err` where the second attempt set `err1`, so the
  configuration with one communicator is refused (`StartHeartBeat` in `Heartbeat`).
- A heartbeat's requests run on `context.Background()` (`http.go:174`), and `backoff.Retry` looks at no context: neither the 60 seconds of
  `hearbeat.go:54` nor the shutdown ends its retries. An entry without URL counts as sent. Other API
  calls may read `config.C` between its two writes, and without a heartbeat `NumFreeSlots` stays 0 for all of them.
- Two jobs of one key can run at once: `Cleanup` drops the record of a job about to start,
  `Add` accepts the key again. Whatever the generator has not reported when `main` returns goes unreported, since
  `main` does not wait for its shutdown. Without a fetch URL the program ends by itself.
- `stopProcess` can signal a stranger whose process got the pid of a descendant between the two lists, or
  before the signal; a pid that changes hands while the first list is read can close a cycle
  through the main process, on which `Get` never returns. A descendant forked after the scan passed its pid, or orphaned before,
  is missed; with a list in which a parent is missing, all are.
- Ids from 10^6 on as JSON numbers turn into `1e+06`. A row that spells such an id as a number
  and as a string, as the demo API's rows do (`id` and `job_id`), leads to one of two keys: the
  canceller may miss the job and `Add` a duplicate, though the key is meant to be unique (`job.go:35`). `CancelFinds` leaves these rows out.
- Ids that differ beyond 2^53, as JSON numbers, are one id, so are the number 10^6 and the string `1e+06`, and `a:b` with run
  `c` has the key of `a` with run `b:c`: the canceller may
  then cancel another job, and `Add` refuse it. A null id is the id `<nil>`, hence no reason to skip the row.
- A limit from 10^6 on as a JSON number is never parsed and the job gets eight hours; a negative
  one ends the command at once. A job whose command is missing or blank panics the program (`utils.go:117`), and so does a command whose
  `Stat` fails otherwise than for a missing file (`utils.go:96-100`).
- The scanner's limit is `bufio.MaxScanTokenSize`, 64 KB, not the megabyte of `job.go:601`. After a longer
  line the rest of the stream arrives in one piece at its end, or not at all if the pipe is closed first.

## 7. Plan

Done in this order: `JobStatus`, `JobReports`, `Job` with its runs and proofs; `Supraworker`;
`LogStream`; `ApiDelivery` with its proofs; `ProcessTree`; `JobRequest` and `Heartbeat` with their
proofs; `LogStreamProofs`; `SupraworkerProofs`; `ProcessTreeProofs`, the order of lines and the rest of
`JobRequestProofs`. Open:

A job offered again after `AskCancel`, with the registry between `ApiDelivery` and `Supraworker`.
