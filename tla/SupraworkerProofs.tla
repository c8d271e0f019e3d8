--------------------------- MODULE SupraworkerProofs ---------------------------
(***************************************************************************)
(* The pool's invariants, proved for any jobs, keys and workers: each job  *)
(* is in one place, the number of active jobs is right, main leaves no     *)
(* process behind, and no job is lost but for the records that a job of    *)
(* the same key takes with it.                                             *)
(***************************************************************************)
EXTENDS Supraworker, FiniteSetTheorems, TLAPS

USE DEF Alive, jobVars, regVars, chanVars, workVars, sweepVars, cancelVars, genVars

\* Each goroutine has a job in hand just where it needs one.
Handed ==
  /\ xpc = "cancel" => target # None
  /\ gpc = "send" <=> offer # None
  /\ \A w \in Workers : held[w] = None <=> wpc[w] \in {"receive", "count", "quit"}

\* The workers between their two updates of NumActiveJobs.
Busy == {w \in Workers : wpc[w] \notin {"receive", "begin", "quit"}}

Typed == TypeOK /\ Handed /\ active = Cardinality(Busy)

LEMMA Named == Cleaner \in Sweepers /\ Generator \in Sweepers
BY DEF Sweepers

LEMMA PoolStatusesAre ==
  PoolStatuses = {"NEW", "DUPLICATE", "PENDING", "RUNNING", "ERROR", "CANCELED",
                  "SUCCESS", "TIMEOUT"}
BY DEF PoolStatuses, PENDING, RUNNING, TerminalStatuses, ERROR, CANCELED, SUCCESS,
   TIMEOUT

LEMMA StopTyped ==
  ASSUME TypeOK, NEW j \in Jobs, NEW s \in {TIMEOUT, CANCELED}, Stop(j, s)
  PROVE  /\ status' \in [Jobs -> PoolStatuses]
         /\ inTerminal' \in [Jobs -> BOOLEAN]
         /\ proc' \in [Jobs -> {"none", "running", "ok", "failed", "ttr", "over"}]
<1>1. s \in PoolStatuses
  BY DEF PoolStatuses, TerminalStatuses
<1>2. /\ status' \in {status, [status EXCEPT ![j] = s]}
      /\ inTerminal' \in {inTerminal, [inTerminal EXCEPT ![j] = TRUE],
                         [inTerminal EXCEPT ![j] = inTerminal[j]]}
  BY DEF Stop, SetStatus, IsTerminalStatus, TypeOK
<1>3. proc' \in {proc, [proc EXCEPT ![j] = "failed"]}
  BY DEF Stop, TypeOK
<1>4. /\ status \in [Jobs -> PoolStatuses] /\ inTerminal \in [Jobs -> BOOLEAN]
      /\ proc \in [Jobs -> {"none", "running", "ok", "failed", "ttr", "over"}]
  BY DEF TypeOK
<1>5. status' \in [Jobs -> PoolStatuses]
  BY <1>1, <1>2, <1>4
<1>6. inTerminal' \in [Jobs -> BOOLEAN]
  BY <1>2, <1>4
<1>7. proc' \in [Jobs -> {"none", "running", "ok", "failed", "ttr", "over"}]
  BY <1>3, <1>4
<1> QED BY <1>5, <1>6, <1>7

LEMMA SetStatusTyped ==
  ASSUME TypeOK, NEW j \in Jobs, NEW s \in PoolStatuses, SetStatus(j, s)
  PROVE  status' \in [Jobs -> PoolStatuses] /\ inTerminal' \in [Jobs -> BOOLEAN]
BY DEF TypeOK, SetStatus, IsTerminalStatus

LEMMA BusyFinite == IsFiniteSet(Busy) /\ Cardinality(Busy) \in Nat
<1>1. IsFiniteSet(Busy)
  BY PoolAssumption, FS_Subset DEF Busy
<1> QED BY <1>1, FS_CardinalityType

\* Who is busy depends on the workers alone.
LEMMA SameBusy == UNCHANGED wpc => Busy' = Busy
BY DEF Busy

LEMMA TypedInit == Init => Typed
<1> SUFFICES ASSUME Init PROVE Typed
  OBVIOUS
<1>1. TypeOK
  <2>1. PICK url \in BOOLEAN : GeneratorStarts(url)
    BY DEF Init
  <2>2. closed \in BOOLEAN /\ gpc \in {"select", "stopped"}
          /\ cpc \in {"select", "stopped"} /\ xpc \in {"select", "stopped"}
    BY <2>1 DEF GeneratorStarts
  <2>3. status \in [Jobs -> PoolStatuses]
    BY PoolStatusesAre DEF Init
  <2>4. /\ inTerminal \in [Jobs -> BOOLEAN] /\ proc \in [Jobs -> {"none"}]
        /\ KeyOf \in [Jobs -> Keys] /\ evicted \subseteq Jobs
        /\ registry \in [Keys -> Jobs \cup {None}] /\ queue \in Seq(Jobs)
        /\ wpc \in [Workers -> {"receive"}] /\ held \in [Workers -> Jobs \cup {None}]
        /\ result \in [Workers -> {"none"}]
        /\ todo \in [Sweepers -> SUBSET Jobs]
             /\ doomed \in [Sweepers -> Jobs \cup {None}]
    BY DEF Init
  <2>5. /\ sealed = FALSE /\ active = 0 /\ processed = 0 /\ offer = None
             /\ target = None
        /\ ctxDone = FALSE /\ exited = FALSE
    BY DEF Init
  <2> QED BY <2>2, <2>3, <2>4, <2>5 DEF TypeOK
<1>2. Handed
  BY DEF Init, Handed, GeneratorStarts
<1>3. Busy = {}
  BY DEF Init, Busy
<1> QED BY <1>1, <1>2, <1>3, FS_EmptySet DEF Init, Typed

LEMMA SweepTyped ==
  ASSUME Typed, \/ \E s \in Sweepers : Sweep(s)
                \/ CleanerTick \/ CleanerSwept \/ CleanerStops
  PROVE  Typed'
<1> USE Named, SameBusy DEF Typed, Handed, TypeOK
<1>1. ASSUME NEW s \in Sweepers, SweepDelete(s) PROVE Typed'
  <2>1. doomed[s] \in Jobs /\ KeyOf[doomed[s]] \in Keys
    BY <1>1 DEF SweepDelete
  <2>2. /\ registry' \in [Keys -> Jobs \cup {None}] /\ evicted' \subseteq Jobs
        /\ doomed' \in [Sweepers -> Jobs \cup {None}]
    BY <1>1, <2>1 DEF SweepDelete, Delete
  <2> QED BY <1>1, <2>2 DEF SweepDelete
<1>2. ASSUME NEW s \in Sweepers, NEW j \in Jobs, SweepTimeout(s, j) PROVE Typed'
  <2>1. todo' \in [Sweepers -> SUBSET Jobs]
             /\ doomed' \in [Sweepers -> Jobs \cup {None}]
    BY <1>2 DEF SweepTimeout
  <2> QED BY <1>2, <2>1, StopTyped DEF SweepTimeout
<1>3. ASSUME NEW s \in Sweepers, NEW j \in Jobs, SweepStuck(s, j) PROVE Typed'
  <2>1. todo' \in [Sweepers -> SUBSET Jobs]
             /\ doomed' \in [Sweepers -> Jobs \cup {None}]
    BY <1>3 DEF SweepStuck
  <2> QED BY <1>3, <2>1 DEF SweepStuck
<1>4. CASE CleanerTick
  <2>1. todo' \in [Sweepers -> SUBSET Jobs]
    BY <1>4 DEF CleanerTick, CopyRegistry, Registered
  <2> QED BY <1>4, <2>1 DEF CleanerTick, CopyRegistry
<1>5. CASE CleanerSwept \/ CleanerStops
  BY <1>5 DEF CleanerSwept, CleanerStops
<1> QED BY <1>1, <1>2, <1>3, <1>4, <1>5 DEF Sweep

LEMMA CancellerTyped ==
  ASSUME Typed,
         (\E j \in Jobs : CancellerFinds(j)) \/ CancellerCancels \/ CancellerStops
  PROVE  Typed'
<1> USE SameBusy DEF Typed, Handed, TypeOK
<1>1. ASSUME NEW j \in Jobs, CancellerFinds(j) PROVE Typed'
  BY <1>1, PoolAssumption DEF CancellerFinds
<1>2. CASE CancellerCancels
  <2>1. target \in Jobs
    BY <1>2 DEF CancellerCancels
  <2> QED BY <1>2, <2>1, StopTyped DEF CancellerCancels
<1>3. CASE CancellerStops
  BY <1>3 DEF CancellerStops
<1> QED BY <1>1, <1>2, <1>3

LEMMA GeneratorTyped ==
  ASSUME Typed, (\E j \in Jobs : Accept(j) \/ Refuse(j)) \/ Generate
  PROVE  Typed'
<1> USE SameBusy, PoolAssumption, Named DEF Typed, Handed, TypeOK
<1>1. ASSUME NEW j \in Jobs, Accept(j) PROVE Typed'
  <2>1. status' \in [Jobs -> PoolStatuses] /\ inTerminal' \in [Jobs -> BOOLEAN]
    BY <1>1, SetStatusTyped DEF Accept, PoolStatuses
  <2> QED BY <1>1, <2>1 DEF Accept, Add
<1>2. ASSUME NEW j \in Jobs, Refuse(j) PROVE Typed'
  <2>1. status' \in [Jobs -> PoolStatuses]
    BY <1>2 DEF Refuse, PoolStatuses
  <2> QED BY <1>2, <2>1 DEF Refuse
<1>3. CASE Send
  <2>1. queue' \in Seq(Jobs)
    BY <1>3 DEF Send
  <2> QED BY <1>3, <2>1 DEF Send
<1>4. CASE GeneratorStops
  BY <1>4 DEF GeneratorStops
<1>5. CASE Drain
  <2>1. queue' \in Seq(Jobs)
    BY <1>5 DEF Drain
  <2> QED BY <1>5, <2>1 DEF Drain
<1>6. CASE ShutdownSweeps
  <2>1. todo' \in [Sweepers -> SUBSET Jobs]
    BY <1>6 DEF ShutdownSweeps, CopyRegistry, Registered
  <2> QED BY <1>6, <2>1 DEF ShutdownSweeps, CopyRegistry
<1>7. CASE ShutdownLocks
  BY <1>7 DEF ShutdownLocks
<1>8. CASE ShutdownEnds
  BY <1>8 DEF ShutdownEnds
<1>9. ASSUME NEW j \in Jobs, ShutdownCancels(j) PROVE Typed'
  <2>1. /\ status' \in [Jobs -> PoolStatuses]
        /\ inTerminal' \in [Jobs -> BOOLEAN]
        /\ proc' \in [Jobs -> {"none", "running", "ok", "failed", "ttr", "over"}]
    BY <1>9, StopTyped DEF ShutdownCancels
  <2> QED BY <1>9, <2>1 DEF ShutdownCancels
<1> QED BY <1>1, <1>2, <1>3, <1>4, <1>5, <1>6, <1>7, <1>8, <1>9 DEF Generate

LEMMA WorkTyped ==
  ASSUME Typed, NEW w \in Workers, Work(w)
  PROVE  Typed'
<1> USE PoolAssumption DEF Typed, Handed, TypeOK
<1>0. IsFiniteSet(Busy) /\ Cardinality(Busy) \in Nat
  BY BusyFinite
<1>1. CASE Receive(w)
  <2>1. Head(queue) \in Jobs /\ queue' \in Seq(Jobs)
    BY <1>1 DEF Receive
  <2>2. Busy' = Busy
    BY <1>1 DEF Receive, Busy
  <2> QED BY <1>1, <2>1, <2>2 DEF Receive
<1>2. CASE Begin(w)
  <2>1. Busy' = Busy \cup {w} /\ w \notin Busy
    BY <1>2 DEF Begin, Busy
  <2>2. Cardinality(Busy \cup {w}) = Cardinality(Busy) + 1
    BY <1>0, <2>1, FS_AddElement
  <2>3. active' = Cardinality(Busy') /\ active' \in Nat
    BY <1>0, <1>2, <2>1, <2>2 DEF Begin
  <2> QED BY <1>2, <2>3 DEF Begin
<1>3. CASE RunCheck(w)
  <2>1. Busy' = Busy
    BY <1>3 DEF RunCheck, Busy
  <2>2. /\ wpc' \in {[wpc EXCEPT ![w] = "start"], [wpc EXCEPT ![w] = "report"]}
        /\ result' \in {result, [result EXCEPT ![w] = "failed"]}
    BY <1>3 DEF RunCheck
  <2> QED BY <1>3, <2>1, <2>2 DEF RunCheck
<1>4. CASE StartProcess(w)
  <2>1. Busy' = Busy
    BY <1>4 DEF StartProcess, Busy
  <2>2. held[w] \in Jobs
    BY <1>4 DEF StartProcess
  <2>3. status' \in [Jobs -> PoolStatuses] /\ inTerminal' \in [Jobs -> BOOLEAN]
    BY <1>4, <2>2, SetStatusTyped DEF StartProcess, PoolStatuses
  <2>4. proc' \in [Jobs -> {"none", "running", "ok", "failed", "ttr", "over"}]
    BY <1>4, <2>2 DEF StartProcess
  <2>5. /\ wpc' \in {[wpc EXCEPT ![w] = "exec"], [wpc EXCEPT ![w] = "report"]}
        /\ result' \in {result, [result EXCEPT ![w] = "failed"]}
    BY <1>4 DEF StartProcess
  <2>6. wpc' \in [Workers -> {"receive", "begin", "check", "start", "exec", "report",
                             "delete", "count", "quit"}]
    BY <2>5
  <2>7. wpc[w] = "start" /\ held[w] # None
    BY <1>4 DEF StartProcess
  <2>8. \A v \in Workers :
          held[v] = None <=> wpc'[v] \in {"receive", "count", "quit"}
    BY <2>5, <2>7
  <2>9. result' \in [Workers -> {"none", "ok", "failed", "timeout", "cancelled"}]
    BY <2>5
  <2> QED BY <1>4, <2>1, <2>3, <2>4, <2>6, <2>8, <2>9 DEF StartProcess
<1>5. CASE Verdict(w)
  <2>1. Busy' = Busy
    BY <1>5 DEF Verdict, Busy
  <2>2. VerdictResult(held[w]) \in {"ok", "failed", "timeout", "cancelled"}
    BY DEF VerdictResult
  <2> QED BY <1>5, <2>1, <2>2 DEF Verdict
<1>6. CASE Report(w)
  <2>1. Busy' = Busy
    BY <1>6 DEF Report, Busy
  <2>2. held[w] \in Jobs
    BY <1>6 DEF Report
  <2>3. status' \in [Jobs -> PoolStatuses] /\ inTerminal' \in [Jobs -> BOOLEAN]
    <3>1. {SUCCESS, TIMEOUT, CANCELED, ERROR} \subseteq PoolStatuses
      BY DEF PoolStatuses, TerminalStatuses
    <3> QED BY <1>6, <2>2, <3>1, SetStatusTyped DEF Report
  <2> QED BY <1>6, <2>1, <2>3 DEF Report
<1>7. CASE Forget(w)
  <2>1. Busy' = Busy
    BY <1>7 DEF Forget, Busy
  <2>2. KeyOf[held[w]] \in Keys
    BY <1>7 DEF Forget
  <2>3. registry' \in [Keys -> Jobs \cup {None}] /\ evicted' \subseteq Jobs
    BY <1>7, <2>2 DEF Forget, Delete
  <2>4. /\ held' \in [Workers -> Jobs \cup {None}]
        /\ wpc' \in [Workers -> {"receive", "begin", "check", "start", "exec",
                                "report", "delete", "count", "quit"}]
        /\ \A v \in Workers :
             held'[v] = None <=> wpc'[v] \in {"receive", "count", "quit"}
    BY <1>7 DEF Forget
  <2> QED BY <1>7, <2>1, <2>3, <2>4 DEF Forget
<1>8. CASE Count(w)
  <2>1. Busy' = Busy \ {w} /\ w \in Busy
    BY <1>8 DEF Count, Busy
  <2>2. active' = Cardinality(Busy')
    BY <1>0, <1>8, <2>1, FS_RemoveElement DEF Count
  <2>3. active' \in Nat
    <3>1. IsFiniteSet(Busy')
      BY <1>0, <2>1, FS_RemoveElement
    <3> QED BY <2>2, <3>1, FS_CardinalityType
  <2> QED BY <1>8, <2>2, <2>3 DEF Count
<1>9. CASE Quit(w)
  <2>1. Busy' = Busy
    BY <1>9 DEF Quit, Busy
  <2> QED BY <1>9, <2>1 DEF Quit
<1>10. CASE PipesFail(w)
  <2>1. Busy' = Busy
    BY <1>10 DEF PipesFail, Busy
  <2> QED BY <1>10, <2>1 DEF PipesFail
<1> QED
  BY <1>1, <1>2, <1>3, <1>4, <1>5, <1>6, <1>7, <1>8, <1>9, <1>10 DEF Work

LEMMA TypedStep == Typed /\ [Next]_vars => Typed'
<1> SUFFICES ASSUME Typed, [Next]_vars PROVE Typed'
  OBVIOUS
<1>1. ASSUME NEW j \in Jobs, ProcessEnds(j) PROVE Typed'
  <2>1. proc' \in [Jobs -> {"none", "running", "ok", "failed", "ttr", "over"}]
    BY <1>1 DEF ProcessEnds, Typed, TypeOK
  <2> QED BY <1>1, <2>1, SameBusy DEF ProcessEnds, Typed, TypeOK, Handed
<1>2. CASE Signal \/ Exit
  <2>1. ctxDone' \in BOOLEAN /\ exited' \in BOOLEAN
    BY <1>2 DEF Signal, Exit, Typed, TypeOK
  <2>2. UNCHANGED <<jobVars, KeyOf, regVars, sealed, chanVars, workVars, genVars,
                    sweepVars, cancelVars>>
    BY <1>2 DEF Signal, Exit
  <2> QED BY <2>1, <2>2, SameBusy DEF Typed, TypeOK, Handed
<1>3. CASE UNCHANGED vars
  BY <1>3, SameBusy DEF vars, Typed, TypeOK, Handed
<1> QED
  BY <1>1, <1>2, <1>3, SweepTyped, CancellerTyped, GeneratorTyped, WorkTyped
     DEF Next, Exited

\* Every variable stays in its range.
THEOREM TypeCorrect == Spec => []TypeOK
<1>1. Typed => TypeOK
  BY DEF Typed
<1> QED BY <1>1, TypedInit, TypedStep, PTL DEF Spec

\* For any set of workers NumActiveJobs is the number of workers at a job, so there
\* are never fewer than zero free slots.
THEOREM ActiveCounted == Spec => []ActiveCount
<1>1. Typed => ActiveCount
  <2> SUFFICES ASSUME Typed PROVE ActiveCount
    OBVIOUS
  <2>1. Cardinality(Busy) <= NumWorkers /\ NumWorkers \in Nat
    BY PoolAssumption, FS_Subset, FS_CardinalityType DEF Busy, NumWorkers
  <2> QED BY <2>1, BusyFinite DEF Typed, ActiveCount, Busy
<1> QED BY <1>1, TypedInit, TypedStep, PTL DEF Spec

--------------------------------------------------------------------------------
(* One place for each job *)

USE DEF IsTerminalStatus, TerminalStatuses, PENDING, RUNNING, ERROR, CANCELED, SUCCESS,
        TIMEOUT

\* What a step may do to a job: it is never new again, a terminal status is given up
\* only by the worker that starts the job, and what else the pool looks at follows its
\* status or its worker.
JobKept(j) ==
  /\ j \in Accepted => j \in Accepted'
  /\ j \in Accepted' => j \in Accepted \/ Accept(j) \/ IsTerminalStatus(status'[j])
                          \/ j \in Held'
  /\ IsTerminalStatus(status[j]) =>
       \/ IsTerminalStatus(status'[j])
       \/ \E w \in Workers : wpc[w] = "start" /\ held[w] = j /\ held'[w] = j
  /\ inTerminal'[j] => inTerminal[j] \/ IsTerminalStatus(status'[j])
  /\ proc'[j] # "none" => proc[j] # "none" \/ j \in Held'
  /\ proc'[j] = "running" =>
       proc[j] = "running" \/ \E w \in Workers : wpc'[w] = "exec" /\ held'[w] = j

LEMMA StatusKept ==
  ASSUME Typed, NEW j \in Jobs, NEW k \in Jobs,
         NEW s \in {PENDING, SUCCESS, ERROR, CANCELED, TIMEOUT}, SetStatus(k, s),
         s = PENDING => status[k] = "NEW" /\ Accept(k), proc' = proc
  PROVE  JobKept(j)
BY DEF Typed, TypeOK, JobKept, Accepted, SetStatus

LEMMA StopKept ==
  ASSUME Typed, NEW j \in Jobs, NEW k \in Jobs, NEW s \in {TIMEOUT, CANCELED}, Stop(k,
         s)
  PROVE  JobKept(j)
BY DEF Typed, TypeOK, JobKept, Accepted, SetStatus, Stop

LEMMA SameKept ==
  ASSUME NEW j \in Jobs, UNCHANGED <<status, inTerminal, proc>>
  PROVE  JobKept(j)
BY DEF JobKept, Accepted

LEMMA JobStep ==
  ASSUME Typed, [Next]_vars, NEW j \in Jobs
  PROVE  JobKept(j)
<1> USE DEF Typed, TypeOK
<1>1. CASE UNCHANGED <<status, inTerminal, proc>>
  BY <1>1, SameKept
<1>2. ASSUME NEW k \in Jobs, ProcessEnds(k) PROVE JobKept(j)
  BY <1>2 DEF ProcessEnds, JobKept, Accepted
<1>3. ASSUME NEW k \in Jobs, Accept(k) PROVE JobKept(j)
  <2>1. SetStatus(k, PENDING) /\ status[k] = "NEW" /\ proc' = proc
    BY <1>3 DEF Accept
  <2> QED BY <1>3, <2>1, StatusKept
<1>4. ASSUME NEW k \in Jobs, Refuse(k) PROVE JobKept(j)
  BY <1>4 DEF Refuse, JobKept, Accepted
<1>5. ASSUME NEW s \in Sweepers, Sweep(s) PROVE JobKept(j)
  BY <1>1, <1>5, StopKept DEF Sweep, SweepDelete, SweepTimeout, SweepStuck
<1>6. CASE CancellerCancels
  <2>1. target \in Jobs
    BY <1>6 DEF CancellerCancels, Handed
  <2> QED BY <1>6, <2>1, StopKept DEF CancellerCancels
<1>7. ASSUME NEW k \in Jobs, ShutdownCancels(k) PROVE JobKept(j)
  BY <1>1, <1>7, StopKept DEF ShutdownCancels
<1>8. ASSUME NEW w \in Workers, StartProcess(w) PROVE JobKept(j)
  <2>1. held[w] \in Jobs /\ held' = held
    BY <1>8 DEF StartProcess, Handed
  <2>2. CASE j = held[w]
    <3>1. j \in Held' /\ status'[j] = RUNNING /\ wpc[w] = "start"
      BY <1>8, <2>1, <2>2 DEF StartProcess, SetStatus, Held
    <3>2. inTerminal'[j] => inTerminal[j]
      BY <1>8, <2>1, <2>2 DEF StartProcess, SetStatus
    <3>3. proc'[j] = "running" => proc[j] = "running" \/ wpc'[w] = "exec"
      BY <1>8, <2>1, <2>2 DEF StartProcess
    <3> QED BY <2>1, <2>2, <3>1, <3>2, <3>3 DEF JobKept, Accepted
  <2>3. CASE j # held[w]
    <3>1. status'[j] = status[j] /\ inTerminal'[j] = inTerminal[j] /\ proc'[j] = proc[j]
      BY <1>8, <2>1, <2>3 DEF StartProcess, SetStatus
    <3> QED BY <3>1 DEF JobKept, Accepted
  <2> QED BY <2>2, <2>3
<1>9. ASSUME NEW w \in Workers, Verdict(w) PROVE JobKept(j)
  <2>1. /\ held[w] \in Jobs /\ held' = held /\ UNCHANGED <<status, inTerminal>>
        /\ proc' = [proc EXCEPT ![held[w]] = "over"]
    BY <1>9 DEF Verdict, Handed
  <2>2. j # held[w] => proc'[j] = proc[j]
    BY <2>1
  <2>3. held[w] \in Held'
    BY <2>1 DEF Held
  <2> QED BY <2>1, <2>2, <2>3 DEF JobKept, Accepted
<1>10. ASSUME NEW w \in Workers, Report(w) PROVE JobKept(j)
  <2>1. held[w] \in Jobs /\ proc' = proc
    BY <1>10 DEF Report, Handed
  <2> QED BY <1>1, <1>10, <2>1, StatusKept DEF Report
<1>11. ASSUME NEW w \in Workers,
              \/ Receive(w) \/ Begin(w) \/ RunCheck(w) \/ PipesFail(w) \/ Forget(w)
              \/ Count(w) \/ Quit(w)
       PROVE  JobKept(j)
  BY <1>1, <1>11 DEF Receive, Begin, RunCheck, PipesFail, Forget, Count, Quit
<1>12. CASE CleanerTick \/ CleanerSwept \/ CleanerStops \/ CancellerStops \/ Signal
               \/ Exit
  BY <1>1, <1>12 DEF CleanerTick, CleanerSwept, CleanerStops, CancellerStops, Signal,
     Exit
<1>13. CASE Send \/ GeneratorStops \/ Drain \/ ShutdownSweeps \/ ShutdownLocks
               \/ ShutdownEnds
  BY <1>1, <1>13
     DEF Send, GeneratorStops, Drain, ShutdownSweeps, ShutdownLocks, ShutdownEnds
<1>14. ASSUME NEW k \in Jobs, CancellerFinds(k) PROVE JobKept(j)
  BY <1>1, <1>14 DEF CancellerFinds
<1>15. CASE UNCHANGED vars
  BY <1>1, <1>15 DEF vars
<1> QED
  BY <1>2, <1>3, <1>4, <1>5, <1>6, <1>7, <1>8, <1>9, <1>10, <1>11, <1>12, <1>13, <1>14,
     <1>15 DEF Next, Generate, Work, Exited

\* Where jobs are moved.
Moves ==
  \/ Send \/ Drain
  \/ \E j \in Jobs : Accept(j)
  \/ \E w \in Workers : Receive(w) \/ Forget(w)

LEMMA OthersStay == [Next]_vars => Moves \/ UNCHANGED <<queue, held, offer>>
<1> SUFFICES ASSUME [Next]_vars, ~Moves PROVE UNCHANGED <<queue, held, offer>>
  OBVIOUS
<1>1. ASSUME NEW j \in Jobs, ProcessEnds(j) \/ Refuse(j) \/ CancellerFinds(j)
      PROVE  UNCHANGED <<queue, held, offer>>
  BY <1>1 DEF ProcessEnds, Refuse, CancellerFinds
<1>2. CASE Generate
  BY <1>2 DEF Moves, Generate, GeneratorStops, ShutdownSweeps, ShutdownLocks,
     ShutdownEnds, ShutdownCancels
<1>3. ASSUME NEW s \in Sweepers, Sweep(s) PROVE UNCHANGED <<queue, held, offer>>
  BY <1>3 DEF Sweep, SweepDelete, SweepTimeout, SweepStuck
<1>4. CASE CleanerTick \/ CleanerSwept \/ CleanerStops \/ CancellerCancels
             \/ CancellerStops \/ Signal \/ Exit \/ UNCHANGED vars
  BY <1>4 DEF CleanerTick, CleanerSwept, CleanerStops, CancellerCancels, CancellerStops,
     Signal, Exit, vars
<1>5. ASSUME NEW w \in Workers, Work(w) PROVE UNCHANGED <<queue, held, offer>>
  BY <1>5 DEF Moves, Work, Begin, RunCheck, PipesFail, StartProcess, Verdict, Report,
     Count, Quit
<1> QED BY <1>1, <1>2, <1>3, <1>4, <1>5 DEF Moves, Next, Exited

\* A job is in one place, and only once it was accepted.
Placed ==
  /\ OnePlace
  /\ Queued \subseteq Accepted /\ Held \subseteq Accepted
  /\ offer # None => offer \in Accepted

LEMMA PlacedStep == Typed /\ Placed /\ [Next]_vars => Placed'
<1> SUFFICES ASSUME Typed, Placed, [Next]_vars PROVE Placed'
  OBVIOUS
<1>0. Accepted \subseteq Accepted'
  BY JobStep DEF JobKept, Accepted
<1> USE DEF Typed, TypeOK, Handed
<1>1. CASE Send
  <2>1. /\ offer \in Jobs /\ offer' = None /\ held' = held
        /\ Len(queue') = Len(queue) + 1 /\ queue'[Len(queue) + 1] = offer
        /\ \A i \in 1..Len(queue) : queue'[i] = queue[i]
    BY <1>1 DEF Send
  <2>2. Held' = Held
    BY <2>1 DEF Held
  <2>3. Len(queue) \in Nat /\ 1..Len(queue') = 1..Len(queue) \cup {Len(queue) + 1}
    BY <2>1
  <2>4. Queued' = Queued \cup {offer}
    BY <2>1, <2>3 DEF Queued
  <2>5. \A i, k \in 1..Len(queue') : queue'[i] = queue'[k] => i = k
    <3>1. \A i \in 1..Len(queue) : queue[i] # offer
      BY DEF Placed, OnePlace, Queued
    <3>2. \A i, k \in 1..Len(queue) : queue[i] = queue[k] => i = k
      BY DEF Placed, OnePlace
    <3>3. SUFFICES ASSUME NEW i \in 1..Len(queue'), NEW k \in 1..Len(queue'),
                          queue'[i] = queue'[k]
                   PROVE  i = k
      OBVIOUS
    <3>4. /\ i = Len(queue) + 1 \/ i \in 1..Len(queue)
          /\ k = Len(queue) + 1 \/ k \in 1..Len(queue)
      BY <2>3
    <3> QED BY <2>1, <3>1, <3>2, <3>3, <3>4
  <2>6. None \notin Queued' \cup Held' /\ offer \notin Held
    BY <2>1, PoolAssumption DEF Placed, OnePlace, Held, Queued
  <2>7. OnePlace'
    BY <2>1, <2>2, <2>4, <2>5, <2>6 DEF Placed, OnePlace
  <2>8. Queued' \subseteq Accepted' /\ Held' \subseteq Accepted'
    BY <1>0, <2>1, <2>2, <2>4, PoolAssumption DEF Placed
  <2> QED BY <2>1, <2>7, <2>8 DEF Placed
<1>2. CASE Drain
  <2>1. UNCHANGED <<held, offer>> /\ queue # << >> /\ queue' = Tail(queue)
    BY <1>2 DEF Drain
  <2>2. Len(queue') = Len(queue) - 1
             /\ \A i \in 1..Len(queue') : queue'[i] = queue[i + 1]
    BY <2>1
  <2>3. Queued' \subseteq Queued /\ Held' = Held
    BY <2>1, <2>2 DEF Queued, Held
  <2>4. \A i, k \in 1..Len(queue') : queue'[i] = queue'[k] => i = k
    BY <2>1, <2>2 DEF Placed, OnePlace
  <2> QED BY <1>0, <2>1, <2>3, <2>4 DEF Placed, OnePlace
<1>3. ASSUME NEW j \in Jobs, Accept(j) PROVE Placed'
  <2>1. UNCHANGED <<held, queue>> /\ offer' = j /\ status[j] = "NEW" /\ j \in Accepted'
    BY <1>3 DEF Accept, SetStatus, Accepted
  <2>2. j \notin Accepted /\ Queued' = Queued /\ Held' = Held
    BY <2>1 DEF Accepted, Queued, Held
  <2> QED BY <1>0, <2>1, <2>2 DEF Placed, OnePlace
<1>4. ASSUME NEW w \in Workers, Receive(w) PROVE Placed'
  <2>1. /\ queue # << >> /\ queue' = Tail(queue) /\ offer' = offer
        /\ held[w] = None /\ held' = [held EXCEPT ![w] = queue[1]]
    BY <1>4 DEF Receive
  <2>2. /\ Len(queue') = Len(queue) - 1 /\ Len(queue) >= 1
        /\ \A i \in 1..Len(queue') : queue'[i] = queue[i + 1]
    BY <2>1
  <2>3. queue[1] \in Queued /\ queue[1] \notin Held
    BY <2>1, <2>2 DEF Placed, OnePlace, Queued
  <2>4. Queued' \subseteq Queued \ {queue[1]}
    BY <2>2 DEF Placed, OnePlace, Queued
  <2>5. Held' = Held \cup {queue[1]}
    BY <2>1, <2>2, PoolAssumption DEF Held
  <2>6. \A i, k \in 1..Len(queue') : queue'[i] = queue'[k] => i = k
    BY <2>1, <2>2 DEF Placed, OnePlace
  <2>7. \A u, v \in Workers : held'[u] # None /\ held'[u] = held'[v] => u = v
    BY <2>1, <2>3 DEF Placed, OnePlace, Held
  <2> QED BY <1>0, <2>1, <2>3, <2>4, <2>5, <2>6, <2>7 DEF Placed, OnePlace
<1>5. ASSUME NEW w \in Workers, Forget(w) PROVE Placed'
  <2>1. UNCHANGED <<queue, offer>> /\ held' = [held EXCEPT ![w] = None]
    BY <1>5 DEF Forget
  <2>2. Queued' = Queued /\ Held' \subseteq Held
    BY <2>1, PoolAssumption DEF Queued, Held
  <2>3. \A u, v \in Workers : held'[u] # None /\ held'[u] = held'[v] => u = v
    BY <2>1 DEF Placed, OnePlace
  <2> QED BY <1>0, <2>1, <2>2, <2>3 DEF Placed, OnePlace
<1>6. CASE UNCHANGED <<queue, held, offer>>
  <2>1. Queued' = Queued /\ Held' = Held
    BY <1>6 DEF Queued, Held
  <2> QED BY <1>0, <1>6, <2>1 DEF Placed, OnePlace
<1> QED BY <1>1, <1>2, <1>3, <1>4, <1>5, <1>6, OthersStay DEF Moves

LEMMA PlacedInit == Init => Placed
BY PoolAssumption DEF Init, Placed, OnePlace, Queued, Held

\* For any jobs, keys and workers, two of which may share a key: a job is with the
\* generator, at one position of the channel or with one worker.
THEOREM InOnePlace == Spec => []OnePlace
<1>1. Placed => OnePlace
  BY DEF Placed
<1> QED BY <1>1, TypedInit, TypedStep, PlacedInit, PlacedStep, PTL DEF Spec

--------------------------------------------------------------------------------
(* A worker changes its own state *)

LEMMA WorkerStep ==
  ASSUME Typed, [Next]_vars, NEW w \in Workers
  PROVE  Work(w) \/ (wpc'[w] = wpc[w] /\ held'[w] = held[w])
<1>1. ASSUME NEW v \in Workers, Work(v), v # w
      PROVE  wpc'[w] = wpc[w] /\ held'[w] = held[w]
  BY <1>1 DEF Typed, TypeOK, Work, Receive, Begin, RunCheck, PipesFail, StartProcess,
     Verdict, Report, Forget, Count, Quit
<1>2. ASSUME NEW j \in Jobs, ProcessEnds(j) \/ Accept(j) \/ Refuse(j)
             \/ CancellerFinds(j)
      PROVE  UNCHANGED <<wpc, held>>
  BY <1>2 DEF ProcessEnds, Accept, Refuse, CancellerFinds
<1>3. CASE Generate
  BY <1>3 DEF Generate, Send, GeneratorStops, Drain, ShutdownSweeps, ShutdownLocks,
     ShutdownEnds, ShutdownCancels
<1>4. ASSUME NEW s \in Sweepers, Sweep(s) PROVE UNCHANGED <<wpc, held>>
  BY <1>4 DEF Sweep, SweepDelete, SweepTimeout, SweepStuck
<1>5. CASE CleanerTick \/ CleanerSwept \/ CleanerStops \/ CancellerCancels
             \/ CancellerStops \/ Signal \/ Exit \/ UNCHANGED vars
  BY <1>5 DEF CleanerTick, CleanerSwept, CleanerStops, CancellerCancels, CancellerStops,
     Signal, Exit, vars
<1> QED BY <1>1, <1>2, <1>3, <1>4, <1>5 DEF Next, Exited

LEMMA WhileExecuting ==
  ASSUME Typed, [Next]_vars, NEW w \in Workers, wpc[w] = "exec"
  PROVE  Verdict(w) \/ (wpc'[w] = wpc[w] /\ held'[w] = held[w])
BY WorkerStep DEF Work, Receive, Begin, RunCheck, PipesFail, StartProcess, Report,
   Forget, Count, Quit

LEMMA WhileDeleting ==
  ASSUME Typed, [Next]_vars, NEW w \in Workers, wpc[w] = "delete"
  PROVE  Forget(w) \/ (wpc'[w] = wpc[w] /\ held'[w] = held[w])
BY WorkerStep DEF Work, Receive, Begin, RunCheck, PipesFail, StartProcess, Verdict,
   Report, Count, Quit

\* A running process has its worker, and main ends after all workers.
Attended ==
  /\ \A j \in Jobs :
       proc[j] = "running" => \E w \in Workers : wpc[w] = "exec" /\ held[w] = j
  /\ exited => \A w \in Workers : wpc[w] = "quit"

LEMMA AttendedStep == Typed /\ Attended /\ [Next]_vars => Attended'
<1> SUFFICES ASSUME Typed, Attended, [Next]_vars PROVE Attended'
  OBVIOUS
<1>1. ASSUME NEW j \in Jobs, proc'[j] = "running"
      PROVE  \E w \in Workers : wpc'[w] = "exec" /\ held'[w] = j
  <2>1. CASE proc[j] # "running"
    BY <1>1, <2>1, JobStep DEF JobKept
  <2>2. CASE proc[j] = "running"
    <3>1. PICK w \in Workers : wpc[w] = "exec" /\ held[w] = j
      BY <2>2 DEF Attended
    <3>2. ~Verdict(w)
      BY <2>2, <3>1 DEF Verdict
    <3> QED BY <3>1, <3>2, WhileExecuting
  <2> QED BY <2>1, <2>2
<1>2. exited' => \A w \in Workers : wpc'[w] = "quit"
  <2>1. CASE exited
    <3>1. UNCHANGED vars
      BY <2>1 DEF Next, ProcessEnds, Accept, Refuse, CancellerFinds, Generate, Send,
         GeneratorStops, Drain, ShutdownSweeps, ShutdownLocks, ShutdownEnds,
         ShutdownCancels, Sweep, SweepDelete, SweepTimeout, SweepStuck, CleanerTick,
         CleanerSwept, CleanerStops, CancellerCancels, CancellerStops, Work, Receive,
         Begin, RunCheck, PipesFail, StartProcess, Verdict, Report, Forget, Count, Quit,
         Signal, Exit, Exited
    <3> QED BY <2>1, <3>1 DEF Attended, vars
  <2>2. CASE ~exited /\ exited'
    <3>1. Exit
      BY <2>2 DEF Next, vars, ProcessEnds, Accept, Refuse, CancellerFinds, Generate,
         Send, GeneratorStops, Drain, ShutdownSweeps, ShutdownLocks, ShutdownEnds,
         ShutdownCancels, Sweep, SweepDelete, SweepTimeout, SweepStuck, CleanerTick,
         CleanerSwept, CleanerStops, CancellerCancels, CancellerStops, Work, Receive,
         Begin, RunCheck, PipesFail, StartProcess, Verdict, Report, Forget, Count, Quit,
         Signal, Exited
    <3> QED BY <3>1 DEF Exit
  <2> QED BY <2>1, <2>2
<1> QED BY <1>1, <1>2 DEF Attended

\* For any jobs and workers, no process is running when main returns.
THEOREM NoneLeftRunning == Spec => []NoOrphans
<1>1. Init => Attended
  BY DEF Init, Attended
<1>2. Attended => NoOrphans
  BY DEF Attended, NoOrphans
<1> QED BY <1>1, <1>2, TypedInit, TypedStep, AttendedStep, PTL DEF Spec

--------------------------------------------------------------------------------
(* No job is lost *)

\* The job is done with, or a worker has yet to be done with it.
Settled(j) == IsTerminalStatus(status[j]) \/ j \in Held

\* Whoever is about to delete a record deletes that of a settled job.
Settling ==
  /\ \A j \in Jobs : inTerminal[j] \/ proc[j] # "none" => Settled(j)
  /\ \A s \in Sweepers : doomed[s] # None => Settled(doomed[s])
  /\ \A w \in Workers : wpc[w] = "delete" => IsTerminalStatus(status[held[w]])

LEMMA HeldKept ==
  ASSUME Typed, [Next]_vars, NEW j \in Jobs, j \in Held
  PROVE  j \in Held' \/ \E w \in Workers : Forget(w) /\ held[w] = j
<1>1. PICK w \in Workers : held[w] = j
  BY DEF Held
<1>2. CASE \E v \in Workers : Receive(v)
  BY <1>1, <1>2, PoolAssumption DEF Receive, Held, Typed, TypeOK, Handed
<1>3. ASSUME NEW v \in Workers, Forget(v)
      PROVE  j \in Held' \/ (Forget(w) /\ held[w] = j)
  BY <1>1, <1>3 DEF Forget, Held, Typed, TypeOK
<1>4. CASE UNCHANGED held
  BY <1>1, <1>4 DEF Held
<1> QED BY <1>1, <1>2, <1>3, <1>4, OthersStay DEF Moves, Send, Drain, Accept

LEMMA SettledKept ==
  ASSUME Typed, Settling, [Next]_vars, NEW j \in Jobs, Settled(j)
  PROVE  Settled(j)'
<1>1. IsTerminalStatus(status[j]) => Settled(j)'
  BY JobStep DEF JobKept, Settled, Held
<1>2. CASE j \in Held
  BY <1>1, <1>2, HeldKept DEF Settled, Settling, Forget
<1> QED BY <1>1, <1>2 DEF Settled

\* Which entry a sweeper is about to delete.
LEMMA DoomedStep ==
  ASSUME Typed, [Next]_vars, NEW s \in Sweepers, doomed'[s] # None
  PROVE  doomed'[s] = doomed[s]
           \/ \E j \in Jobs : doomed'[s] = j /\ (SweepTimeout(s, j) \/ SweepStuck(s, j))
<1> USE DEF Typed, TypeOK
<1>1. ASSUME NEW r \in Sweepers, Sweep(r)
      PROVE  \/ doomed'[s] = doomed[s]
             \/ \E j \in Jobs : doomed'[s] = j /\ (SweepTimeout(s, j) \/ SweepStuck(s,
                  j))
  BY <1>1 DEF Sweep, SweepDelete, SweepTimeout, SweepStuck
<1>2. ASSUME NEW j \in Jobs, ProcessEnds(j) \/ Accept(j) \/ Refuse(j)
             \/ CancellerFinds(j)
      PROVE  UNCHANGED doomed
  BY <1>2 DEF ProcessEnds, Accept, Refuse, CancellerFinds
<1>3. CASE Generate
  BY <1>3 DEF Generate, Send, GeneratorStops, Drain, ShutdownSweeps, ShutdownLocks,
     ShutdownEnds, ShutdownCancels, CopyRegistry
<1>4. ASSUME NEW w \in Workers, Work(w) PROVE UNCHANGED doomed
  BY <1>4 DEF Work, Receive, Begin, RunCheck, PipesFail, StartProcess, Verdict, Report,
     Forget, Count, Quit
<1>5. CASE CleanerTick \/ CleanerSwept \/ CleanerStops \/ CancellerCancels
             \/ CancellerStops \/ Signal \/ Exit \/ UNCHANGED vars
  BY <1>5 DEF CleanerTick, CleanerSwept, CleanerStops, CancellerCancels, CancellerStops,
     Signal, Exit, CopyRegistry, vars
<1> QED BY <1>1, <1>2, <1>3, <1>4, <1>5 DEF Next, Exited

LEMMA SettlingStep == Typed /\ Placed /\ Settling /\ [Next]_vars => Settling'
<1> SUFFICES ASSUME Typed, Placed, Settling, [Next]_vars PROVE Settling'
  OBVIOUS
<1> USE DEF Typed, TypeOK
<1>1. ASSUME NEW j \in Jobs, inTerminal'[j] \/ proc'[j] # "none" PROVE Settled(j)'
  <2>1. \/ inTerminal[j] \/ proc[j] # "none"
        \/ IsTerminalStatus(status'[j]) \/ j \in Held'
    BY <1>1, JobStep DEF JobKept
  <2> QED BY <2>1, SettledKept DEF Settling, Settled
<1>2. ASSUME NEW s \in Sweepers, doomed'[s] # None PROVE Settled(doomed[s])'
  <2>1. CASE doomed'[s] = doomed[s]
    BY <1>2, <2>1, SettledKept DEF Settling, Settled
  <2>2. ASSUME NEW j \in Jobs, doomed'[s] = j, SweepTimeout(s, j)
        PROVE  Settled(doomed[s])'
    BY <2>2 DEF SweepTimeout, Stop, SetStatus, Settled
  <2>3. ASSUME NEW j \in Jobs, doomed'[s] = j, SweepStuck(s, j)
        PROVE  Settled(doomed[s])'
    <3>1. Settled(j)
      BY <2>3 DEF SweepStuck, Settling
    <3> QED BY <2>3, <3>1, SettledKept DEF Settled
  <2> QED BY <1>2, <2>1, <2>2, <2>3, DoomedStep
<1>3. ASSUME NEW w \in Workers, wpc'[w] = "delete"
      PROVE  IsTerminalStatus(status'[held'[w]])
  <2>1. CASE Report(w)
    BY <2>1 DEF Report, SetStatus, Handed
  <2>2. CASE wpc[w] = "delete" /\ held'[w] = held[w]
    <3>1. held[w] \in Jobs /\ IsTerminalStatus(status[held[w]])
      BY <2>2 DEF Settling, Handed
    <3>2. ASSUME NEW v \in Workers, wpc[v] = "start", held[v] = held[w] PROVE FALSE
      BY <2>2, <3>1, <3>2, PoolAssumption DEF Placed, OnePlace
    <3> QED BY <2>2, <3>1, <3>2, JobStep DEF JobKept
  <2> QED
    BY <1>3, <2>1, <2>2, WorkerStep
       DEF Work, Receive, Begin, RunCheck, PipesFail, StartProcess, Verdict, Forget,
           Count, Quit
<1> QED BY <1>1, <1>2, <1>3 DEF Settling

LEMMA SettlingInit == Init => Settling
BY DEF Init, Settling

\* A job keeps its key, and a lost record is remembered.
LEMMA KeysKept == [Next]_vars => KeyOf' = KeyOf /\ evicted \subseteq evicted'
<1> SUFFICES ASSUME [Next]_vars PROVE KeyOf' = KeyOf /\ evicted \subseteq evicted'
  OBVIOUS
<1>1. ASSUME NEW j \in Jobs, ProcessEnds(j) \/ Accept(j) \/ Refuse(j)
             \/ CancellerFinds(j)
      PROVE  UNCHANGED <<KeyOf, evicted>>
  BY <1>1 DEF ProcessEnds, Accept, Refuse, CancellerFinds
<1>2. CASE Generate
  BY <1>2 DEF Generate, Send, GeneratorStops, Drain, ShutdownSweeps, ShutdownLocks,
     ShutdownEnds, ShutdownCancels
<1>3. ASSUME NEW s \in Sweepers, Sweep(s)
      PROVE  KeyOf' = KeyOf /\ evicted \subseteq evicted'
  BY <1>3 DEF Sweep, SweepDelete, SweepTimeout, SweepStuck, Delete
<1>4. ASSUME NEW w \in Workers, Work(w)
      PROVE  KeyOf' = KeyOf /\ evicted \subseteq evicted'
  BY <1>4 DEF Work, Receive, Begin, RunCheck, PipesFail, StartProcess, Verdict, Report,
     Forget, Count, Quit, Delete
<1>5. CASE CleanerTick \/ CleanerSwept \/ CleanerStops \/ CancellerCancels
             \/ CancellerStops \/ Signal \/ Exit \/ UNCHANGED vars
  BY <1>5 DEF CleanerTick, CleanerSwept, CleanerStops, CancellerCancels, CancellerStops,
     Signal, Exit, vars
<1> QED BY <1>1, <1>2, <1>3, <1>4, <1>5 DEF Next, Exited

\* Who removes the record of a job: whoever is done with it or, without knowing of
\* it, whoever is done with another job of its key.
LEMMA RecordKept ==
  ASSUME Typed, [Next]_vars, NEW j \in Registered
  PROVE  \/ j \in Registered' \cup evicted'
         \/ \E s \in Sweepers : doomed[s] = j
         \/ \E w \in Workers : held[w] = j
         \/ ShutdownCancels(j)
<1> USE PoolAssumption DEF Typed, TypeOK, Registered
<1>0. KeyOf' = KeyOf
  BY KeysKept
<1>1. CASE UNCHANGED regVars
  BY <1>0, <1>1
<1>2. ASSUME NEW k \in Jobs, Accept(k) PROVE j \in Registered'
  BY <1>0, <1>2 DEF Accept, Add
<1>3. ASSUME NEW k \in Jobs, ShutdownCancels(k), j \notin Registered'
      PROVE  ShutdownCancels(j)
  BY <1>0, <1>3 DEF ShutdownCancels
<1>4. ASSUME NEW s \in Sweepers, Sweep(s)
      PROVE  j \in Registered' \cup evicted' \/ doomed[s] = j
  BY <1>0, <1>4 DEF Sweep, SweepDelete, SweepTimeout, SweepStuck, Delete
<1>5. ASSUME NEW w \in Workers, Forget(w)
      PROVE  j \in Registered' \cup evicted' \/ held[w] = j
  BY <1>0, <1>5 DEF Forget, Delete, Handed
<1>6. ASSUME NEW w \in Workers, Work(w), ~Forget(w) PROVE UNCHANGED regVars
  BY <1>6 DEF Work, Receive, Begin, RunCheck, PipesFail, StartProcess, Verdict, Report,
     Count, Quit
<1>7. ASSUME NEW k \in Jobs, ProcessEnds(k) \/ Refuse(k) \/ CancellerFinds(k)
      PROVE  UNCHANGED regVars
  BY <1>7 DEF ProcessEnds, Refuse, CancellerFinds
<1>8. CASE Send \/ GeneratorStops \/ Drain \/ ShutdownSweeps \/ ShutdownLocks
              \/ ShutdownEnds
  BY <1>8 DEF Send, GeneratorStops, Drain, ShutdownSweeps, ShutdownLocks, ShutdownEnds
<1>9. CASE CleanerTick \/ CleanerSwept \/ CleanerStops \/ CancellerCancels
             \/ CancellerStops \/ Signal \/ Exit \/ UNCHANGED vars
  BY <1>9 DEF CleanerTick, CleanerSwept, CleanerStops, CancellerCancels, CancellerStops,
     Signal, Exit, vars
<1> QED
  BY <1>1, <1>2, <1>3, <1>4, <1>5, <1>6, <1>7, <1>8, <1>9 DEF Next, Generate, Exited

\* The generator does not come back from its shutdown.
LEMMA GeneratorKept ==
  [Next]_vars /\ gpc' \in {"select", "send"} => gpc \in {"select", "send"}
<1> SUFFICES ASSUME [Next]_vars, gpc' \in {"select", "send"}
             PROVE  gpc \in {"select", "send"}
  OBVIOUS
<1>1. ASSUME NEW j \in Jobs, ProcessEnds(j) \/ Accept(j) \/ Refuse(j)
             \/ CancellerFinds(j)
      PROVE  UNCHANGED gpc \/ gpc = "select"
  BY <1>1 DEF ProcessEnds, Accept, Refuse, CancellerFinds
<1>2. CASE Generate
  BY <1>2 DEF Generate, Send, GeneratorStops, Drain, ShutdownSweeps, ShutdownLocks,
     ShutdownEnds, ShutdownCancels
<1>3. ASSUME NEW s \in Sweepers, Sweep(s) PROVE UNCHANGED gpc
  BY <1>3 DEF Sweep, SweepDelete, SweepTimeout, SweepStuck
<1>4. ASSUME NEW w \in Workers, Work(w) PROVE UNCHANGED gpc
  BY <1>4 DEF Work, Receive, Begin, RunCheck, PipesFail, StartProcess, Verdict, Report,
     Forget, Count, Quit
<1>5. CASE CleanerTick \/ CleanerSwept \/ CleanerStops \/ CancellerCancels
             \/ CancellerStops \/ Signal \/ Exit \/ UNCHANGED vars
  BY <1>5 DEF CleanerTick, CleanerSwept, CleanerStops, CancellerCancels, CancellerStops,
     Signal, Exit, vars
<1> QED BY <1>1, <1>2, <1>3, <1>4, <1>5 DEF Next, Exited

\* A job goes from the generator to the channel and from there to a worker.
LEMMA OnItsWay ==
  ASSUME Typed, [Next]_vars, ~Drain, NEW j \in Jobs, j \in {offer} \cup Queued
  PROVE  j \in {offer'} \cup Queued' \cup Held'
<1> USE DEF Typed, TypeOK, Handed
<1>1. CASE Send
  <2>1. /\ offer \in Jobs /\ Len(queue') = Len(queue) + 1
        /\ queue'[Len(queue) + 1] = offer
        /\ \A i \in 1..Len(queue) : queue'[i] = queue[i]
    BY <1>1 DEF Send
  <2>2. 1..Len(queue') = 1..Len(queue) \cup {Len(queue) + 1}
    BY <2>1
  <2> QED BY <2>1, <2>2 DEF Queued
<1>2. ASSUME NEW k \in Jobs, Accept(k) PROVE j \in Queued'
  BY <1>2, PoolAssumption DEF Accept, Queued
<1>3. ASSUME NEW w \in Workers, Receive(w) PROVE j \in {offer'} \cup Queued' \cup Held'
  <2>1. /\ queue # << >> /\ queue' = Tail(queue) /\ offer' = offer
        /\ held' = [held EXCEPT ![w] = queue[1]]
    BY <1>3 DEF Receive
  <2>2. /\ Len(queue') = Len(queue) - 1 /\ Len(queue) >= 1
        /\ \A i \in 1..Len(queue') : queue'[i] = queue[i + 1]
    BY <2>1
  <2>3. CASE j \in Queued
    <3>1. PICK i \in 1..Len(queue) : queue[i] = j
      BY <2>3 DEF Queued
    <3>2. CASE i = 1
      BY <2>1, <3>1, <3>2 DEF Held
    <3>3. CASE i # 1
      <4>1. i - 1 \in 1..Len(queue') /\ queue'[i - 1] = j
        BY <2>2, <3>1, <3>3
      <4> QED BY <4>1 DEF Queued
    <3> QED BY <3>2, <3>3
  <2> QED BY <2>1, <2>3
<1>4. ASSUME NEW w \in Workers, Forget(w) PROVE UNCHANGED <<queue, offer>>
  BY <1>4 DEF Forget
<1>5. CASE UNCHANGED <<queue, offer>>
  BY <1>5 DEF Queued
<1> QED BY <1>1, <1>2, <1>3, <1>4, <1>5, OthersStay DEF Moves

LEMMA AccountedStep ==
  Typed /\ Placed /\ Settling /\ Accounted /\ [Next]_vars => Accounted'
<1> SUFFICES ASSUME Typed, Placed, Settling, Accounted, [Next]_vars,
                    NEW j \in Open', j \notin Held'
             PROVE  /\ j \in Registered' \cup evicted'
                    /\ gpc' \in {"select", "send"} => j \in {offer'} \cup Queued'
  BY DEF Accounted
<1>1. j \in Jobs /\ j \in Accepted' /\ ~IsTerminalStatus(status'[j])
  BY DEF Open, Accepted
<1>2. CASE Accept(j)
  BY <1>1, <1>2, PoolAssumption DEF Accept, Add, Registered, Typed, TypeOK
<1>3. CASE j \in Accepted
  <2>1. ~Settled(j) /\ j \in Open
    BY <1>1, <1>3, SettledKept DEF Settled, Held, Open
  <2>2. j \in Registered' \cup evicted'
    <3>1. CASE j \in evicted
      BY <3>1, KeysKept
    <3>2. CASE j \in Registered
      <4>1. ~ShutdownCancels(j)
        BY <1>1 DEF ShutdownCancels, Stop, SetStatus, Typed, TypeOK
      <4>2. ASSUME NEW s \in Sweepers, doomed[s] = j PROVE FALSE
        BY <1>1, <2>1, <4>2, PoolAssumption DEF Settling
      <4>3. ASSUME NEW w \in Workers, held[w] = j PROVE FALSE
        BY <1>1, <2>1, <4>3 DEF Settled, Held
      <4> QED BY <3>2, <4>1, <4>2, <4>3, RecordKept
    <3> QED BY <2>1, <3>1, <3>2 DEF Accounted, Settled
  <2>3. ASSUME gpc' \in {"select", "send"} PROVE j \in {offer'} \cup Queued'
    <3>1. gpc \in {"select", "send"} /\ ~Drain
      BY <2>3, GeneratorKept DEF Drain
    <3>2. j \in {offer} \cup Queued
      BY <2>1, <3>1 DEF Accounted, Settled
    <3> QED BY <1>1, <3>1, <3>2, OnItsWay DEF Held
  <2> QED BY <2>2, <2>3
<1> QED BY <1>1, <1>2, <1>3, JobStep DEF JobKept

\* For any jobs, keys and workers, whichever jobs share a key: a job whose outcome was
\* not reported is in the registry or with a worker, unless another job of its key
\* took its record away; and until the shutdown it is on its way to a worker even then.
THEOREM NoneLost == Spec => []Accounted
<1>1. Init => Accounted
  BY DEF Init, Accounted, Open, Accepted
<1> QED
  BY <1>1, TypedInit, TypedStep, PlacedInit, PlacedStep, SettlingInit, SettlingStep,
     AccountedStep, PTL DEF Spec

\* The registry is empty after the shutdown.
Emptied == gpc = "stopped" => Registered = {}

LEMMA EmptiedStep == Typed /\ Emptied /\ [Next]_vars => Emptied'
<1> SUFFICES ASSUME Typed, Emptied, [Next]_vars, gpc' = "stopped" PROVE Registered' = {}
  BY DEF Emptied
<1> USE PoolAssumption DEF Typed, TypeOK, Emptied, Registered
<1>0. KeyOf' = KeyOf
  BY KeysKept
<1>1. CASE UNCHANGED <<registry, gpc>>
  BY <1>0, <1>1
<1>2. ASSUME NEW k \in Jobs, Accept(k) PROVE FALSE
  BY <1>2 DEF Accept
<1>3. CASE ShutdownEnds
  BY <1>0, <1>3 DEF ShutdownEnds
<1>4. CASE Generate /\ ~ShutdownEnds
  BY <1>0, <1>1, <1>4 DEF Generate, Send, GeneratorStops, Drain, ShutdownSweeps,
     ShutdownLocks, ShutdownCancels
<1>5. ASSUME NEW s \in Sweepers, Sweep(s) PROVE Registered' = {}
  BY <1>0, <1>5 DEF Sweep, SweepDelete, SweepTimeout, SweepStuck, Delete
<1>6. ASSUME NEW w \in Workers, Forget(w) PROVE Registered' = {}
  BY <1>0, <1>6 DEF Forget, Delete
<1>7. ASSUME NEW w \in Workers, Work(w), ~Forget(w)
      PROVE  UNCHANGED <<registry, gpc>>
  BY <1>7 DEF Work, Receive, Begin, RunCheck, PipesFail, StartProcess, Verdict, Report,
     Count, Quit
<1>8. ASSUME NEW k \in Jobs, ProcessEnds(k) \/ Refuse(k) \/ CancellerFinds(k)
      PROVE  UNCHANGED <<registry, gpc>>
  BY <1>8 DEF ProcessEnds, Refuse, CancellerFinds
<1>9. CASE CleanerTick \/ CleanerSwept \/ CleanerStops \/ CancellerCancels
             \/ CancellerStops \/ Signal \/ Exit \/ UNCHANGED vars
  BY <1>9 DEF CleanerTick, CleanerSwept, CleanerStops, CancellerCancels, CancellerStops,
     Signal, Exit, vars
<1> QED
  BY <1>1, <1>2, <1>3, <1>4, <1>5, <1>6, <1>7, <1>8, <1>9 DEF Next, Exited

\* For any jobs, keys and workers: when the shutdown has returned the registry is empty
\* and every job that no worker has, and whose record no other job took, is in a
\* terminal status.
THEOREM ShutdownLeavesNothing == Spec => []ShutdownComplete
<1>1. Init => Emptied
  BY PoolAssumption DEF Init, Emptied, Registered
<1>2. Emptied /\ Accounted => ShutdownComplete
  BY DEF Emptied, Accounted, ShutdownComplete
<1>3. Spec => []Accounted
  BY NoneLost
<1> QED BY <1>1, <1>2, <1>3, TypedInit, TypedStep, EmptiedStep, PTL DEF Spec
================================================================================
