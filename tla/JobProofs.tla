------------------------------- MODULE JobProofs -------------------------------
(***************************************************************************)
(* Proofs about Job, for any set of callers that may stop it at any moment *)
(* and any set of descendants: the mutex excludes, the reports chain, the  *)
(* worker leaves a job whose end was reported, Job implements JobReports,  *)
(* a stopped job's process is dead, a worker leaves no process behind,     *)
(* SUCCESS is earned, and a stop that precedes the worker's check holds.   *)
(***************************************************************************)
EXTENDS JobInvariants, TLAPS

\* The statuses as strings, where a step compares them.
USE DEF PENDING, RUNNING, SUCCESS, RUN_OK, RUN_FAILED, ERROR, CANCELED, TIMEOUT

--------------------------------------------------------------------------------
(* Reports *)

Report == [stage : {"run", "cancel", "timeout", "failed", "finish"},
           prev : Statuses, status : Statuses]

\* What a report adds to what the API was told.
LEMMA AppendReport ==
  ASSUME NEW s \in Seq(Report), NEW r \in Report
  PROVE  /\ Append(s, r) \in Seq(Report)
         /\ Append(s, r) # <<>>
         /\ Append(s, r)[Len(Append(s, r))] = r
         /\ (\E i \in DOMAIN Append(s, r) : Append(s, r)[i].stage = "run")
              <=> (\E i \in DOMAIN s : s[i].stage = "run") \/ r.stage = "run"
<1>1. /\ Append(s, r) \in Seq(Report)
      /\ Len(Append(s, r)) = Len(s) + 1
      /\ Append(s, r)[Len(s) + 1] = r
      /\ \A i \in 1..Len(s) : Append(s, r)[i] = s[i]
      /\ DOMAIN s = 1..Len(s) /\ DOMAIN Append(s, r) = 1..(Len(s) + 1)
      /\ Len(s) \in Nat
  OBVIOUS
<1>2. Append(s, r) # <<>>
  BY <1>1
<1>3. (\E i \in DOMAIN Append(s, r) : Append(s, r)[i].stage = "run")
        <=> (\E i \in DOMAIN s : s[i].stage = "run") \/ r.stage = "run"
  BY <1>1
<1> QED BY <1>1, <1>2, <1>3

Stages == {"run", "cancel", "timeout", "failed", "finish"}

\* updateStatus followed by doApiCall.
LEMMA ReportStep ==
  ASSUME status \in Statuses, inTerminal \in BOOLEAN, reports \in Seq(Report),
         NEW s \in Statuses, NEW stage \in Stages,
         updateStatus(s), doApiCall(stage)
  PROVE  /\ status' = s /\ previousStatus' = status
         /\ inTerminal' \in BOOLEAN
         /\ reports' = Append(reports, [stage |-> stage, prev |-> Visible(status),
                                        status |-> s])
         /\ reports' \in Seq(Report)
         /\ LastReported' = s
         /\ HasRun' <=> HasRun \/ stage = "run"
<1> DEFINE r == [stage |-> stage, prev |-> Visible(status), status |-> s]
<1>1. status' = s /\ previousStatus' = status /\ inTerminal' \in BOOLEAN
  BY DEF updateStatus
<1>2. r \in Report
  BY DEF Report, Stages, Visible, Statuses, TerminalStatuses
<1>3. reports' = Append(reports, r)
  BY <1>1 DEF doApiCall, GetParams
<1>4. /\ reports' \in Seq(Report) /\ reports' # <<>> /\ reports'[Len(reports')] = r
      /\ (\E i \in DOMAIN reports' : reports'[i].stage = "run")
           <=> (\E i \in DOMAIN reports : reports[i].stage = "run") \/ r.stage = "run"
  <2> HIDE DEF r
  <2> QED BY <1>2, <1>3, AppendReport
<1>5. LastReported' = s
  BY <1>4 DEF LastReported
<1>6. HasRun' <=> HasRun \/ stage = "run"
  BY <1>4 DEF HasRun
<1> QED BY <1>1, <1>3, <1>4, <1>5, <1>6

\* The part of Cancel, Timeout and Failed that reports.
LEMMA StopReportStep ==
  ASSUME status \in Statuses, previousStatus \in Statuses, inTerminal \in BOOLEAN,
         reports \in Seq(Report),
         NEW s \in Statuses, NEW stage \in Stages \ {"run"},
         StopReport(s, stage)
  PROVE  /\ \/ IsTerminalStatus(status) /\ UNCHANGED statusVars
            \/ /\ ~IsTerminalStatus(status)
               /\ status' = s /\ previousStatus' = status
               /\ LastReported' = s
               /\ reports' = Append(reports, [stage |-> stage,
                                              prev |-> Visible(status), status |-> s])
         /\ status' \in Statuses /\ previousStatus' \in Statuses
         /\ inTerminal' \in BOOLEAN /\ reports' \in Seq(Report)
         /\ HasRun' <=> HasRun
<1>1. CASE IsTerminalStatus(status)
  BY <1>1 DEF StopReport, statusVars, HasRun
<1>2. CASE ~IsTerminalStatus(status)
  BY <1>2, ReportStep DEF StopReport, Stages
<1> QED BY <1>1, <1>2

--------------------------------------------------------------------------------
(* Type correctness *)

\* For any callers and descendants, every variable stays in its range: no step of
\* Run, runcmd, Cancel, Timeout or the environment leaves the tables of states.
THEOREM TypeCorrect == Spec => []TypeOK
<1> USE ThreadsAssumption DEF Threads
<1>1. Init => TypeOK
  <2> SUFFICES ASSUME Init PROVE TypeOK
    OBVIOUS
  <2>1. pc \in [Threads -> WorkerPC \cup StopPC]
    BY DEF Init, WorkerPC, StopPC
  <2>2. reports \in Seq([stage : {"run", "cancel", "timeout", "failed", "finish"},
                         prev : Statuses, status : Statuses])
    BY DEF Init
  <2> QED
    BY <2>1, <2>2 DEF Init, TypeOK, Statuses, ProcStates, Results
<1>2. ASSUME TypeOK, [Next]_vars
      PROVE  TypeOK'
  <2> USE <1>2 DEF TypeOK, statusVars, execVars, clockVars, Alive, Goto, Lock, Unlock,
        Atomically
  <2>1. ASSUME NEW p \in Callers, CallCancel(p) PROVE TypeOK'
    BY <2>1 DEF CallCancel, StopPC
  <2>2. ASSUME NEW p \in Callers, CallTimeout(p) PROVE TypeOK'
    BY <2>2 DEF CallTimeout, StopPC
  <2>3. ASSUME NEW p \in Threads, Cancel(p) PROVE TypeOK'
    BY <2>3, StopReportStep DEF Cancel, WorkerPC, Statuses, TerminalStatuses,
       Report, Stages
  <2>4. ASSUME NEW p \in Threads, Timeout(p) PROVE TypeOK'
    BY <2>4, StopReportStep DEF Timeout, WorkerPC, Statuses, TerminalStatuses,
       Report, Stages
  <2>5. ASSUME NEW p \in Threads, StopSkip(p) PROVE TypeOK'
    BY <2>5 DEF StopSkip, StopPC, AfterStop
  <2>6. ASSUME NEW p \in Threads, StopEnter(p) PROVE TypeOK'
    BY <2>6 DEF StopEnter, StopPC
  <2>7. ASSUME NEW p \in Threads, StopKill(p) PROVE TypeOK'
    BY <2>7 DEF StopKill, ProcStates, StopPC
  <2>8. ASSUME NEW p \in Threads, StopSignal(p) PROVE TypeOK'
    BY <2>8 DEF StopSignal, StopPC, AfterStop
  <2>9. ASSUME RunCheck PROVE TypeOK'
    BY <2>9 DEF RunCheck, Results, WorkerPC
  <2>10. ASSUME StartOnce PROVE TypeOK'
    <3>1. pc' \in [Threads -> WorkerPC \cup StopPC] /\ result' \in Results
      BY <2>10 DEF StartOnce, WorkerPC
    <3> QED
      BY <2>10, <3>1 DEF StartOnce
  <2>11. ASSUME OpenPipes PROVE TypeOK'
    BY <2>11 DEF OpenPipes, Results, WorkerPC
  <2>12. ASSUME StartProcess PROVE TypeOK'
    BY <2>12, ReportStep DEF StartProcess, ProcStates, WorkerPC, Statuses,
       TerminalStatuses, Report, Stages
  <2>13. ASSUME Started PROVE TypeOK'
    BY <2>13 DEF Started, Results, WorkerPC
  <2>14. ASSUME WaitMarksDone PROVE TypeOK'
    BY <2>14 DEF WaitMarksDone, ProcStates
  <2>15. ASSUME WaitReturns PROVE TypeOK'
    BY <2>15 DEF WaitReturns, ProcStates, WorkerPC
  <2>16. ASSUME StopLogs PROVE TypeOK'
    BY <2>16 DEF StopLogs, WorkerPC
  <2>17. ASSUME Verdict PROVE TypeOK'
    BY <2>17 DEF Verdict, Statuses, Results, WorkerPC, VerdictResult
  <2>18. ASSUME RunReturns PROVE TypeOK'
    BY <2>18 DEF RunReturns, WorkerPC, StopPC
  <2>19. ASSUME Finish PROVE TypeOK'
    BY <2>19, ReportStep DEF Finish, WorkerPC, Statuses, TerminalStatuses, Report,
       Stages
  <2>20. ASSUME Failed PROVE TypeOK'
    BY <2>20, StopReportStep DEF Failed, WorkerPC, Statuses, TerminalStatuses,
       Report, Stages
  <2>21. ASSUME TimeoutAnswered PROVE TypeOK'
    BY <2>21 DEF TimeoutAnswered, StopPC
  <2>22. ASSUME TimeoutAbandoned PROVE TypeOK'
    BY <2>22 DEF TimeoutAbandoned, StopPC
  <2>23. ASSUME ProcessExits PROVE TypeOK'
    BY <2>23 DEF ProcessExits, ProcStates
  <2>24. ASSUME CtxExpires PROVE TypeOK'
    BY <2>24 DEF CtxExpires
  <2>25. ASSUME CtxKills PROVE TypeOK'
    BY <2>25 DEF CtxKills, ProcStates
  <2>26. ASSUME TTRElapses PROVE TypeOK'
    BY <2>26 DEF TTRElapses
  <2>27. ASSUME NEW k \in Descendants, Fork(k) PROVE TypeOK'
    BY <2>27 DEF Fork
  <2>28. ASSUME NEW k \in Descendants, DescendantExits(k) PROVE TypeOK'
    BY <2>28 DEF DescendantExits
  <2>29. CASE UNCHANGED vars
    BY <2>29 DEF vars
  <2>30. QED
    BY <2>1, <2>2, <2>3, <2>4, <2>5, <2>6, <2>7, <2>8, <2>9, <2>10, <2>11, <2>12,
       <2>13, <2>14, <2>15, <2>16, <2>17, <2>18, <2>19, <2>20, <2>21, <2>22, <2>23,
       <2>24, <2>25, <2>26, <2>27, <2>28, <2>29
    DEF Next, Step, StopStep, WorkerStep, WorkerProgress, EnvStep, Halted
<1>3. QED
  BY <1>1, <1>2, PTL DEF Spec
--------------------------------------------------------------------------------
(* The mutex *)

\* For any number of goroutines, j.mu is held by exactly the one that is inside
\* a critical section.  With the types, MutexHeld is inductive as it stands.
THEOREM MutexExcludes == Spec => []MutexHeld
<1> USE ThreadsAssumption DEF Threads
<1>1. Init => MutexHeld
  BY DEF Init, MutexHeld, Holding
<1>2. ASSUME TypeOK, MutexHeld, [Next]_vars
      PROVE  MutexHeld'
  <2>0. pc \in [Threads -> WorkerPC \cup StopPC] /\ mu \in Threads \cup {Nobody}
    BY <1>2 DEF TypeOK
  <2> USE <1>2, <2>0 DEF MutexHeld, Holding, Goto, Lock, Unlock, Atomically
  <2>1. ASSUME NEW p \in Callers, CallCancel(p) PROVE MutexHeld'
    BY <2>1 DEF CallCancel
  <2>2. ASSUME NEW p \in Callers, CallTimeout(p) PROVE MutexHeld'
    BY <2>2 DEF CallTimeout
  <2>3. ASSUME NEW p \in Threads, Cancel(p) PROVE MutexHeld'
    BY <2>3 DEF Cancel
  <2>4. ASSUME NEW p \in Threads, Timeout(p) PROVE MutexHeld'
    BY <2>4 DEF Timeout
  <2>5. ASSUME NEW p \in Threads, StopSkip(p) PROVE MutexHeld'
    BY <2>5 DEF StopSkip, AfterStop
  <2>6. ASSUME NEW p \in Threads, StopEnter(p) PROVE MutexHeld'
    BY <2>6 DEF StopEnter
  <2>7. ASSUME NEW p \in Threads, StopKill(p) PROVE MutexHeld'
    BY <2>7 DEF StopKill
  <2>8. ASSUME NEW p \in Threads, StopSignal(p) PROVE MutexHeld'
    BY <2>8 DEF StopSignal, AfterStop
  <2>9. ASSUME RunCheck PROVE MutexHeld'
    BY <2>9 DEF RunCheck
  <2>10. ASSUME StartOnce PROVE MutexHeld'
    BY <2>10 DEF StartOnce
  <2>11. ASSUME OpenPipes PROVE MutexHeld'
    BY <2>11 DEF OpenPipes
  <2>12. ASSUME StartProcess PROVE MutexHeld'
    BY <2>12 DEF StartProcess
  <2>13. ASSUME Started PROVE MutexHeld'
    BY <2>13 DEF Started
  <2>14. ASSUME WaitMarksDone PROVE MutexHeld'
    BY <2>14 DEF WaitMarksDone
  <2>15. ASSUME WaitReturns PROVE MutexHeld'
    BY <2>15 DEF WaitReturns
  <2>16. ASSUME StopLogs PROVE MutexHeld'
    BY <2>16 DEF StopLogs
  <2>17. ASSUME Verdict PROVE MutexHeld'
    BY <2>17 DEF Verdict
  <2>18. ASSUME RunReturns PROVE MutexHeld'
    BY <2>18 DEF RunReturns
  <2>19. ASSUME Finish PROVE MutexHeld'
    BY <2>19 DEF Finish
  <2>20. ASSUME Failed PROVE MutexHeld'
    BY <2>20 DEF Failed
  <2>21. ASSUME TimeoutAnswered PROVE MutexHeld'
    BY <2>21 DEF TimeoutAnswered
  <2>22. ASSUME TimeoutAbandoned PROVE MutexHeld'
    BY <2>22 DEF TimeoutAbandoned
  <2>23. ASSUME ProcessExits PROVE MutexHeld'
    BY <2>23 DEF ProcessExits
  <2>24. ASSUME CtxExpires PROVE MutexHeld'
    BY <2>24 DEF CtxExpires
  <2>25. ASSUME CtxKills PROVE MutexHeld'
    BY <2>25 DEF CtxKills
  <2>26. ASSUME TTRElapses PROVE MutexHeld'
    BY <2>26 DEF TTRElapses
  <2>27. ASSUME NEW k \in Descendants, Fork(k) PROVE MutexHeld'
    BY <2>27 DEF Fork
  <2>28. ASSUME NEW k \in Descendants, DescendantExits(k) PROVE MutexHeld'
    BY <2>28 DEF DescendantExits
  <2>29. CASE UNCHANGED vars
    BY <2>29 DEF vars
  <2> QED
    BY <2>1, <2>2, <2>3, <2>4, <2>5, <2>6, <2>7, <2>8, <2>9, <2>10,
       <2>11, <2>12, <2>13, <2>14, <2>15, <2>16, <2>17, <2>18, <2>19,
       <2>20, <2>21, <2>22, <2>23, <2>24, <2>25, <2>26, <2>27, <2>28,
       <2>29
    DEF Next, Step, StopStep, WorkerStep, WorkerProgress, EnvStep, Halted
<1>3. QED
  BY <1>1, <1>2, TypeCorrect, PTL DEF Spec

--------------------------------------------------------------------------------
(* What a step does to the reports *)

USE DEF StoppedStatuses

LEMMA SameReports ==
  ASSUME reports' = reports
  PROVE  /\ LastReported' = LastReported
         /\ HasRun' = HasRun
         /\ ReportsChain' = ReportsChain
BY DEF LastReported, HasRun, ReportsChain

\* A report whose previous status is what the API was told last keeps the chain.
LEMMA ChainStep ==
  ASSUME reports \in Seq(Report), ReportsChain, NEW r \in Report,
         r.prev = LastReported, reports' = Append(reports, r)
  PROVE  ReportsChain'
<1>1. /\ Len(reports) \in Nat
      /\ Len(reports') = Len(reports) + 1
      /\ reports'[Len(reports) + 1] = r
      /\ \A i \in 1..Len(reports) : reports'[i] = reports[i]
  OBVIOUS
<1>2. r.prev = IF Len(reports) = 0 THEN PENDING ELSE reports[Len(reports)].status
  BY <1>1 DEF LastReported
<1>3. SUFFICES ASSUME NEW i \in 1..Len(reports')
               PROVE  reports'[i].prev =
                         IF i = 1 THEN PENDING ELSE reports'[i - 1].status
  BY DEF ReportsChain
<1>4. CASE i = Len(reports) + 1
  BY <1>1, <1>2, <1>4
<1>5. CASE i # Len(reports) + 1
  <2>1. i \in 1..Len(reports) /\ (i # 1 => i - 1 \in 1..Len(reports))
    BY <1>1, <1>5
  <2> QED
    BY <1>1, <2>1 DEF ReportsChain
<1> QED BY <1>4, <1>5

\* updateStatus and doApiCall, whatever the status was.
LEMMA Reports ==
  ASSUME TypeOK, Told, ReportsChain, NEW s \in Statuses, NEW stage \in Stages,
         updateStatus(s), doApiCall(stage)
  PROVE  /\ status' = s /\ LastReported' = s /\ ReportsChain'
         /\ HasRun' <=> HasRun \/ stage = "run"
<1> DEFINE r == [stage |-> stage, prev |-> Visible(status), status |-> s]
<1>1. status \in Statuses /\ inTerminal \in BOOLEAN /\ reports \in Seq(Report)
  BY DEF TypeOK, Report
<1>2. r \in Report
  BY <1>1 DEF Report, Stages, Visible, Statuses, TerminalStatuses
<1>3. /\ status' = s /\ LastReported' = s /\ reports' = Append(reports, r)
      /\ HasRun' <=> HasRun \/ stage = "run"
  BY <1>1, ReportStep
<1>4. r.prev = LastReported
  BY DEF Told
<1>5. ReportsChain'
  <2> HIDE DEF r
  <2> QED BY <1>1, <1>2, <1>3, <1>4, ChainStep
<1> QED BY <1>3, <1>5

\* The reporting part of Cancel, Timeout and Failed.
LEMMA StopReports ==
  ASSUME TypeOK, Told, ReportsChain, NEW s \in Statuses,
         NEW stage \in Stages \ {"run"}, StopReport(s, stage)
  PROVE  /\ status' = IF IsTerminalStatus(status) THEN status ELSE s
         /\ IsTerminalStatus(s) => IsTerminalStatus(status')
         /\ Visible(s) = s => Told'
         /\ ReportsChain'
         /\ HasRun' <=> HasRun
<1>1. CASE IsTerminalStatus(status)
  <2>1. status' = status /\ reports' = reports
    BY <1>1 DEF StopReport, statusVars
  <2> QED BY <1>1, <2>1, SameReports DEF Told
<1>2. CASE ~IsTerminalStatus(status)
  <2>1. /\ status' = s /\ LastReported' = s /\ ReportsChain'
        /\ HasRun' <=> HasRun \/ stage = "run"
    BY <1>2, Reports DEF StopReport
  <2> QED BY <1>2, <2>1 DEF Told
<1> QED BY <1>1, <1>2

\* What runcmd's verdict says of the state it is given in.
LEMMA VerdictValue ==
  /\ VerdictResult \in {"ok", "failed", "cancelled", "timeout"}
  /\ VerdictResult = "ok" => status \notin StoppedStatuses /\ exit = "ok"
  /\ VerdictResult = "failed" => status \notin StoppedStatuses /\ exit # "ok"
  /\ VerdictResult = "cancelled" => status = CANCELED
<1>1. CASE status = CANCELED
  BY <1>1 DEF VerdictResult
<1>2. CASE status = TIMEOUT
  BY <1>2 DEF VerdictResult
<1>3. CASE status \notin StoppedStatuses /\ ctx = "expired"
  BY <1>3 DEF VerdictResult
<1>4. CASE status \notin StoppedStatuses /\ ctx # "expired" /\ exit = "ok"
  BY <1>4 DEF VerdictResult
<1>5. CASE status \notin StoppedStatuses /\ ctx # "expired" /\ exit # "ok"
  BY <1>5 DEF VerdictResult
<1> QED BY <1>1, <1>2, <1>3, <1>4, <1>5

--------------------------------------------------------------------------------
(* The reports and the status stay close to the worker's progress *)

LEMMA ReportInvInit == Init => ReportInv
<1> USE ThreadsAssumption DEF Threads
<1> SUFFICES ASSUME Init PROVE ReportInv
  OBVIOUS
<1>1. reports = <<>> /\ status = PENDING /\ pc[Worker] = "queued"
  BY DEF Init
<1>2. LastReported = PENDING /\ ~HasRun /\ ReportsChain
  BY <1>1 DEF LastReported, HasRun, ReportsChain
<1> QED
  BY <1>1, <1>2 DEF ReportInv, Told, StatusByPhase, Visible, BeforeStart, InCommand,
     Succeeding

LEMMA ReportInvStep ==
  ASSUME TypeOK, ReportInv, [Next]_vars
  PROVE  ReportInv'
<1> USE ThreadsAssumption DEF Threads
<1>a. pc \in [Threads -> WorkerPC \cup StopPC] /\ status \in Statuses
  BY DEF TypeOK
<1> USE <1>a DEF ReportInv, Told, StatusByPhase, BeforeStart, InCommand, Succeeding,
        Goto, statusVars
<1>1. ASSUME NEW p \in Callers, CallCancel(p) PROVE ReportInv'
  BY <1>1, SameReports DEF CallCancel
<1>2. ASSUME NEW p \in Callers, CallTimeout(p) PROVE ReportInv'
  BY <1>2, SameReports DEF CallTimeout
<1>3. ASSUME NEW p \in Threads, Cancel(p) PROVE ReportInv'
  BY <1>3, StopReports DEF Cancel, Stages, Statuses, TerminalStatuses, Visible
<1>4. ASSUME NEW p \in Threads, Timeout(p) PROVE ReportInv'
  BY <1>4, StopReports DEF Timeout, Stages, Statuses, TerminalStatuses, Visible
<1>5. ASSUME NEW p \in Threads, StopSkip(p) PROVE ReportInv'
  BY <1>5, SameReports DEF StopSkip, AfterStop
<1>6. ASSUME NEW p \in Threads, StopEnter(p) PROVE ReportInv'
  BY <1>6, SameReports DEF StopEnter
<1>7. ASSUME NEW p \in Threads, StopKill(p) PROVE ReportInv'
  BY <1>7, SameReports DEF StopKill
<1>8. ASSUME NEW p \in Threads, StopSignal(p) PROVE ReportInv'
  BY <1>8, SameReports DEF StopSignal, AfterStop
<1>9. ASSUME RunCheck PROVE ReportInv'
  BY <1>9, SameReports DEF RunCheck
<1>10. ASSUME StartOnce PROVE ReportInv'
  BY <1>10, SameReports DEF StartOnce
<1>11. ASSUME OpenPipes PROVE ReportInv'
  BY <1>11, SameReports DEF OpenPipes
<1>12. ASSUME StartProcess PROVE ReportInv'
  BY <1>12, Reports DEF StartProcess, Stages, Statuses, Visible
<1>13. ASSUME Started PROVE ReportInv'
  BY <1>13, SameReports DEF Started
<1>14. ASSUME WaitMarksDone PROVE ReportInv'
  BY <1>14, SameReports DEF WaitMarksDone
<1>15. ASSUME WaitReturns PROVE ReportInv'
  BY <1>15, SameReports DEF WaitReturns
<1>16. ASSUME StopLogs PROVE ReportInv'
  BY <1>16, SameReports DEF StopLogs
<1>17. ASSUME Verdict PROVE ReportInv'
  BY <1>17, SameReports, VerdictValue DEF Verdict, Visible, IsTerminalStatus,
     TerminalStatuses
<1>18. ASSUME RunReturns PROVE ReportInv'
  BY <1>18, SameReports DEF RunReturns
<1>19. ASSUME Finish PROVE ReportInv'
  BY <1>19, Reports DEF Finish, Stages, Statuses, TerminalStatuses, Visible
<1>20. ASSUME Failed PROVE ReportInv'
  BY <1>20, StopReports DEF Failed, Stages, Statuses, TerminalStatuses, Visible
<1>21. ASSUME TimeoutAnswered PROVE ReportInv'
  BY <1>21, SameReports DEF TimeoutAnswered
<1>22. ASSUME TimeoutAbandoned PROVE ReportInv'
  BY <1>22, SameReports DEF TimeoutAbandoned
<1>23. ASSUME ProcessExits PROVE ReportInv'
  BY <1>23, SameReports DEF ProcessExits
<1>24. ASSUME CtxExpires PROVE ReportInv'
  BY <1>24, SameReports DEF CtxExpires
<1>25. ASSUME CtxKills PROVE ReportInv'
  BY <1>25, SameReports DEF CtxKills
<1>26. ASSUME TTRElapses PROVE ReportInv'
  BY <1>26, SameReports DEF TTRElapses
<1>27. ASSUME NEW k \in Descendants, Fork(k) PROVE ReportInv'
  BY <1>27, SameReports DEF Fork
<1>28. ASSUME NEW k \in Descendants, DescendantExits(k) PROVE ReportInv'
  BY <1>28, SameReports DEF DescendantExits
<1>29. CASE UNCHANGED vars
  BY <1>29, SameReports DEF vars
<1> QED
  BY <1>1, <1>2, <1>3, <1>4, <1>5, <1>6, <1>7, <1>8, <1>9, <1>10,
     <1>11, <1>12, <1>13, <1>14, <1>15, <1>16, <1>17, <1>18, <1>19,
     <1>20, <1>21, <1>22, <1>23, <1>24, <1>25, <1>26, <1>27, <1>28,
     <1>29
  DEF Next, Step, StopStep, WorkerStep, WorkerProgress, EnvStep, Halted

\* For any callers, in any order: each report's previous status is the status
\* of the report before it.  The status by phase is what makes it inductive:
\* Verdict changes the status without a report, and only from RUNNING.
THEOREM ReportsChained == Spec => []ReportsChain
<1>1. Init => ReportInv
  BY ReportInvInit
<1>2. TypeOK /\ ReportInv /\ [Next]_vars => ReportInv'
  BY ReportInvStep
<1>3. ReportInv => ReportsChain
  BY DEF ReportInv
<1> QED BY <1>1, <1>2, <1>3, TypeCorrect, PTL DEF Spec

--------------------------------------------------------------------------------
(* The end of a job *)

LEMMA VerdictInvInit == Init => VerdictInv
BY ThreadsAssumption DEF Init, VerdictInv, Cancelling, TimeouterPhase, WorkerPC,
   Threads

LEMMA VerdictInvStep ==
  ASSUME TypeOK, MutexHeld, ReportInv, VerdictInv, [Next]_vars
  PROVE  VerdictInv'
<1> USE ThreadsAssumption DEF Threads
<1>a. pc \in [Threads -> WorkerPC \cup StopPC] /\ status \in Statuses
  BY DEF TypeOK
<1> USE <1>a DEF ReportInv, StatusByPhase, VerdictInv, Cancelling, TimeouterPhase,
        WorkerPC, BeforeStart, InCommand, Succeeding, Goto, statusVars,
        IsTerminalStatus,
        TerminalStatuses
<1>1. ASSUME NEW p \in Callers, CallCancel(p) PROVE VerdictInv'
  BY <1>1 DEF CallCancel
<1>2. ASSUME NEW p \in Callers, CallTimeout(p) PROVE VerdictInv'
  BY <1>2 DEF CallTimeout
<1>3. ASSUME NEW p \in Threads, Cancel(p) PROVE VerdictInv'
  BY <1>3, StopReports DEF Cancel, Stages, Statuses
<1>4. ASSUME NEW p \in Threads, Timeout(p) PROVE VerdictInv'
  BY <1>4, StopReports DEF Timeout, Stages, Statuses
<1>5. ASSUME NEW p \in Threads, StopSkip(p) PROVE VerdictInv'
  BY <1>5 DEF StopSkip, AfterStop
<1>6. ASSUME NEW p \in Threads, StopEnter(p) PROVE VerdictInv'
  BY <1>6 DEF StopEnter
<1>7. ASSUME NEW p \in Threads, StopKill(p) PROVE VerdictInv'
  BY <1>7 DEF StopKill
<1>8. ASSUME NEW p \in Threads, StopSignal(p) PROVE VerdictInv'
  BY <1>8 DEF StopSignal, AfterStop
<1>9. ASSUME RunCheck PROVE VerdictInv'
  BY <1>9 DEF RunCheck
<1>10. ASSUME StartOnce PROVE VerdictInv'
  BY <1>10 DEF StartOnce
<1>11. ASSUME OpenPipes PROVE VerdictInv'
  BY <1>11 DEF OpenPipes
<1>12. ASSUME StartProcess PROVE VerdictInv'
  BY <1>12, Reports DEF StartProcess
<1>13. ASSUME Started PROVE VerdictInv'
  BY <1>13 DEF Started
<1>14. ASSUME WaitMarksDone PROVE VerdictInv'
  BY <1>14 DEF WaitMarksDone
<1>15. ASSUME WaitReturns PROVE VerdictInv'
  BY <1>15 DEF WaitReturns
<1>16. ASSUME StopLogs PROVE VerdictInv'
  BY <1>16 DEF StopLogs
<1>17. ASSUME Verdict PROVE VerdictInv'
  BY <1>17, VerdictValue DEF Verdict
<1>18. ASSUME RunReturns PROVE VerdictInv'
  BY <1>18 DEF RunReturns
<1>19. ASSUME Finish PROVE VerdictInv'
  BY <1>19, Reports DEF Finish, Stages, Statuses
<1>20. ASSUME Failed PROVE VerdictInv'
  BY <1>20, StopReports DEF Failed, Stages, Statuses
<1>21. ASSUME TimeoutAnswered PROVE VerdictInv'
  BY <1>21 DEF TimeoutAnswered
<1>22. ASSUME TimeoutAbandoned PROVE VerdictInv'
  BY <1>22 DEF TimeoutAbandoned
<1>23. ASSUME ProcessExits PROVE VerdictInv'
  BY <1>23 DEF ProcessExits
<1>24. ASSUME CtxExpires PROVE VerdictInv'
  BY <1>24 DEF CtxExpires
<1>25. ASSUME CtxKills PROVE VerdictInv'
  BY <1>25 DEF CtxKills
<1>26. ASSUME TTRElapses PROVE VerdictInv'
  BY <1>26 DEF TTRElapses
<1>27. ASSUME NEW k \in Descendants, Fork(k) PROVE VerdictInv'
  BY <1>27 DEF Fork
<1>28. ASSUME NEW k \in Descendants, DescendantExits(k) PROVE VerdictInv'
  BY <1>28 DEF DescendantExits
<1>29. CASE UNCHANGED vars
  BY <1>29 DEF vars
<1> QED
  BY <1>1, <1>2, <1>3, <1>4, <1>5, <1>6, <1>7, <1>8, <1>9, <1>10,
     <1>11, <1>12, <1>13, <1>14, <1>15, <1>16, <1>17, <1>18, <1>19,
     <1>20, <1>21, <1>22, <1>23, <1>24, <1>25, <1>26, <1>27, <1>28,
     <1>29
  DEF Next, Step, StopStep, WorkerStep, WorkerProgress, EnvStep, Halted

LEMMA Invariants == Spec => [](TypeOK /\ MutexHeld /\ ReportInv /\ VerdictInv)
<1>1. Init => ReportInv /\ VerdictInv
  BY ReportInvInit, VerdictInvInit
<1>2. TypeOK /\ MutexHeld /\ ReportInv /\ VerdictInv /\ [Next]_vars
        => ReportInv' /\ VerdictInv'
  BY ReportInvStep, VerdictInvStep
<1> QED BY <1>1, <1>2, TypeCorrect, MutexExcludes, PTL DEF Spec

\* The worker leaves a job only in a terminal status that was reported, for any
\* callers that stop it meanwhile, unless it gave up a Timeout that waits for
\* j.mu.
THEOREM WorkerReportsTheEnd == Spec => []DoneMeansReported
<1>1. TypeOK /\ ReportInv /\ VerdictInv => DoneMeansReported
  BY DEF ReportInv, Told, VerdictInv, DoneMeansReported, Visible, IsTerminalStatus,
     TerminalStatuses
<1> QED BY <1>1, Invariants, PTL

--------------------------------------------------------------------------------
(* Job implements JobReports *)

\* The only steps that report.
LEMMA ReportingSteps ==
  ASSUME [Next]_vars
  PROVE  \/ reports' = reports
         \/ \E p \in Threads : Cancel(p) \/ Timeout(p)
         \/ StartProcess \/ Finish \/ Failed
BY DEF Next, Step, StopStep, WorkerStep, WorkerProgress, EnvStep, Halted, vars,
   statusVars, CallCancel, CallTimeout, StopSkip, StopEnter, StopKill, StopSignal,
   RunCheck, StartOnce, OpenPipes, Started, WaitMarksDone, WaitReturns, StopLogs,
   Verdict, RunReturns, TimeoutAnswered, TimeoutAbandoned, ProcessExits, CtxExpires,
   CtxKills, TTRElapses, Fork, DescendantExits

LEMMA ContractInit == Init => Contract!ReportInit
<1> SUFFICES ASSUME Init PROVE LastReported = PENDING /\ HasRun = FALSE
  BY DEF Contract!ReportInit, Contract!PENDING
<1> QED BY DEF Init, LastReported, HasRun

\* A stop's report is a Stop of the contract, or nothing for a terminal status.
LEMMA StopIsStop ==
  ASSUME TypeOK, ReportInv, NEW s \in StoppedStatuses,
         NEW stage \in Stages \ {"run"}, StopReport(s, stage)
  PROVE  [Contract!Stop]_(Contract!ReportVars)
<1>1. s \in Statuses
  BY DEF Statuses, TerminalStatuses
<1>2. CASE IsTerminalStatus(status)
  <2>1. reports' = reports
    BY <1>2 DEF StopReport, statusVars
  <2> QED BY <2>1, SameReports DEF Contract!ReportVars
<1>3. CASE ~IsTerminalStatus(status)
  <2>1. LastReported' = s /\ HasRun' = HasRun
    BY <1>1, <1>3, Reports DEF StopReport, ReportInv, HasRun
  <2>2. LastReported \in {PENDING, RUNNING}
    BY <1>3 DEF ReportInv, Told, Visible, IsTerminalStatus, TerminalStatuses, TypeOK,
       Statuses
  <2> QED
    BY <2>1, <2>2 DEF Contract!Stop, Contract!PENDING, Contract!RUNNING,
       Contract!StoppedStatuses, Contract!CANCELED, Contract!TIMEOUT
<1> QED BY <1>2, <1>3

LEMMA ContractStep ==
  ASSUME TypeOK, ReportInv, [Next]_vars
  PROVE  [Contract!ReportNext]_(Contract!ReportVars)
<1> USE DEF Contract!ReportNext, Contract!PENDING, Contract!RUNNING, Contract!SUCCESS,
        Contract!ERROR, Contract!CANCELED, Contract!TIMEOUT, Contract!StoppedStatuses
<1>a. Told /\ ReportsChain /\ StatusByPhase /\ status \in Statuses
  BY DEF ReportInv, TypeOK
<1>1. CASE reports' = reports
  BY <1>1, SameReports DEF Contract!ReportVars
<1>2. ASSUME NEW p \in Threads, Cancel(p) PROVE [Contract!Stop]_(Contract!ReportVars)
  BY <1>2, StopIsStop DEF Cancel, Stages
<1>3. ASSUME NEW p \in Threads, Timeout(p) PROVE [Contract!Stop]_(Contract!ReportVars)
  BY <1>3, StopIsStop DEF Timeout, Stages
<1>4. CASE StartProcess
  <2>1. LastReported' = RUNNING /\ HasRun' = TRUE
    BY <1>a, <1>4, Reports DEF StartProcess, Stages, Statuses, HasRun
  <2>2. HasRun = FALSE /\ LastReported \in {PENDING} \cup StoppedStatuses
    BY <1>a, <1>4 DEF StartProcess, StatusByPhase, BeforeStart, Told, Visible, HasRun
  <2> QED BY <2>1, <2>2 DEF Contract!Start
<1>5. CASE Finish
  <2>1. LastReported' = SUCCESS /\ HasRun' = HasRun
    BY <1>a, <1>5, Reports DEF Finish, Stages, Statuses, TerminalStatuses, HasRun
  <2>2. HasRun /\ LastReported \in {RUNNING} \cup StoppedStatuses
    BY <1>a, <1>5 DEF Finish, StatusByPhase, Succeeding, Told, Visible
  <2> QED BY <2>1, <2>2 DEF Contract!Succeed
<1>6. CASE Failed
  <2>1. StopReport(ERROR, "failed")
    BY <1>6 DEF Failed
  <2>2. CASE IsTerminalStatus(status)
    <3>1. reports' = reports
      BY <2>1, <2>2 DEF StopReport, statusVars
    <3> QED BY <1>1, <3>1
  <2>3. CASE ~IsTerminalStatus(status)
    <3>1. LastReported' = ERROR /\ HasRun' = HasRun
      BY <1>a, <2>1, <2>3, Reports DEF StopReport, Stages, Statuses, TerminalStatuses,
         HasRun
    <3>2. LastReported \in {PENDING, RUNNING}
      BY <1>a, <2>3 DEF Told, Visible, IsTerminalStatus, TerminalStatuses, Statuses
    <3> QED BY <3>1, <3>2 DEF Contract!Fail
  <2> QED BY <2>2, <2>3
<1> QED BY <1>1, <1>2, <1>3, <1>4, <1>5, <1>6, ReportingSteps

\* What the API is told of a job, for any callers, is a behaviour of JobReports:
\* at most one start, stops only of unfinished jobs, nothing after SUCCESS or
\* ERROR.
THEOREM Refinement == Spec => ImplementsReports
<1>1. TypeOK /\ ReportInv /\ [Next]_vars => [Contract!ReportNext]_(Contract!ReportVars)
  BY ContractStep
<1>2. QED
  BY <1>1, ContractInit, Invariants, PTL
     DEF Spec, ImplementsReports, Contract!ReportSpec

--------------------------------------------------------------------------------
(* The process follows the worker *)

LEMMA ProcByPhaseStep ==
  ASSUME TypeOK, VerdictInv, ProcByPhase, [Next]_vars
  PROVE  ProcByPhase'
<1> USE ThreadsAssumption DEF Threads
<1>a. pc \in [Threads -> WorkerPC \cup StopPC] /\ pc[Worker] \in WorkerPC
  BY DEF TypeOK, VerdictInv
<1> USE <1>a DEF ProcByPhase, BeforeStart, AfterCommand, WorkerPC, Goto, execVars
<1>1. ASSUME NEW p \in Callers, CallCancel(p) PROVE ProcByPhase'
  BY <1>1 DEF CallCancel
<1>2. ASSUME NEW p \in Callers, CallTimeout(p) PROVE ProcByPhase'
  BY <1>2 DEF CallTimeout
<1>3. ASSUME NEW p \in Threads, Cancel(p) PROVE ProcByPhase'
  BY <1>3 DEF Cancel
<1>4. ASSUME NEW p \in Threads, Timeout(p) PROVE ProcByPhase'
  BY <1>4 DEF Timeout
<1>5. ASSUME NEW p \in Threads, StopSkip(p) PROVE ProcByPhase'
  BY <1>5 DEF StopSkip, AfterStop
<1>6. ASSUME NEW p \in Threads, StopEnter(p) PROVE ProcByPhase'
  BY <1>6 DEF StopEnter
<1>7. ASSUME NEW p \in Threads, StopKill(p) PROVE ProcByPhase'
  BY <1>7 DEF StopKill
<1>8. ASSUME NEW p \in Threads, StopSignal(p) PROVE ProcByPhase'
  BY <1>8 DEF StopSignal, AfterStop
<1>9. ASSUME RunCheck PROVE ProcByPhase'
  BY <1>9 DEF RunCheck
<1>10. ASSUME StartOnce PROVE ProcByPhase'
  BY <1>10 DEF StartOnce
<1>11. ASSUME OpenPipes PROVE ProcByPhase'
  BY <1>11 DEF OpenPipes
<1>12. ASSUME StartProcess PROVE ProcByPhase'
  BY <1>12 DEF StartProcess
<1>13. ASSUME Started PROVE ProcByPhase'
  BY <1>13 DEF Started
<1>14. ASSUME WaitMarksDone PROVE ProcByPhase'
  BY <1>14 DEF WaitMarksDone
<1>15. ASSUME WaitReturns PROVE ProcByPhase'
  BY <1>15 DEF WaitReturns
<1>16. ASSUME StopLogs PROVE ProcByPhase'
  BY <1>16 DEF StopLogs
<1>17. ASSUME Verdict PROVE ProcByPhase'
  BY <1>17 DEF Verdict
<1>18. ASSUME RunReturns PROVE ProcByPhase'
  BY <1>18 DEF RunReturns
<1>19. ASSUME Finish PROVE ProcByPhase'
  BY <1>19 DEF Finish
<1>20. ASSUME Failed PROVE ProcByPhase'
  BY <1>20 DEF Failed
<1>21. ASSUME TimeoutAnswered PROVE ProcByPhase'
  BY <1>21 DEF TimeoutAnswered
<1>22. ASSUME TimeoutAbandoned PROVE ProcByPhase'
  BY <1>22 DEF TimeoutAbandoned
<1>23. ASSUME ProcessExits PROVE ProcByPhase'
  BY <1>23 DEF ProcessExits
<1>24. ASSUME CtxExpires PROVE ProcByPhase'
  BY <1>24 DEF CtxExpires
<1>25. ASSUME CtxKills PROVE ProcByPhase'
  BY <1>25 DEF CtxKills
<1>26. ASSUME TTRElapses PROVE ProcByPhase'
  BY <1>26 DEF TTRElapses
<1>27. ASSUME NEW k \in Descendants, Fork(k) PROVE ProcByPhase'
  BY <1>27 DEF Fork
<1>28. ASSUME NEW k \in Descendants, DescendantExits(k) PROVE ProcByPhase'
  BY <1>28 DEF DescendantExits
<1>29. CASE UNCHANGED vars
  BY <1>29 DEF vars
<1> QED
  BY <1>1, <1>2, <1>3, <1>4, <1>5, <1>6, <1>7, <1>8, <1>9, <1>10,
     <1>11, <1>12, <1>13, <1>14, <1>15, <1>16, <1>17, <1>18, <1>19,
     <1>20, <1>21, <1>22, <1>23, <1>24, <1>25, <1>26, <1>27, <1>28,
     <1>29
  DEF Next, Step, StopStep, WorkerStep, WorkerProgress, EnvStep, Halted

\* A goroutine that holds j.mu in a stop is the only one there, and the process
\* of a job that was already stopped is under its kill.
LEMMA KillerStep ==
  ASSUME TypeOK, MutexHeld, MutexHeld', ReportInv, VerdictInv, ProcByPhase,
         KillerOnTheWay, [Next]_vars
  PROVE  KillerOnTheWay'
<1> USE ThreadsAssumption DEF Threads
<1>a. /\ pc \in [Threads -> WorkerPC \cup StopPC] /\ pc[Worker] \in WorkerPC
      /\ status \in Statuses
  BY DEF TypeOK, VerdictInv
<1> USE <1>a DEF KillerOnTheWay, ProcByPhase, BeforeStart, AfterCommand, Goto,
        statusVars, execVars
<1>1. ASSUME NEW p \in Callers, CallCancel(p) PROVE KillerOnTheWay'
  BY <1>1 DEF CallCancel
<1>2. ASSUME NEW p \in Callers, CallTimeout(p) PROVE KillerOnTheWay'
  BY <1>2 DEF CallTimeout
<1>3. ASSUME NEW p \in Threads, Cancel(p) PROVE KillerOnTheWay'
  BY <1>3 DEF Cancel
<1>4. ASSUME NEW p \in Threads, Timeout(p) PROVE KillerOnTheWay'
  BY <1>4 DEF Timeout
<1>5. ASSUME NEW p \in Threads, StopSkip(p) PROVE KillerOnTheWay'
  BY <1>5 DEF StopSkip
<1>6. ASSUME NEW p \in Threads, StopEnter(p) PROVE KillerOnTheWay'
  BY <1>6 DEF StopEnter
<1>7. ASSUME NEW p \in Threads, StopKill(p) PROVE KillerOnTheWay'
  BY <1>7 DEF StopKill
<1>8. ASSUME NEW p \in Threads, StopSignal(p) PROVE KillerOnTheWay'
  BY <1>8 DEF StopSignal
<1>9. ASSUME RunCheck PROVE KillerOnTheWay'
  BY <1>9 DEF RunCheck
<1>10. ASSUME StartOnce PROVE KillerOnTheWay'
  BY <1>10 DEF StartOnce
<1>11. ASSUME OpenPipes PROVE KillerOnTheWay'
  BY <1>11 DEF OpenPipes
<1>12. ASSUME StartProcess PROVE KillerOnTheWay'
  BY <1>12 DEF StartProcess, updateStatus
<1>13. ASSUME Started PROVE KillerOnTheWay'
  BY <1>13 DEF Started
<1>14. ASSUME WaitMarksDone PROVE KillerOnTheWay'
  BY <1>14 DEF WaitMarksDone
<1>15. ASSUME WaitReturns PROVE KillerOnTheWay'
  BY <1>15 DEF WaitReturns
<1>16. ASSUME StopLogs PROVE KillerOnTheWay'
  BY <1>16 DEF StopLogs
<1>17. ASSUME Verdict PROVE KillerOnTheWay'
  BY <1>17 DEF Verdict
<1>18. ASSUME RunReturns PROVE KillerOnTheWay'
  BY <1>18 DEF RunReturns
<1>19. ASSUME Finish PROVE KillerOnTheWay'
  BY <1>19 DEF Finish
<1>20. ASSUME Failed PROVE KillerOnTheWay'
  BY <1>20 DEF Failed
<1>21. ASSUME TimeoutAnswered PROVE KillerOnTheWay'
  BY <1>21 DEF TimeoutAnswered
<1>22. ASSUME TimeoutAbandoned PROVE KillerOnTheWay'
  BY <1>22 DEF TimeoutAbandoned
<1>23. ASSUME ProcessExits PROVE KillerOnTheWay'
  BY <1>23 DEF ProcessExits
<1>24. ASSUME CtxExpires PROVE KillerOnTheWay'
  BY <1>24 DEF CtxExpires
<1>25. ASSUME CtxKills PROVE KillerOnTheWay'
  BY <1>25 DEF CtxKills
<1>26. ASSUME TTRElapses PROVE KillerOnTheWay'
  BY <1>26 DEF TTRElapses
<1>27. ASSUME NEW k \in Descendants, Fork(k) PROVE KillerOnTheWay'
  BY <1>27 DEF Fork
<1>28. ASSUME NEW k \in Descendants, DescendantExits(k) PROVE KillerOnTheWay'
  BY <1>28 DEF DescendantExits
<1>29. CASE UNCHANGED vars
  BY <1>29 DEF vars
<1> QED
  BY <1>1, <1>2, <1>3, <1>4, <1>5, <1>6, <1>7, <1>8, <1>9, <1>10,
     <1>11, <1>12, <1>13, <1>14, <1>15, <1>16, <1>17, <1>18, <1>19,
     <1>20, <1>21, <1>22, <1>23, <1>24, <1>25, <1>26, <1>27, <1>28,
     <1>29
  DEF Next, Step, StopStep, WorkerStep, WorkerProgress, EnvStep, Halted

--------------------------------------------------------------------------------
(* The result *)

LEMMA ResultInvStep ==
  ASSUME TypeOK, ReportInv, VerdictInv, ProcByPhase, ResultInv, [Next]_vars
  PROVE  ResultInv'
<1> USE ThreadsAssumption DEF Threads
<1>a. /\ pc \in [Threads -> WorkerPC \cup StopPC] /\ pc[Worker] \in WorkerPC
      /\ status \in Statuses /\ result \in Results
  BY DEF TypeOK, VerdictInv
<1> USE <1>a DEF ReportInv, StatusByPhase, VerdictInv, ProcByPhase, BeforeStart,
        InCommand, AfterCommand, Succeeding, Failing, Cancelling, EndedWell, ResultInv,
        SuccessIsEarned, WorkerPC, Goto, statusVars, execVars, IsTerminalStatus,
        TerminalStatuses
<1>1. ASSUME NEW p \in Callers, CallCancel(p) PROVE ResultInv'
  BY <1>1 DEF CallCancel
<1>2. ASSUME NEW p \in Callers, CallTimeout(p) PROVE ResultInv'
  BY <1>2 DEF CallTimeout
<1>3. ASSUME NEW p \in Threads, Cancel(p) PROVE ResultInv'
  BY <1>3 DEF Cancel, StopReport, updateStatus
<1>4. ASSUME NEW p \in Threads, Timeout(p) PROVE ResultInv'
  BY <1>4 DEF Timeout, StopReport, updateStatus
<1>5. ASSUME NEW p \in Threads, StopSkip(p) PROVE ResultInv'
  BY <1>5 DEF StopSkip, AfterStop
<1>6. ASSUME NEW p \in Threads, StopEnter(p) PROVE ResultInv'
  BY <1>6 DEF StopEnter
<1>7. ASSUME NEW p \in Threads, StopKill(p) PROVE ResultInv'
  BY <1>7 DEF StopKill
<1>8. ASSUME NEW p \in Threads, StopSignal(p) PROVE ResultInv'
  BY <1>8 DEF StopSignal, AfterStop
<1>9. ASSUME RunCheck PROVE ResultInv'
  BY <1>9 DEF RunCheck
<1>10. ASSUME StartOnce PROVE ResultInv'
  BY <1>10 DEF StartOnce
<1>11. ASSUME OpenPipes PROVE ResultInv'
  BY <1>11 DEF OpenPipes
<1>12. ASSUME StartProcess PROVE ResultInv'
  BY <1>12 DEF StartProcess, updateStatus
<1>13. ASSUME Started PROVE ResultInv'
  BY <1>13 DEF Started
<1>14. ASSUME WaitMarksDone PROVE ResultInv'
  BY <1>14 DEF WaitMarksDone
<1>15. ASSUME WaitReturns PROVE ResultInv'
  BY <1>15 DEF WaitReturns
<1>16. ASSUME StopLogs PROVE ResultInv'
  BY <1>16 DEF StopLogs
<1>17. ASSUME Verdict PROVE ResultInv'
  BY <1>17, VerdictValue DEF Verdict
<1>18. ASSUME RunReturns PROVE ResultInv'
  BY <1>18 DEF RunReturns, Results
<1>19. ASSUME Finish PROVE ResultInv'
  BY <1>19 DEF Finish, updateStatus
<1>20. ASSUME Failed PROVE ResultInv'
  BY <1>20 DEF Failed, StopReport, updateStatus
<1>21. ASSUME TimeoutAnswered PROVE ResultInv'
  BY <1>21 DEF TimeoutAnswered
<1>22. ASSUME TimeoutAbandoned PROVE ResultInv'
  BY <1>22 DEF TimeoutAbandoned
<1>23. ASSUME ProcessExits PROVE ResultInv'
  BY <1>23 DEF ProcessExits
<1>24. ASSUME CtxExpires PROVE ResultInv'
  BY <1>24 DEF CtxExpires
<1>25. ASSUME CtxKills PROVE ResultInv'
  BY <1>25 DEF CtxKills
<1>26. ASSUME TTRElapses PROVE ResultInv'
  BY <1>26 DEF TTRElapses
<1>27. ASSUME NEW k \in Descendants, Fork(k) PROVE ResultInv'
  BY <1>27 DEF Fork
<1>28. ASSUME NEW k \in Descendants, DescendantExits(k) PROVE ResultInv'
  BY <1>28 DEF DescendantExits
<1>29. CASE UNCHANGED vars
  BY <1>29 DEF vars
<1> QED
  BY <1>1, <1>2, <1>3, <1>4, <1>5, <1>6, <1>7, <1>8, <1>9, <1>10,
     <1>11, <1>12, <1>13, <1>14, <1>15, <1>16, <1>17, <1>18, <1>19,
     <1>20, <1>21, <1>22, <1>23, <1>24, <1>25, <1>26, <1>27, <1>28,
     <1>29
  DEF Next, Step, StopStep, WorkerStep, WorkerProgress, EnvStep, Halted

--------------------------------------------------------------------------------
(* The theorems *)

LEMMA ProcessInit == Init => ProcInv /\ ResultInv
BY ThreadsAssumption
   DEF Init, ProcInv, ProcByPhase, KillerOnTheWay, ResultInv, SuccessIsEarned,
   Succeeding, Failing, BeforeStart, AfterCommand, TerminalStatuses, Threads

\* The inductive invariant holds for any callers and descendants.
THEOREM JobInvHolds == Spec => []JobInv
<1>1. Init => ProcInv /\ ResultInv
  BY ProcessInit
<1>2. TypeOK /\ MutexHeld /\ MutexHeld' /\ ReportInv /\ VerdictInv /\ ProcInv
        /\ ResultInv /\ [Next]_vars => ProcInv' /\ ResultInv'
  BY ProcByPhaseStep, KillerStep, ResultInvStep DEF ProcInv
<1>3. TypeOK /\ MutexHeld /\ ReportInv /\ VerdictInv /\ ProcInv /\ ResultInv <=> JobInv
  BY DEF JobInv
<1> QED BY <1>1, <1>2, <1>3, Invariants, PTL DEF Spec

\* Once a stop is on record and j.mu is free, the main process is dead: KillerOnTheWay
\* gives the goroutine that kills it, and that one would hold j.mu.
THEOREM StoppedIsKilled == Spec => []StoppedMeansKilled
<1>1. JobInv => StoppedMeansKilled
  BY ThreadsAssumption
     DEF JobInv, MutexHeld, Holding, ProcInv, KillerOnTheWay, StoppedMeansKilled
<1> QED BY <1>1, JobInvHolds, PTL

\* A worker leaves a job with its process waited for, or never started.
THEOREM NothingLeft == Spec => []NoProcessLeft
<1>1. JobInv => NoProcessLeft
  BY DEF JobInv, ProcInv, ProcByPhase, AfterCommand, NoProcessLeft
<1> QED BY <1>1, JobInvHolds, PTL

\* SUCCESS is only said of a process that ended by itself with exit code 0, and
\* ERROR never of one.
THEOREM SuccessEarned == Spec => []SuccessIsEarned
<1>1. JobInv => SuccessIsEarned
  BY DEF JobInv, ResultInv
<1> QED BY <1>1, JobInvHolds, PTL

--------------------------------------------------------------------------------
(* A stop before the worker's check *)

\* The job was stopped before its worker checked it, and the worker goes past.
StoppedInQueue ==
  /\ pc[Worker] \in {"queued", "failed", "done"}
  /\ IsTerminalStatus(status) /\ LastReported = status
  /\ proc = "none"

LEMMA StoppedInQueueStep ==
  ASSUME TypeOK, TimeouterPhase, StoppedInQueue, [Next]_vars
  PROVE  StoppedInQueue'
<1> USE ThreadsAssumption DEF Threads
<1>a. pc \in [Threads -> WorkerPC \cup StopPC]
  BY DEF TypeOK
<1> USE <1>a DEF StoppedInQueue, Goto, statusVars, execVars, StopReport
<1>1. ASSUME NEW p \in Callers, CallCancel(p) PROVE StoppedInQueue'
  BY <1>1, SameReports DEF CallCancel
<1>2. ASSUME NEW p \in Callers, CallTimeout(p) PROVE StoppedInQueue'
  BY <1>2, SameReports DEF CallTimeout
<1>3. ASSUME NEW p \in Threads, Cancel(p) PROVE StoppedInQueue'
  BY <1>3, SameReports DEF Cancel
<1>4. ASSUME NEW p \in Threads, Timeout(p) PROVE StoppedInQueue'
  BY <1>4, SameReports DEF Timeout
<1>5. ASSUME NEW p \in Threads, StopSkip(p) PROVE StoppedInQueue'
  BY <1>5, SameReports DEF StopSkip
<1>6. ASSUME NEW p \in Threads, StopEnter(p) PROVE StoppedInQueue'
  BY <1>6, SameReports DEF StopEnter
<1>7. ASSUME NEW p \in Threads, StopKill(p) PROVE StoppedInQueue'
  BY <1>7, SameReports DEF StopKill
<1>8. ASSUME NEW p \in Threads, StopSignal(p) PROVE StoppedInQueue'
  BY <1>8, SameReports DEF StopSignal
<1>9. ASSUME RunCheck PROVE StoppedInQueue'
  BY <1>9, SameReports DEF RunCheck
<1>10. ASSUME StartOnce PROVE StoppedInQueue'
  BY <1>10, SameReports DEF StartOnce
<1>11. ASSUME OpenPipes PROVE StoppedInQueue'
  BY <1>11, SameReports DEF OpenPipes
<1>12. ASSUME StartProcess PROVE StoppedInQueue'
  BY <1>12, SameReports DEF StartProcess
<1>13. ASSUME Started PROVE StoppedInQueue'
  BY <1>13, SameReports DEF Started
<1>14. ASSUME WaitMarksDone PROVE StoppedInQueue'
  BY <1>14, SameReports DEF WaitMarksDone
<1>15. ASSUME WaitReturns PROVE StoppedInQueue'
  BY <1>15, SameReports DEF WaitReturns
<1>16. ASSUME StopLogs PROVE StoppedInQueue'
  BY <1>16, SameReports DEF StopLogs
<1>17. ASSUME Verdict PROVE StoppedInQueue'
  BY <1>17, SameReports DEF Verdict
<1>18. ASSUME RunReturns PROVE StoppedInQueue'
  BY <1>18, SameReports DEF RunReturns
<1>19. ASSUME Finish PROVE StoppedInQueue'
  BY <1>19 DEF Finish
<1>20. ASSUME Failed PROVE StoppedInQueue'
  BY <1>20, SameReports DEF Failed
<1>21. ASSUME TimeoutAnswered PROVE StoppedInQueue'
  BY <1>21, SameReports DEF TimeoutAnswered
<1>22. ASSUME TimeoutAbandoned PROVE StoppedInQueue'
  BY <1>22, SameReports DEF TimeoutAbandoned
<1>23. ASSUME ProcessExits PROVE StoppedInQueue'
  BY <1>23, SameReports DEF ProcessExits
<1>24. ASSUME CtxExpires PROVE StoppedInQueue'
  BY <1>24, SameReports DEF CtxExpires
<1>25. ASSUME CtxKills PROVE StoppedInQueue'
  BY <1>25, SameReports DEF CtxKills
<1>26. ASSUME TTRElapses PROVE StoppedInQueue'
  BY <1>26, SameReports DEF TTRElapses
<1>27. ASSUME NEW k \in Descendants, Fork(k) PROVE StoppedInQueue'
  BY <1>27, SameReports DEF Fork
<1>28. ASSUME NEW k \in Descendants, DescendantExits(k) PROVE StoppedInQueue'
  BY <1>28, SameReports DEF DescendantExits
<1>29. CASE UNCHANGED vars
  BY <1>29, SameReports DEF vars
<1> QED
  BY <1>1, <1>2, <1>3, <1>4, <1>5, <1>6, <1>7, <1>8, <1>9, <1>10,
     <1>11, <1>12, <1>13, <1>14, <1>15, <1>16, <1>17, <1>18, <1>19,
     <1>20, <1>21, <1>22, <1>23, <1>24, <1>25, <1>26, <1>27, <1>28,
     <1>29
  DEF Next, Step, StopStep, WorkerStep, WorkerProgress, EnvStep, Halted

\* A Cancel or a Timeout that precedes the worker's check is never lost.
THEOREM QueuedStopIsKept == Spec => QueuedStopHolds
<1>1. JobInv /\ pc[Worker] = "queued" /\ mu = Nobody /\ IsTerminalStatus(status)
        => StoppedInQueue
  BY DEF JobInv, ReportInv, Told, ProcInv, ProcByPhase, BeforeStart, StoppedInQueue,
     Visible, IsTerminalStatus, TerminalStatuses
<1>2. JobInv /\ StoppedInQueue /\ [Next]_vars => StoppedInQueue'
  BY StoppedInQueueStep DEF JobInv, VerdictInv
<1>3. StoppedInQueue => proc = "none" /\ LastReported # RUNNING
  BY DEF StoppedInQueue, IsTerminalStatus, TerminalStatuses
<1> QED BY <1>1, <1>2, <1>3, JobInvHolds, PTL DEF Spec, QueuedStopHolds
================================================================================
